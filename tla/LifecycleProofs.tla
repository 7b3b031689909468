--------------------------- MODULE LifecycleProofs ---------------------------
(***************************************************************************)
(* Starting and stopping, for any number of start commands and of status   *)
(* events on their way.                                                    *)
(*                                                                         *)
(* Three layers, each resting on the one before. A thread that has not     *)
(* cleared up holds the slot, so there is at most one (SlotInv). The last  *)
(* word a workflow sends is that it is over, and an answer that comes      *)
(* after it is known to be overtaken (WordInv). While no start is given    *)
(* over another, one is given only when the editor has heard everything    *)
(* the last workflow had to say; and while nobody goes around the button,  *)
(* the busy flag keeps starts apart (ButtonInv).                           *)
(***************************************************************************)
EXTENDS Lifecycle, SequenceTheorems, TLAPS

\* The workflows that have not yet told of their end.
Speaking  == {"looping", "running", "ending"}
AllSilent == \A c \in Call : thread[c] \notin Speaking

HoldsSlot == \A c \in Call : thread[c] \in Alive => slot = c

CallMakesThread ==
  \A c \in Call :
    /\ call[c] \in {"unused", "sent"} => thread[c] = "none"
    /\ call[c] = "started" => thread[c] # "none"
    /\ call[c] = "unused" => c \notin moved

SlotInv == TypeOK /\ HoldsSlot /\ CallMakesThread

LastWordIsTheEnd ==
  AllSilent => IF events = <<>> THEN ~shown ELSE ~events[Len(events)]

LateAnswerIsKnown ==
  \A c \in Call :
    call[c] = "started" /\ thread[c] \notin Speaking => c \in moved \/ events # <<>>

WordInv == LastWordIsTheEnd /\ LateAnswerIsKnown

\* Nothing is left to be heard of, and nothing more will be said.
AllHeard == events = <<>> /\ AllSilent

BusyWhileDue == ~around /\ Due => busy

OneAsked ==
  ~hasty => \A c, d \in Call : call[c] \in Waiting /\ call[d] \in Waiting => c = d

\* FALSE, the end, is the last event on its way, and only when nobody speaks.
EndComesLast ==
  ~hasty => \A i \in DOMAIN events : ~events[i] => i = Len(events) /\ AllSilent

AskedWhenHeard ==
  ~hasty => \A c \in Call :
    /\ call[c] \in {"sent", "refused"} => AllHeard /\ ~shown
    /\ call[c] = "sent" => c \notin moved
    /\ call[c] = "started" /\ c \in moved => shown \/ AllHeard

NothingShownIsHeard == ~hasty /\ ~Due /\ ~shown => AllHeard

ButtonInv ==
  /\ ButtonKeepsStartsApart
  /\ BusyWhileDue
  /\ OneAsked
  /\ EndComesLast
  /\ AskedWhenHeard
  /\ NothingShownIsHeard

LifecycleInv == SlotInv /\ WordInv /\ ButtonInv


-----------------------------------------------------------------------------
(* The events on their way, as a sequence.                                 *)

LEMMA Telling ==
  ASSUME TypeOK, NEW b \in BOOLEAN, Tell(b)
  PROVE  /\ events' \in Seq(BOOLEAN) /\ events' # <<>>
         /\ Len(events) \in Nat
         /\ Len(events') = Len(events) + 1
         /\ DOMAIN events' = 1 .. Len(events) + 1
         /\ DOMAIN events = 1 .. Len(events)
         /\ \A i \in 1 .. Len(events) : events'[i] = events[i]
         /\ events'[Len(events')] = b
<1>1. events \in Seq(BOOLEAN) /\ events' = Append(events, b)
  BY DEF TypeOK, Tell
<1>2. /\ events' \in Seq(BOOLEAN)
      /\ Len(events') = Len(events) + 1
      /\ \A i \in 1 .. Len(events) : events'[i] = events[i]
      /\ events'[Len(events) + 1] = b
  BY <1>1, AppendProperties
<1>3. Len(events) \in Nat /\ DOMAIN events' = 1 .. Len(events') /\ DOMAIN events = 1 .. Len(events)
  BY <1>1, <1>2, LenProperties
<1>4. events' # <<>>
  BY <1>2, <1>3
<1> QED BY <1>2, <1>3, <1>4

LEMMA Hearing ==
  ASSUME TypeOK, events # <<>>
  PROVE  /\ Head(events) = events[1] /\ Head(events) \in BOOLEAN
         /\ Tail(events) \in Seq(BOOLEAN)
         /\ Len(events) \in Nat /\ Len(events) >= 1
         /\ Len(Tail(events)) = Len(events) - 1
         /\ DOMAIN Tail(events) = 1 .. Len(events) - 1
         /\ DOMAIN events = 1 .. Len(events)
         /\ \A i \in 1 .. Len(events) - 1 : Tail(events)[i] = events[i + 1]
         /\ Tail(events) = <<>> <=> Len(events) = 1
<1>1. events \in Seq(BOOLEAN)
  BY DEF TypeOK
<1>2. /\ Head(events) = events[1] /\ Head(events) \in BOOLEAN
      /\ Tail(events) \in Seq(BOOLEAN)
      /\ Len(Tail(events)) = Len(events) - 1
      /\ \A i \in 1 .. Len(Tail(events)) : Tail(events)[i] = events[i + 1]
  BY <1>1, HeadTailProperties
<1>3. /\ Len(events) \in Nat /\ DOMAIN events = 1 .. Len(events)
      /\ DOMAIN Tail(events) = 1 .. Len(Tail(events))
  BY <1>1, <1>2, LenProperties
<1>4. Len(events) # 0
  BY <1>1, EmptySeq
<1>5. Tail(events) = <<>> <=> Len(Tail(events)) = 0
  BY <1>2, EmptySeq
<1> QED BY <1>2, <1>3, <1>4, <1>5

-----------------------------------------------------------------------------
(* What holds at the start.                                                *)

LEMMA InitEstablishes == Init => LifecycleInv
<1> SUFFICES ASSUME Init PROVE LifecycleInv
  OBVIOUS
<1>1. <<>> \in Seq(BOOLEAN) /\ DOMAIN <<>> = {}
  OBVIOUS
<1>2. SlotInv
  BY <1>1 DEF Init, SlotInv, TypeOK, HoldsSlot, CallMakesThread, Alive, Working, Waiting
<1>3. WordInv
  BY DEF Init, WordInv, LastWordIsTheEnd, LateAnswerIsKnown
<1>4. ButtonInv
  BY <1>1 DEF Init, ButtonInv, ButtonKeepsStartsApart, BusyWhileDue, Due, OneAsked, EndComesLast, AskedWhenHeard,
           NothingShownIsHeard, AllHeard, AllSilent, Speaking, Waiting
<1> QED BY <1>2, <1>3, <1>4 DEF LifecycleInv

-----------------------------------------------------------------------------
(* The slot. What the editor and the main thread do to the calls moves no  *)
(* thread; a start finds the slot empty and so nobody alive.               *)

LEMMA SlotStep == SlotInv /\ [Next]_vars => SlotInv'
<1> SUFFICES ASSUME SlotInv, [Next]_vars PROVE SlotInv'
  OBVIOUS
<1> USE LifecycleAssumption
<1> USE DEF SlotInv, TypeOK, HoldsSlot, CallMakesThread, runtimeVars, wireVars, editorVars
<1> USE DEF Alive, Working, Waiting
<1>1. ASSUME NEW c \in Call, PressButton(c) \/ PressShortcut(c) PROVE SlotInv'
  BY <1>1 DEF PressButton, PressShortcut, Ask, Due
<1>18. CASE OtherCommand
  BY <1>18 DEF OtherCommand
<1>2. ASSUME NEW c \in Call, HearAnswer(c) PROVE SlotInv'
  BY <1>2 DEF HearAnswer
<1>3. ASSUME NEW c \in Call, RefuseStart(c) PROVE SlotInv'
  BY <1>3 DEF RefuseStart, Answer
<1>4. ASSUME NEW c \in Call, Start(c) PROVE SlotInv'
  BY <1>4 DEF Start, MayStart, Answer
<1>5. ASSUME NEW c \in Call, StartWithoutThread(c) PROVE SlotInv'
  BY <1>5 DEF StartWithoutThread, MayStart, Answer
<1>6. ASSUME NEW c \in Call, BeginTick(c) PROVE SlotInv'
  BY <1>6 DEF BeginTick, Go
<1>7. ASSUME NEW c \in Call, EndTick(c) PROVE SlotInv'
  <2>1. events' \in Seq(BOOLEAN)
    BY <1>7, Telling DEF EndTick
  <2> QED BY <1>7, <2>1 DEF EndTick, Go
<1>8. ASSUME NEW c \in Call, EndWatching(c) PROVE SlotInv'
  BY <1>8 DEF EndWatching, Go
<1>9. ASSUME NEW c \in Call, EndRun(c) PROVE SlotInv'
  BY <1>9 DEF EndRun, Go
<1>10. ASSUME NEW c \in Call, AnnounceEnd(c) PROVE SlotInv'
  <2>1. events' \in Seq(BOOLEAN)
    BY <1>10, Telling DEF AnnounceEnd
  <2> QED BY <1>10, <2>1 DEF AnnounceEnd, Go
<1>11. ASSUME NEW c \in Call, EmptySlot(c) PROVE SlotInv'
  BY <1>11 DEF EmptySlot, Go
<1>12. ASSUME NEW c \in Call, Overrun(c) PROVE SlotInv'
  BY <1>12 DEF Overrun
<1>13. ASSUME NEW c \in Call, Panic(c) PROVE SlotInv'
  BY <1>13 DEF Panic, Go
<1>14. CASE HearStatus
  <2>1. Head(events) \in BOOLEAN /\ Tail(events) \in Seq(BOOLEAN)
    BY <1>14, Hearing DEF HearStatus
  <2> QED BY <1>14, <2>1 DEF HearStatus
<1>15. CASE PressStop
  BY <1>15 DEF PressStop
<1>16. CASE HandleStop
  BY <1>16 DEF HandleStop
<1>17. CASE UNCHANGED vars
  BY <1>17 DEF vars
<1> QED BY <1>1, <1>2, <1>3, <1>4, <1>5, <1>6, <1>7, <1>8, <1>9, <1>10, <1>11, <1>12,
           <1>13, <1>14, <1>15, <1>16, <1>17, <1>18 DEF Next, Handle, Work


-----------------------------------------------------------------------------
(* The last word.                                                          *)

LEMMA WordStep == SlotInv /\ WordInv /\ [Next]_vars => WordInv'
<1> SUFFICES ASSUME SlotInv, WordInv, [Next]_vars PROVE WordInv'
  OBVIOUS
<1> USE LifecycleAssumption
<1> USE DEF SlotInv, WordInv, LastWordIsTheEnd, LateAnswerIsKnown, AllSilent, Speaking,
        CallMakesThread, TypeOK, runtimeVars, wireVars, editorVars
<1>1. ASSUME NEW c \in Call, PressButton(c) \/ PressShortcut(c) PROVE WordInv'
  BY <1>1 DEF PressButton, PressShortcut, Ask, Due
<1>18. CASE OtherCommand
  BY <1>18 DEF OtherCommand
<1>2. ASSUME NEW c \in Call, HearAnswer(c) PROVE WordInv'
  <2>1. LateAnswerIsKnown'
    BY <1>2 DEF HearAnswer
  <2>2. LastWordIsTheEnd'
    BY <1>2 DEF HearAnswer, Overtaken
  <2> QED BY <2>1, <2>2
<1>3. ASSUME NEW c \in Call, RefuseStart(c) PROVE WordInv'
  BY <1>3 DEF RefuseStart, Answer
<1>4. ASSUME NEW c \in Call, Start(c) PROVE WordInv'
  BY <1>4 DEF Start, MayStart, Answer
<1>5. ASSUME NEW c \in Call, StartWithoutThread(c) PROVE WordInv'
  BY <1>5 DEF StartWithoutThread, MayStart, Answer
<1>6. ASSUME NEW c \in Call, BeginTick(c) PROVE WordInv'
  BY <1>6 DEF BeginTick, Go
<1>7. ASSUME NEW c \in Call, EndTick(c) PROVE WordInv'
  <2>1. events' # <<>> /\ ~ AllSilent'
    BY <1>7, Telling DEF EndTick, Go
  <2> QED BY <1>7, <2>1 DEF EndTick, Go
<1>8. ASSUME NEW c \in Call, EndWatching(c) PROVE WordInv'
  BY <1>8 DEF EndWatching, Go
<1>9. ASSUME NEW c \in Call, EndRun(c) PROVE WordInv'
  BY <1>9 DEF EndRun, Go
<1>10. ASSUME NEW c \in Call, AnnounceEnd(c) PROVE WordInv'
  <2>1. events' # <<>> /\ ~ events'[Len(events')]
    BY <1>10, Telling DEF AnnounceEnd
  <2> QED BY <1>10, <2>1 DEF AnnounceEnd, Go
<1>11. ASSUME NEW c \in Call, EmptySlot(c) PROVE WordInv'
  BY <1>11 DEF EmptySlot, Go
<1>12. ASSUME NEW c \in Call, Overrun(c) PROVE WordInv'
  BY <1>12 DEF Overrun
<1>13. ASSUME NEW c \in Call, Panic(c) PROVE WordInv'
  BY <1>13 DEF Panic, Go
<1>14. CASE HearStatus
  <2>1. LateAnswerIsKnown'
    BY <1>14 DEF HearStatus, Waiting
  <2>2. SUFFICES ASSUME AllSilent'
                 PROVE  IF events' = <<>> THEN ~shown' ELSE ~events'[Len(events')]
    BY <2>1
  <2>3. ~ events[Len(events)]
    BY <1>14, <2>2 DEF HearStatus
  <2>4. CASE Len(events) = 1
    BY <1>14, <2>3, <2>4, Hearing DEF HearStatus
  <2>5. CASE Len(events) # 1
    <3>1. events' = Tail(events) /\ events' # <<>> /\ Len(events') = Len(events) - 1
      BY <1>14, <2>5, Hearing DEF HearStatus
    <3>2. Len(events) - 1 \in 1 .. Len(events) - 1 /\ (Len(events) - 1) + 1 = Len(events)
      BY <1>14, <2>5, Hearing DEF HearStatus
    <3>3. Tail(events)[Len(events) - 1] = events[(Len(events) - 1) + 1]
      BY <1>14, <3>2, Hearing DEF HearStatus
    <3> QED BY <2>3, <3>1, <3>2, <3>3
  <2> QED BY <2>4, <2>5
<1>15. CASE PressStop
  BY <1>15 DEF PressStop
<1>16. CASE HandleStop
  BY <1>16 DEF HandleStop
<1>17. CASE UNCHANGED vars
  BY <1>17 DEF vars
<1> QED BY <1>1, <1>2, <1>3, <1>4, <1>5, <1>6, <1>7, <1>8, <1>9, <1>10, <1>11, <1>12,
           <1>13, <1>14, <1>15, <1>16, <1>17, <1>18 DEF Next, Handle, Work

-----------------------------------------------------------------------------
(* The button. Once a start was given over another nothing more is claimed,  *)
(* so every step may be taken to be without one.                           *)

LEMMA ButtonStep == LifecycleInv /\ [Next]_vars => ButtonInv'
<1> SUFFICES ASSUME LifecycleInv, [Next]_vars PROVE ButtonInv'
  OBVIOUS
<1> USE LifecycleAssumption
<1> USE DEF LifecycleInv, SlotInv, TypeOK, HoldsSlot, CallMakesThread, runtimeVars, wireVars,
        editorVars, Alive, Working, Waiting, ButtonInv, ButtonKeepsStartsApart, BusyWhileDue, Due, OneAsked, EndComesLast,
        AskedWhenHeard, NothingShownIsHeard, AllHeard, AllSilent, Speaking
<1>1. ASSUME NEW c \in Call, PressButton(c) \/ PressShortcut(c) PROVE ButtonInv'
  BY <1>1 DEF PressButton, PressShortcut, Ask
<1>18. CASE OtherCommand
  BY <1>18 DEF OtherCommand
<1>2. ASSUME NEW c \in Call, HearAnswer(c) PROVE ButtonInv'
  BY <1>2 DEF HearAnswer, Overtaken
<1>3. ASSUME NEW c \in Call, RefuseStart(c) PROVE ButtonInv'
  BY <1>3 DEF RefuseStart, Answer
<1>4. ASSUME NEW c \in Call, Start(c) PROVE ButtonInv'
  BY <1>4 DEF Start, MayStart, Answer
<1>5. ASSUME NEW c \in Call, StartWithoutThread(c) PROVE ButtonInv'
  BY <1>5 DEF StartWithoutThread, MayStart, Answer
<1>6. ASSUME NEW c \in Call, BeginTick(c) PROVE ButtonInv'
  BY <1>6 DEF BeginTick, Go
<1>7. ASSUME NEW c \in Call, EndTick(c) PROVE ButtonInv'
  <2>1. ~ AllSilent /\ ~ AllSilent'
    BY <1>7 DEF EndTick, Go
  <2>2. /\ events' # <<>> /\ DOMAIN events' = 1 .. Len(events) + 1 /\ Len(events) \in Nat
        /\ DOMAIN events = 1 .. Len(events) /\ Len(events') = Len(events) + 1
        /\ \A i \in 1 .. Len(events) : events'[i] = events[i]
        /\ events'[Len(events')]
    BY <1>7, Telling DEF EndTick
  <2>3. UNCHANGED <<call, busy, shown, moved, hasty, around>>
    BY <1>7 DEF EndTick
  <2>4. ~hasty => \A i \in DOMAIN events' : events'[i]
    BY <2>1, <2>2
  <2>5. ~ AllHeard
    BY <2>1
  <2> QED BY <2>1, <2>3, <2>4, <2>5
<1>8. ASSUME NEW c \in Call, EndWatching(c) PROVE ButtonInv'
  BY <1>8 DEF EndWatching, Go
<1>9. ASSUME NEW c \in Call, EndRun(c) PROVE ButtonInv'
  BY <1>9 DEF EndRun, Go
<1>10. ASSUME NEW c \in Call, AnnounceEnd(c) PROVE ButtonInv'
  <2>1. AllSilent' /\ ~ AllSilent /\ thread[c] = "ending"
    BY <1>10 DEF AnnounceEnd, Go
  <2>2. /\ events' # <<>> /\ DOMAIN events' = 1 .. Len(events) + 1 /\ Len(events) \in Nat
        /\ DOMAIN events = 1 .. Len(events) /\ Len(events') = Len(events) + 1
        /\ \A i \in 1 .. Len(events) : events'[i] = events[i]
    BY <1>10, Telling DEF AnnounceEnd
  <2>3. UNCHANGED <<call, busy, shown, moved, hasty, around>>
    BY <1>10 DEF AnnounceEnd
  <2>4. EndComesLast'
    <3> SUFFICES ASSUME ~hasty, NEW i \in DOMAIN events', ~events'[i]
                 PROVE  i = Len(events')
      BY <2>1, <2>3
    <3> QED BY <2>1, <2>2
  <2>5. ButtonKeepsStartsApart' /\ BusyWhileDue' /\ OneAsked' /\ NothingShownIsHeard'
    BY <2>1, <2>3
  <2>6. AskedWhenHeard'
    BY <2>1, <2>3
  <2> QED BY <2>4, <2>5, <2>6
<1>11. ASSUME NEW c \in Call, EmptySlot(c) PROVE ButtonInv'
  BY <1>11 DEF EmptySlot, Go
<1>12. ASSUME NEW c \in Call, Overrun(c) PROVE ButtonInv'
  BY <1>12 DEF Overrun
<1>13. ASSUME NEW c \in Call, Panic(c) PROVE ButtonInv'
  BY <1>13 DEF Panic, Go
<1>14. CASE HearStatus
  <2>1. /\ shown' = events[1] /\ shown' \in BOOLEAN /\ events' = Tail(events)
        /\ moved' = moved \cup {c \in Call : call[c] \in Waiting}
        /\ events # <<>>
        /\ UNCHANGED <<call, thread, busy, hasty, around>>
    BY <1>14, Hearing DEF HearStatus
  <2>2. /\ Len(events) \in Nat /\ Len(events) >= 1
        /\ Len(events') = Len(events) - 1
        /\ DOMAIN events' = 1 .. Len(events) - 1
        /\ DOMAIN events = 1 .. Len(events)
        /\ \A i \in 1 .. Len(events) - 1 : events'[i] = events[i + 1]
        /\ events' = <<>> <=> Len(events) = 1
    BY <1>14, <2>1, Hearing
  <2>3. EndComesLast'
    <3> SUFFICES ASSUME ~hasty, NEW i \in DOMAIN events', ~events'[i]
                 PROVE  i = Len(events') /\ AllSilent'
      BY <2>1
    <3>1. i \in Nat /\ i + 1 \in DOMAIN events /\ ~events[i + 1]
      BY <2>2
    <3>2. i + 1 = Len(events) /\ AllSilent
      BY <3>1
    <3> QED BY <2>1, <2>2, <3>1, <3>2
  <2>4. ~hasty /\ ~shown' => AllHeard'
    <3> SUFFICES ASSUME ~hasty, ~shown' PROVE AllHeard'
      OBVIOUS
    <3>1. 1 \in DOMAIN events
      BY <2>2
    <3>2. 1 = Len(events) /\ AllSilent
      BY <2>1, <3>1
    <3> QED BY <2>1, <2>2, <3>2
  <2>5. ButtonKeepsStartsApart' /\ BusyWhileDue' /\ OneAsked' /\ NothingShownIsHeard'
    BY <2>1, <2>4
  <2>6. AskedWhenHeard'
    BY <2>1, <2>4
  <2> QED BY <2>3, <2>5, <2>6
<1>15. CASE PressStop
  BY <1>15 DEF PressStop
<1>16. CASE HandleStop
  BY <1>16 DEF HandleStop
<1>17. CASE UNCHANGED vars
  BY <1>17 DEF vars
<1> QED BY <1>1, <1>2, <1>3, <1>4, <1>5, <1>6, <1>7, <1>8, <1>9, <1>10, <1>11, <1>12,
           <1>13, <1>14, <1>15, <1>16, <1>17, <1>18 DEF Next, Handle, Work

-----------------------------------------------------------------------------
\* What is said of the slot, of the last word and of the button holds in every
\* state, for any number of start commands and of status events on their way.
THEOREM LifecycleInvariant == Spec => []LifecycleInv
<1>1. LifecycleInv /\ [Next]_vars => LifecycleInv'
  BY SlotStep, WordStep, ButtonStep DEF LifecycleInv
<1> QED BY <1>1, InitEstablishes, PTL DEF Spec

\* At most one workflow works at a time: its thread holds the slot (Runtime.running)
\* until it has stopped working, and start_run finds the slot empty.
THEOREM OneWorkflowWorks == Spec => []OneWorkflowAtATime
<1>1. LifecycleInv => OneWorkflowAtATime
  BY DEF LifecycleInv, SlotInv, HoldsSlot, OneWorkflowAtATime, Alive
<1> QED BY <1>1, LifecycleInvariant, PTL

\* With nothing left on its way, the editor does not show a workflow that is over:
\* the status after the end, or the statusSeq that tells an overtaken answer.
THEOREM FinishedIsNotShown == Spec => []NeverShowsFinished
<1>1. LifecycleInv => NeverShowsFinished
  BY DEF LifecycleInv, WordInv, LastWordIsTheEnd, AllSilent, Speaking, NeverShowsFinished,
         Quiet, Alive, Working
<1> QED BY <1>1, LifecycleInvariant, PTL

\* A start is given over one that is shown, or not yet answered, only around the
\* button: by the shortcut, or under a busy flag that another command cleared.
THEOREM StartsAreKeptApart == Spec => []ButtonKeepsStartsApart
<1>1. LifecycleInv => ButtonKeepsStartsApart
  BY DEF LifecycleInv, ButtonInv
<1> QED BY <1>1, LifecycleInvariant, PTL

\* With nothing left on its way, a workflow that works is shown, and with it the
\* button that stops it, unless a start was given over another.
THEOREM LiveIsShown == Spec => []StopWhileLive
<1>1. LifecycleInv => StopWhileLive
  BY DEF LifecycleInv, ButtonInv, ButtonKeepsStartsApart, BusyWhileDue, Due, NothingShownIsHeard, AllHeard, AllSilent,
         Speaking, StopWhileLive, Quiet, Working
<1> QED BY <1>1, LifecycleInvariant, PTL
=============================================================================
