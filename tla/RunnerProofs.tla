---------------------------- MODULE RunnerProofs ----------------------------
(***************************************************************************)
(* The invariant of module RunnerInvariant holds of every run, for every   *)
(* workflow, every budget and every order validation may produce; and with *)
(* it the properties of module RunnerProperties, and that the executor     *)
(* implements the abstract run of module Dataflow.                         *)
(*                                                                         *)
(* It rests on what the operators of module Runner compute, for any        *)
(* wiring: the weight of a set of values, the release of what a step was   *)
(* the last to read, the order of the turns, and what the end of a turn    *)
(* does, whichever of the loop's exits it took.                            *)
(***************************************************************************)
EXTENDS RunnerInvariant, FiniteSetTheorems, TLAPS

-----------------------------------------------------------------------------
(* Weights.                                                                *)

\* Only finitely many bytes are ever held: Weight is a number.
LEMMA BytesFinite ==
  ASSUME NEW sz \in [Port -> Nat], NEW S \in SUBSET Port
  PROVE  IsFiniteSet(Bytes(sz, S)) /\ Weight(sz, S) \in Nat
<1> DEFINE f == [p \in S |-> {p} \X (1 .. sz[p])]
           T == {{p} \X (1 .. sz[p]) : p \in S}
<1>1. IsFiniteSet(S)
  BY FS_Subset, SizeAssumption
<1>2. f \in Surjection(S, T)
  <2>1. f \in [S -> T]
    OBVIOUS
  <2>2. \A t \in T : \E p \in S : f[p] = t
    OBVIOUS
  <2> QED BY <2>1, <2>2, Zenon DEF Surjection
<1>3. IsFiniteSet(T)
  BY <1>1, <1>2, FS_Surjection
<1>4. ASSUME NEW t \in T PROVE IsFiniteSet(t)
  <2>1. PICK p \in S : t = {p} \X (1 .. sz[p])
    OBVIOUS
  <2>2. sz[p] \in Nat
    OBVIOUS
  <2>3. IsFiniteSet(1 .. sz[p])
    BY <2>2, FS_Interval
  <2>4. IsFiniteSet({p})
    BY FS_Singleton
  <2> QED BY <2>1, <2>3, <2>4, FS_Product
<1>5. IsFiniteSet(UNION T)
  BY <1>3, <1>4, FS_UNION
<1> QED BY <1>5, FS_CardinalityType DEF Bytes, Weight

\* Values that are not among each other weigh what they weigh apart.
LEMMA WeightUnion ==
  ASSUME NEW sz \in [Port -> Nat], NEW S \in SUBSET Port, NEW T \in SUBSET Port,
         S \cap T = {}
  PROVE  Weight(sz, S \cup T) = Weight(sz, S) + Weight(sz, T)
<1>1. Bytes(sz, S \cup T) = Bytes(sz, S) \cup Bytes(sz, T)
  BY DEF Bytes
<1>2. Bytes(sz, S) \cap Bytes(sz, T) = {}
  BY DEF Bytes
<1>3. Cardinality(Bytes(sz, S) \cap Bytes(sz, T)) = 0
  BY <1>2, FS_EmptySet
<1>4. /\ IsFiniteSet(Bytes(sz, S)) /\ Weight(sz, S) \in Nat
      /\ IsFiniteSet(Bytes(sz, T)) /\ Weight(sz, T) \in Nat
  BY BytesFinite
<1>5. Cardinality(Bytes(sz, S) \cup Bytes(sz, T))
        = Cardinality(Bytes(sz, S)) + Cardinality(Bytes(sz, T))
          - Cardinality(Bytes(sz, S) \cap Bytes(sz, T))
  BY <1>4, FS_Union
<1>6. Weight(sz, S \cup T) = Cardinality(Bytes(sz, S) \cup Bytes(sz, T))
  BY <1>1, Zenon DEF Weight
<1> QED BY <1>3, <1>4, <1>5, <1>6 DEF Weight

\* Letting some values go gives back what they weigh.
LEMMA WeightWithout ==
  ASSUME NEW sz \in [Port -> Nat], NEW S \in SUBSET Port, NEW T \in SUBSET S
  PROVE  /\ Weight(sz, T) <= Weight(sz, S)
         /\ Weight(sz, S \ T) = Weight(sz, S) - Weight(sz, T)
<1>1. Weight(sz, (S \ T) \cup T) = Weight(sz, S \ T) + Weight(sz, T)
  BY WeightUnion
<1>2. (S \ T) \cup T = S
  OBVIOUS
<1>3. Weight(sz, S) = Weight(sz, S \ T) + Weight(sz, T)
  BY <1>1, <1>2, Zenon
<1>4. Weight(sz, S) \in Nat /\ Weight(sz, T) \in Nat /\ Weight(sz, S \ T) \in Nat
  BY BytesFinite
<1> QED BY <1>3, <1>4

\* Only the sizes of the values weighed matter.
LEMMA WeightSame ==
  ASSUME NEW sz, NEW tz, NEW S, \A p \in S : sz[p] = tz[p]
  PROVE  Weight(sz, S) = Weight(tz, S)
<1>1. Bytes(sz, S) = Bytes(tz, S)
  BY DEF Bytes
<1> QED BY <1>1 DEF Weight

-----------------------------------------------------------------------------
(* Counting readers.                                                       *)

\* Connections can be counted.
LEMMA EdgesFinite ==
  ASSUME NEW F \in SUBSET Edge
  PROVE  IsFiniteSet(F) /\ Cardinality(F) \in Nat
BY FS_Subset, FS_CardinalityType, SizeAssumption

\* A set of connections loses, with those of one step, exactly so many.
LEMMA CountWithout ==
  ASSUME NEW F \in SUBSET Edge, NEW G \in SUBSET F
  PROVE  /\ Cardinality(G) <= Cardinality(F)
         /\ Cardinality(F \ G) = Cardinality(F) - Cardinality(G)
         /\ Cardinality(F) = Cardinality(G) => F \ G = {}
         /\ Cardinality(F) > 0 <=> F # {}
<1>1. F \cap G = G
  OBVIOUS
<1>2. IsFiniteSet(F) /\ Cardinality(F) \in Nat /\ Cardinality(G) \in Nat
  <2>1. G \in SUBSET Edge
    OBVIOUS
  <2> QED BY <2>1, EdgesFinite
<1>3. Cardinality(F \ G) = Cardinality(F) - Cardinality(G)
  <2>1. Cardinality(F \ G) = Cardinality(F) - Cardinality(F \cap G)
    BY <1>2, FS_Difference
  <2> QED BY <2>1, <1>1
<1>4. Cardinality(G) <= Cardinality(F) /\ (Cardinality(F) = Cardinality(G) => F = G)
  BY <1>2, FS_Subset
<1>5. Cardinality(F) = 0 <=> F = {}
  BY <1>2, FS_EmptySet
<1> QED BY <1>2, <1>3, <1>4, <1>5

-----------------------------------------------------------------------------
(* Turns.                                                                  *)

\* Each step has one turn, and a producer's is before its consumer's.
LEMMA TurnsTyped ==
  /\ Len(Order) \in Nat
  /\ \A i \in Turns : i \in Nat /\ Order[i] \in Node
  /\ \A n \in Node : \E i \in Turns : Order[i] = n
  /\ \A i, j \in Turns : Order[i] = Order[j] => i = j
BY OrderAssumption DEF Turns

\* The turn of a producer comes before the turn of its consumer.
LEMMA ProducersFirst ==
  ASSUME NEW e \in Edge, NEW i \in Turns, NEW j \in Turns,
         Order[i] = Owner[Source[e]], Order[j] = Target[e]
  PROVE  i < j
BY OrderAssumption

-----------------------------------------------------------------------------
(* Type correctness.                                                       *)

\* How often a step reads a port is a number.
LEMMA ReadsTyped ==
  ASSUME NEW n \in Node, NEW p \in Port
  PROVE  ReadsBy(n, p) \in Nat
BY EdgesFinite DEF ReadsBy, Feeding, Leaving

\* The end of a turn, whatever the step made of it, keeps the types.
LEMMA EndTurnTyped ==
  ASSUME TypeOK, at \in Turns, NEW n \in Node, NEW o \in Ended,
         NEW H \in SUBSET Port, NEW L \in Nat, NEW sz \in [Port -> Nat],
         EndTurn(n, o, H, L, sz)
  PROVE  /\ status' \in [Node -> NodeStatus]
         /\ held' \in SUBSET Port
         /\ liveBytes' \in Nat
         /\ size' \in [Port -> Nat]
         /\ consumersLeft' \in [Port -> Nat]
         /\ at' \in 1 .. Len(Order) + 1
<1>1. status' \in [Node -> NodeStatus]
  BY DEF EndTurn, TypeOK, NodeStatus
<1>2. held' \in SUBSET Port /\ size' \in [Port -> Nat]
  BY DEF EndTurn, Released
<1>3. liveBytes' \in Nat
  <2>1. Weight(sz, Released(n, H)) \in Nat
    BY BytesFinite DEF Released
  <2> QED BY <2>1 DEF EndTurn, Minus
<1>4. consumersLeft' \in [Port -> Nat]
  BY ReadsTyped DEF EndTurn, Minus, TypeOK
<1>5. at' \in 1 .. Len(Order) + 1
  BY TurnsTyped DEF EndTurn, Turns
<1> QED BY <1>1, <1>2, <1>3, <1>4, <1>5

\* Telling the observer keeps the type of what it was told.
LEMMA AnnounceTyped ==
  ASSUME TypeOK, NEW n \in Node, NEW s \in NodeStatus, Announce(n, s)
  PROVE  announced' \in [Node -> NodeStatus]
BY DEF Announce, TypeOK

\* A component's values are kept, all of them, or refused, all of them.
Handed(n, S, sz) ==
  /\ \A p \in Port \ S : sz[p] = size[p]
  /\ Fits(liveBytes, Weight(sz, S))
  /\ recorded' = recorded \cup S
  /\ \E P \in SUBSET S : present' = present \cup P
  /\ EndTurn(n, "ok", held \cup S, liveBytes + Weight(sz, S), sz)
  /\ Announce(n, "ok")

Refused(n) ==
  /\ EndTurn(n, "failed", held, liveBytes, size)
  /\ Announce(n, "failed")
  /\ UNCHANGED <<recorded, present>>

\* A component that returns hands over its values or has them refused.
LEMMA FinishCases ==
  ASSUME TypeOK, NEW n \in Node, FinishStep(n)
  PROVE  \E S \in SUBSET Ports(n), sz \in [Port -> Nat] : Handed(n, S, sz) \/ Refused(n)
<1>1. PICK S \in SUBSET Ports(n) : \E P \in SUBSET S : \E s \in [S -> Sizes] :
        LET sz == [p \in Port |-> IF p \in S THEN s[p] ELSE size[p]]
            w  == Weight(sz, S)
        IN \/ /\ Fits(liveBytes, w)
              /\ recorded' = recorded \cup S
              /\ present' = present \cup P
              /\ EndTurn(n, "ok", held \cup S, liveBytes + w, sz)
              /\ Announce(n, "ok")
           \/ /\ ~Fits(liveBytes, w)
              /\ EndTurn(n, "failed", held, liveBytes, size)
              /\ Announce(n, "failed")
              /\ UNCHANGED <<recorded, present>>
  BY DEF FinishStep, Return
<1>2. PICK P \in SUBSET S : \E s \in [S -> Sizes] :
        LET sz == [p \in Port |-> IF p \in S THEN s[p] ELSE size[p]]
            w  == Weight(sz, S)
        IN \/ /\ Fits(liveBytes, w)
              /\ recorded' = recorded \cup S
              /\ present' = present \cup P
              /\ EndTurn(n, "ok", held \cup S, liveBytes + w, sz)
              /\ Announce(n, "ok")
           \/ Refused(n)
  BY <1>1 DEF Refused
<1>3. PICK s \in [S -> Sizes] :
        LET sz == [p \in Port |-> IF p \in S THEN s[p] ELSE size[p]]
            w  == Weight(sz, S)
        IN \/ /\ Fits(liveBytes, w)
              /\ recorded' = recorded \cup S
              /\ present' = present \cup P
              /\ EndTurn(n, "ok", held \cup S, liveBytes + w, sz)
              /\ Announce(n, "ok")
           \/ Refused(n)
  BY <1>2
<1> DEFINE tz == [p \in Port |-> IF p \in S THEN s[p] ELSE size[p]]
<1>4. tz \in [Port -> Nat] /\ \A p \in Port \ S : tz[p] = size[p]
  BY SizeAssumption DEF TypeOK
<1>5. Handed(n, S, tz) \/ Refused(n)
  BY <1>3, <1>4 DEF Handed
<1> QED BY <1>4, <1>5

\* A run begins in a state of the right types.
LEMMA InitTyped == Init => TypeOK
<1> SUFFICES ASSUME Init PROVE TypeOK
  OBVIOUS
<1>1. held \in SUBSET Port /\ present \in SUBSET Port
  BY DEF Init, Ports
<1>2. size \in [Port -> Nat]
  <2>1. PICK s \in [held -> Sizes] :
          size = [p \in Port |-> IF p \in held THEN s[p] ELSE 0]
    BY DEF Init
  <2> QED BY <2>1, SizeAssumption
<1>3. liveBytes \in Nat
  BY <1>1, <1>2, BytesFinite DEF Init
<1>4. consumersLeft \in [Port -> Nat]
  BY EdgesFinite DEF Init, Leaving
<1>5. calls \in SUBSET Node
  BY KindAssumption DEF Init
<1>6. at \in 1 .. Len(Order) + 1
  BY TurnsTyped DEF Init
<1> QED BY <1>1, <1>2, <1>3, <1>4, <1>5, <1>6 DEF Init, TypeOK, NodeStatus

\* Every action keeps the types.
LEMMA NextTyped == TypeOK /\ [Next]_vars => TypeOK'
<1> SUFFICES ASSUME TypeOK, [Next]_vars PROVE TypeOK'
  OBVIOUS
<1> USE DEF NodeStatus
<1>1. ASSUME NEW n \in Node, PassDisabled(n) PROVE TypeOK'
  <2>1. /\ at \in Turns
        /\ EndTurn(n, "disabled", held, liveBytes, size)
        /\ Announce(n, "disabled")
    BY <1>1 DEF PassDisabled, Turn
  <2>2. "disabled" \in Ended
    BY DEF Ended
  <2> QED BY <1>1, <2>1, <2>2, EndTurnTyped, AnnounceTyped
          DEF PassDisabled, KeepFlag, Stopped, TypeOK
<1>2. ASSUME NEW n \in Node, CancelStep(n) PROVE TypeOK'
  <2>1. /\ at \in Turns
        /\ EndTurn(n, "cancelled", held, liveBytes, size)
        /\ Announce(n, "cancelled")
    BY <1>2 DEF CancelStep, Turn
  <2>2. "cancelled" \in Ended
    BY DEF Ended, Halting
  <2> QED BY <1>2, <2>1, <2>2, EndTurnTyped, AnnounceTyped
          DEF CancelStep, KeepFlag, Stopped, TypeOK
<1>3. ASSUME NEW n \in Node, SkipStep(n) PROVE TypeOK'
  <2>1. /\ at \in Turns
        /\ EndTurn(n, "skipped", held, liveBytes, size)
        /\ Announce(n, "skipped")
    BY <1>3 DEF SkipStep, Turn
  <2>2. "skipped" \in Ended
    BY DEF Ended, Halting
  <2>3. cause' \in [Node -> SUBSET Node]
    <3>1. PICK m \in Blockers(n) : cause' = [cause EXCEPT ![n] = {m}]
      BY <1>3 DEF SkipStep
    <3>2. m \in Node
      BY <3>1, ShapeAssumption DEF Blockers, Producers, Feeding
    <3> QED BY <3>1, <3>2 DEF TypeOK
  <2> QED BY <1>3, <2>1, <2>2, <2>3, EndTurnTyped, AnnounceTyped DEF SkipStep, TypeOK
<1>4. ASSUME NEW n \in Node, FailGather(n) PROVE TypeOK'
  <2>1. at \in Turns /\ EndTurn(n, "failed", held, liveBytes, size)
    BY <1>4 DEF FailGather, MayGather, Turn
  <2>2. "failed" \in Ended
    BY DEF Ended, Halting
  <2> QED BY <1>4, <2>1, <2>2, EndTurnTyped DEF FailGather, TakeCalls, TypeOK
<1>5. ASSUME NEW n \in Node, PassTrigger(n) PROVE TypeOK'
  <2>1. at \in Turns /\ EndTurn(n, "ok", held, liveBytes, size)
    BY <1>5 DEF PassTrigger, MayGather, Turn
  <2>2. "ok" \in Ended
    BY DEF Ended
  <2> QED BY <1>5, <2>1, <2>2, EndTurnTyped DEF PassTrigger, Ports, TypeOK
<1>6. ASSUME NEW n \in Node, StartStep(n) PROVE TypeOK'
  <2>1. announced' \in [Node -> NodeStatus]
    BY <1>6, AnnounceTyped DEF StartStep
  <2> QED BY <1>6, <2>1 DEF StartStep, Arriving, Feeding, storeVars, outsideVars, TypeOK
<1>7. ASSUME NEW n \in Node, AskBroker(n) PROVE TypeOK'
  BY <1>7 DEF AskBroker, journalVars, storeVars, outsideVars, TypeOK
<1>8. ASSUME NEW n \in Node, FinishStep(n) PROVE TypeOK'
  <2>1. at \in Turns
    BY <1>8 DEF FinishStep, Running
  <2>2. "ok" \in Ended /\ "failed" \in Ended
    BY DEF Ended, Halting
  <2>3. PICK S \in SUBSET Ports(n), sz \in [Port -> Nat] : Handed(n, S, sz) \/ Refused(n)
    BY <1>8, FinishCases
  <2>4. S \in SUBSET Port /\ Weight(sz, S) \in Nat
    BY BytesFinite DEF Ports
  <2>5. CASE Handed(n, S, sz)
    <3>1. held \cup S \in SUBSET Port /\ liveBytes + Weight(sz, S) \in Nat
      BY <2>4 DEF TypeOK
    <3>2. /\ EndTurn(n, "ok", held \cup S, liveBytes + Weight(sz, S), sz)
          /\ Announce(n, "ok")
          /\ recorded' \in SUBSET Port /\ present' \in SUBSET Port
      BY <2>4, <2>5 DEF Handed, TypeOK
    <3> QED BY <1>8, <2>1, <2>2, <3>1, <3>2, EndTurnTyped, AnnounceTyped
            DEF FinishStep, TakeCalls, outsideVars, TypeOK
  <2>6. CASE Refused(n)
    BY <1>8, <2>1, <2>2, <2>6, EndTurnTyped, AnnounceTyped
    DEF Refused, FinishStep, TakeCalls, outsideVars, TypeOK
  <2> QED BY <2>3, <2>5, <2>6
<1>9. ASSUME NEW n \in Node, FailStep(n) PROVE TypeOK'
  <2>1. /\ at \in Turns
        /\ EndTurn(n, "failed", held, liveBytes, size)
        /\ Announce(n, "failed")
    BY <1>9 DEF FailStep, Running
  <2>2. "failed" \in Ended
    BY DEF Ended, Halting
  <2> QED BY <1>9, <2>1, <2>2, EndTurnTyped, AnnounceTyped
          DEF FailStep, TakeCalls, outsideVars, TypeOK
<1>10. ASSUME NEW n \in Node, Unwind(n) PROVE TypeOK'
  BY <1>10 DEF Unwind, journalVars, storeVars, outsideVars, TypeOK
<1>11. CASE Finish
  BY <1>11 DEF Finish, Verdict, storeVars, outsideVars, TypeOK
<1>12. CASE PressStop
  BY <1>12 DEF PressStop, journalVars, storeVars, TypeOK
<1>13. CASE PassDeadline
  BY <1>13 DEF PassDeadline, journalVars, storeVars, TypeOK
<1>14. CASE UNCHANGED vars
  BY <1>14 DEF vars, graphVars, journalVars, storeVars, outsideVars, TypeOK
<1> QED BY <1>1, <1>2, <1>3, <1>4, <1>5, <1>6, <1>7, <1>8, <1>9, <1>10, <1>11,
           <1>12, <1>13, <1>14 DEF Next, Walk, EndComponent

\* The executor's state is always of the types its declarations give it.
THEOREM TypeCorrect == Spec => []TypeOK
<1>1. Init => TypeOK
  BY InitTyped
<1>2. TypeOK /\ [Next]_vars => TypeOK'
  BY NextTyped
<1> QED BY <1>1, <1>2, PTL DEF Spec

-----------------------------------------------------------------------------
(* The end of a turn.                                                      *)

\* The end of a turn as the store of values sees it: step n settles as o, and
\* the values N of its ports join what is held and what is recorded.
Settle(n, o, N, sz) ==
  /\ phase = "walking" /\ at \in Turns /\ n = Order[at] /\ Unsettled(n)
  /\ N \in SUBSET Ports(n)
  /\ N # {} => o = "ok"
  /\ o = "ok" => /\ Ports(n) \cap held \subseteq N
                 /\ status[n] = "running" \/ n \in Trigger
  /\ o = "disabled" => n \in disabled
  /\ sz \in [Port -> Nat]
  /\ EndTurn(n, o, held \cup N, Weight(sz, held \cup N), sz)
  /\ recorded' = recorded \cup N
  /\ present \subseteq present' /\ present' \subseteq present \cup N
  /\ UNCHANGED <<disabled, phase, delivered, verdict>>

-----------------------------------------------------------------------------
(* Counting.                                                               *)

\* A step that settles is no longer a reader of any port, and nobody else
\* changes.
LEMMA ReadersAfter ==
  ASSUME TypeOK, NEW n \in Node, NEW o \in Ended, Unsettled(n),
         status' = [status EXCEPT ![n] = o], NEW p \in Port
  PROVE  /\ Readers(p)' = Readers(p) \ (Feeding(n) \cap Leaving(p))
         /\ Feeding(n) \cap Leaving(p) \in SUBSET Readers(p)
<1>1. o \notin {"pending", "running"}
  BY DEF Ended, Halting
<1>2. \A e \in Edge : Target[e] \in Node
  BY ShapeAssumption
<1>3. \A m \in Node : Unsettled(m)' <=> (m # n /\ Unsettled(m))
  BY <1>1 DEF Unsettled, TypeOK
<1>4. Readers(p)' = {e \in Leaving(p) : Unsettled(Target[e])'}
  BY DEF Readers
<1> QED BY <1>2, <1>3, <1>4 DEF Readers, Feeding, Leaving

\* Why the count kept for a port stays exact, and why a value is let go in the
\* turn of its last reader and not before.
LEMMA CountAfter ==
  ASSUME TypeOK, CountersExact, NEW n \in Node, NEW o \in Ended, Unsettled(n),
         NEW H \in SUBSET Port, NEW L, NEW sz, EndTurn(n, o, H, L, sz)
  PROVE  /\ CountersExact'
         /\ Released(n, H) = {p \in H : Feeding(n) \cap Leaving(p) # {} /\ Readers(p)' = {}}
<1> DEFINE Reads(p) == Feeding(n) \cap Leaving(p)
<1>1. ASSUME NEW p \in Port
      PROVE  /\ Readers(p)' = Readers(p) \ Reads(p)
             /\ Reads(p) \in SUBSET Readers(p)
  BY ReadersAfter DEF EndTurn
<1>2. ASSUME NEW p \in Port
      PROVE  /\ Minus(consumersLeft[p], ReadsBy(n, p)) = Cardinality(Readers(p)')
             /\ ReadsBy(n, p) > 0 <=> Reads(p) # {}
             /\ consumersLeft[p] <= ReadsBy(n, p) <=> Readers(p)' = {}
  <2> DEFINE F == Readers(p)
             G == Reads(p)
  <2>1. F \in SUBSET Edge /\ G \in SUBSET F /\ Readers(p)' = F \ G
    BY <1>1 DEF Readers, Leaving
  <2>2. /\ Cardinality(G) <= Cardinality(F)
        /\ Cardinality(F \ G) = Cardinality(F) - Cardinality(G)
        /\ Cardinality(F) \in Nat /\ Cardinality(G) \in Nat
    <3> HIDE DEF F, G
    <3> QED BY <2>1, CountWithout, EdgesFinite
  <2>3. Cardinality(G) > 0 <=> G # {}
    <3>1. G \in SUBSET Edge
      BY <2>1
    <3> HIDE DEF F, G
    <3> QED BY <3>1, CountWithout
  <2>4. Cardinality(F \ G) > 0 <=> F \ G # {}
    <3>1. F \ G \in SUBSET Edge
      BY <2>1
    <3> HIDE DEF F, G
    <3> QED BY <3>1, CountWithout
  <2>5. consumersLeft[p] = Cardinality(F) /\ ReadsBy(n, p) = Cardinality(G)
    BY DEF CountersExact, ReadsBy
  <2>6. Cardinality(Readers(p)') = Cardinality(F \ G)
    BY <2>1, Zenon
  <2> HIDE DEF F, G
  <2>7. Minus(consumersLeft[p], ReadsBy(n, p)) = Cardinality(F \ G)
    BY <2>2, <2>5 DEF Minus
  <2>8. consumersLeft[p] <= ReadsBy(n, p) <=> F \ G = {}
    BY <2>2, <2>4, <2>5
  <2>9. ReadsBy(n, p) > 0 <=> Reads(p) # {}
    BY <2>3, <2>5 DEF G
  <2> QED BY <2>1, <2>6, <2>7, <2>8, <2>9
<1>3. \A p \in Port : consumersLeft'[p] = Minus(consumersLeft[p], ReadsBy(n, p))
  BY DEF EndTurn
<1>4. CountersExact'
  BY <1>2, <1>3 DEF CountersExact
<1>5. Released(n, H) = {p \in H : Reads(p) # {} /\ Readers(p)' = {}}
  BY <1>2 DEF Released
<1> QED BY <1>4, <1>5

-----------------------------------------------------------------------------
(* The turn of a step, among the others.                                   *)

\* Ahead of the step whose turn it is, nothing has begun.
LEMMA ConsumersWait ==
  ASSUME TypeOK, CursorInv, at \in Turns, NEW e \in Edge, Owner[Source[e]] = Order[at]
  PROVE  Target[e] # Order[at] /\ status[Target[e]] = "pending"
<1>1. Target[e] \in Node
  BY ShapeAssumption
<1>2. PICK j \in Turns : Order[j] = Target[e]
  BY <1>1, TurnsTyped
<1>3. at < j
  BY <1>2, ProducersFirst
<1>4. at \in Nat /\ j \in Nat
  BY TurnsTyped
<1> QED BY <1>2, <1>3, <1>4, TurnsTyped DEF CursorInv

\* Behind it, everything is settled, its producers included.
LEMMA ProducersSettled ==
  ASSUME TypeOK, CursorInv, at \in Turns, NEW e \in Edge, Target[e] = Order[at]
  PROVE  Owner[Source[e]] # Order[at] /\ ~Unsettled(Owner[Source[e]])
<1>1. Owner[Source[e]] \in Node
  BY ShapeAssumption
<1>2. PICK i \in Turns : Order[i] = Owner[Source[e]]
  BY <1>1, TurnsTyped
<1>3. i < at
  BY <1>2, ProducersFirst
<1>4. at \in Nat /\ i \in Nat
  BY TurnsTyped
<1> QED BY <1>2, <1>3, <1>4, TurnsTyped DEF CursorInv

\* A turn moves one status and the cursor, by one.
LEMMA SettleStatus ==
  ASSUME TypeOK, NEW n, NEW o \in Ended, NEW N, NEW sz, Settle(n, o, N, sz)
  PROVE  /\ n \in Node /\ status'[n] = o
         /\ \A m \in Node \ {n} : status'[m] = status[m]
         /\ \A m \in Node : ~Unsettled(m) => m # n
         /\ \A m \in Node : Unsettled(m)' <=> m # n /\ Unsettled(m)
         /\ at' = at + 1
<1>1. n \in Node
  BY TurnsTyped DEF Settle
<1>2. status' = [status EXCEPT ![n] = o] /\ at' = at + 1
  BY DEF Settle, EndTurn
<1>3. o \notin {"pending", "running"}
  BY DEF Ended, Halting
<1> QED BY <1>1, <1>2, <1>3 DEF TypeOK, Unsettled, Settle

\* A step that settles is the one at the cursor, which moves on.
LEMMA SettleCursor ==
  ASSUME TypeOK, CursorInv, NEW n, NEW o \in Ended, NEW N, NEW sz, Settle(n, o, N, sz)
  PROVE  CursorInv'
<1>1. n = Order[at] /\ at \in Turns /\ phase' = "walking"
  BY DEF Settle
<1>2. \A i \in Turns : i \in Nat /\ Order[i] \in Node /\ (Order[i] = n => i = at)
  BY <1>1, TurnsTyped
<1>3. at \in Nat /\ at' = at + 1
  BY <1>1, TurnsTyped, SettleStatus
<1>4. ASSUME NEW i \in Turns, i < at' PROVE ~Unsettled(Order[i])'
  <2>1. i < at \/ i = at
    BY <1>2, <1>3, <1>4
  <2>2. ~Unsettled(Order[i]) \/ Order[i] = n
    BY <2>1, <1>1 DEF CursorInv
  <2> QED BY <2>2, <1>2, SettleStatus
<1>5. ASSUME NEW i \in Turns, i > at' PROVE status'[Order[i]] = "pending"
  <2>1. i > at /\ Order[i] # n
    BY <1>2, <1>3, <1>5
  <2> QED BY <2>1, <1>2, SettleStatus DEF CursorInv
<1> QED BY <1>1, <1>4, <1>5 DEF CursorInv

-----------------------------------------------------------------------------
(* What is held, and what it weighs.                                       *)

\* When a step settles, a value it does not read stays, one it reads stays while
\* others are to read it, and the byte counter follows.
LEMMA SettleCounted ==
  ASSUME TypeOK, CountersExact, NEW n, NEW o \in Ended, NEW N, NEW sz, Settle(n, o, N, sz)
  PROVE  /\ CountersExact'
         /\ held' = {p \in held \cup N : Feeding(n) \cap Leaving(p) = {} \/ Readers(p)' # {}}
         /\ LiveBytesExact'
<1>1. n \in Node /\ Unsettled(n) /\ held \cup N \in SUBSET Port /\ sz \in [Port -> Nat]
  BY SettleStatus DEF Settle, Ports, TypeOK
<1>2. EndTurn(n, o, held \cup N, Weight(sz, held \cup N), sz)
  BY DEF Settle
<1>3. /\ CountersExact'
      /\ Released(n, held \cup N)
           = {p \in held \cup N : Feeding(n) \cap Leaving(p) # {} /\ Readers(p)' = {}}
  BY <1>1, <1>2, CountAfter
<1>4. held' = (held \cup N) \ Released(n, held \cup N)
  BY <1>2 DEF EndTurn
<1>5. LiveBytesExact'
  <2> DEFINE H == held \cup N
             R == Released(n, H)
  <2>1. R \in SUBSET H
    BY DEF Released
  <2>2. liveBytes' = Minus(Weight(sz, H), Weight(sz, R)) /\ size' = sz /\ held' = H \ R
    BY <1>2 DEF EndTurn
  <2>3. H \in SUBSET Port
    BY <1>1
  <2> HIDE DEF H, R
  <2>4. Weight(sz, R) <= Weight(sz, H) /\ Weight(sz, H \ R) = Weight(sz, H) - Weight(sz, R)
    BY <1>1, <2>1, <2>3, WeightWithout
  <2>5. Weight(sz, R) \in Nat /\ Weight(sz, H) \in Nat
    BY <1>1, <2>1, <2>3, BytesFinite
  <2>6. liveBytes' = Weight(sz, H \ R)
    BY <2>2, <2>4, <2>5 DEF Minus
  <2>7. Weight(size', held') = Weight(sz, H \ R)
    BY <2>2, Zenon
  <2> QED BY <2>6, <2>7 DEF LiveBytesExact, Weight, Bytes
<1> QED BY <1>3, <1>4, <1>5

\* What is held goes on being what is recorded and still wanted.
LEMMA SettleStore ==
  ASSUME TypeOK, CursorInv, CountersExact, StoreInv,
         NEW n, NEW o \in Ended, NEW N, NEW sz, Settle(n, o, N, sz)
  PROVE  StoreInv'
<1>1. n \in Node /\ N \in SUBSET Port /\ \A p \in N : Owner[p] = n /\ o = "ok"
  BY SettleStatus DEF Settle, Ports
<1>2. held \in SUBSET Port /\ present \in SUBSET Port /\ recorded \in SUBSET Port
  BY DEF TypeOK
<1>3. \A p \in Port : Owner[p] \in Node
  BY ShapeAssumption
<1>4. /\ status'[n] = o
      /\ \A m \in Node \ {n} : status'[m] = status[m]
      /\ status[n] # "ok"
  BY SettleStatus DEF Settle, Unsettled
<1>5. recorded' = recorded \cup N /\ present' \subseteq present \cup N
  BY DEF Settle
<1>6. held' = {p \in held \cup N : Feeding(n) \cap Leaving(p) = {} \/ Readers(p)' # {}}
  BY SettleCounted
<1>7. ASSUME NEW p \in held' \cup present' \cup recorded'
      PROVE  status'[Owner[p]] = "ok" \/ Owner[p] \in Trigger
  <2>1. p \in held \cup present \cup recorded \/ p \in N
    BY <1>5, <1>6, <1>7
  <2>2. CASE p \in N
    BY <2>2, <1>1, <1>4
  <2>3. CASE p \in held \cup present \cup recorded
    BY <2>3, <1>2, <1>3, <1>4 DEF StoreInv
  <2> QED BY <2>1, <2>2, <2>3
<1>8. ASSUME NEW p \in recorded' PROVE status'[Owner[p]] = "ok"
  BY <1>8, <1>1, <1>2, <1>3, <1>4, <1>5 DEF StoreInv
<1>9. ASSUME NEW p \in held', status'[Owner[p]] = "ok" PROVE p \in recorded'
  <2>1. CASE p \in N
    BY <2>1, <1>5
  <2>2. CASE p \in held /\ Owner[p] # n
    BY <2>2, <1>9, <1>2, <1>3, <1>4, <1>5 DEF StoreInv
  <2>3. CASE p \in held /\ Owner[p] = n
    BY <2>3, <1>9, <1>2, <1>4, <1>5 DEF Settle, Ports
  <2> QED BY <1>9, <1>6, <2>1, <2>2, <2>3
<1>10. ASSUME NEW p \in held' PROVE Leaving(p) = {} \/ Readers(p)' # {}
  <2>1. p \in Port /\ p \in held \cup N
    BY <1>10, <1>1, <1>2, <1>6
  <2>2. Readers(p)' = Readers(p) \ (Feeding(n) \cap Leaving(p))
    BY <2>1, <1>1, ReadersAfter DEF Settle, EndTurn
  <2>3. CASE Feeding(n) \cap Leaving(p) # {}
    BY <2>3, <1>6, <1>10
  <2>4. CASE Feeding(n) \cap Leaving(p) = {} /\ p \in held
    BY <2>2, <2>4 DEF StoreInv
  <2>5. CASE p \in N /\ Leaving(p) # {}
    <3>1. PICK e \in Leaving(p) : TRUE
      BY <2>5
    <3>2. e \in Edge /\ Owner[Source[e]] = n
      BY <3>1, <2>5, <1>1 DEF Leaving
    <3>3. Target[e] # n /\ status[Target[e]] = "pending"
      BY <3>2, ConsumersWait DEF Settle
    <3>4. e \in Readers(p) /\ e \notin Feeding(n)
      BY <3>1, <3>3 DEF Readers, Unsettled, Feeding
    <3> QED BY <2>2, <3>4
  <2> QED BY <2>1, <2>3, <2>4, <2>5
<1>11. ASSUME NEW p \in recorded', Leaving(p) = {} \/ Readers(p)' # {} PROVE p \in held'
  <2>1. p \in Port
    BY <1>1, <1>2, <1>5
  <2>2. Readers(p)' \subseteq Readers(p)
    BY <2>1, <1>1, ReadersAfter DEF Settle, EndTurn
  <2>3. p \in held \cup N
    BY <1>5, <1>11, <2>2 DEF StoreInv
  <2>4. Feeding(n) \cap Leaving(p) = {} \/ Readers(p)' # {}
    BY <1>11
  <2> QED BY <1>6, <2>3, <2>4
<1> QED BY <1>7, <1>8, <1>9, <1>10, <1>11 DEF StoreInv

-----------------------------------------------------------------------------
(* Every exit of the loop body settles the step whose turn it is.          *)

\* A turn that adds nothing to the store releases from exactly what is held.
LEMMA NothingAdded ==
  ASSUME TypeOK, LiveBytesExact, NEW n, NEW o, NEW N \in SUBSET held,
         EndTurn(n, o, held, liveBytes, size)
  PROVE  EndTurn(n, o, held \cup N, Weight(size, held \cup N), size)
<1>1. held \cup N = held /\ liveBytes = Weight(size, held)
  BY DEF LiveBytesExact
<1> QED BY <1>1, Zenon

\* A turn that adds no value to the store settles its step.
LEMMA SettlesEmpty ==
  ASSUME TypeOK, LiveBytesExact, NEW n \in Node, NEW o,
         phase = "walking", at \in Turns, n = Order[at], Unsettled(n),
         o # "ok", o = "disabled" => n \in disabled,
         EndTurn(n, o, held, liveBytes, size),
         UNCHANGED <<disabled, phase, delivered, verdict, recorded, present>>
  PROVE  Settle(n, o, {}, size)
<1>1. EndTurn(n, o, held \cup {}, Weight(size, held \cup {}), size)
  BY NothingAdded
<1> QED BY <1>1 DEF Settle, TypeOK

\* So do all the turns in which no component hands over values.
LEMMA EarlySettles ==
  ASSUME TypeOK, LiveBytesExact, NEW n \in Node
  PROVE  /\ PassDisabled(n) => Settle(n, "disabled", {}, size)
         /\ CancelStep(n) => Settle(n, "cancelled", {}, size)
         /\ SkipStep(n) => Settle(n, "skipped", {}, size)
         /\ FailGather(n) => Settle(n, "failed", {}, size)
         /\ FailStep(n) => Settle(n, "failed", {}, size)
<1>1. ASSUME PassDisabled(n) PROVE Settle(n, "disabled", {}, size)
  BY <1>1, SettlesEmpty DEF PassDisabled, Turn, Unsettled
<1>2. ASSUME CancelStep(n) PROVE Settle(n, "cancelled", {}, size)
  BY <1>2, SettlesEmpty DEF CancelStep, Turn, Unsettled
<1>3. ASSUME SkipStep(n) PROVE Settle(n, "skipped", {}, size)
  BY <1>3, SettlesEmpty DEF SkipStep, Turn, Unsettled
<1>4. ASSUME FailGather(n) PROVE Settle(n, "failed", {}, size)
  BY <1>4, SettlesEmpty DEF FailGather, MayGather, Turn, Unsettled
<1>5. ASSUME FailStep(n) PROVE Settle(n, "failed", {}, size)
  BY <1>5, SettlesEmpty DEF FailStep, Running, Unsettled
<1> QED BY <1>1, <1>2, <1>3, <1>4, <1>5

\* A trigger settles with the values the session put on its ports.
LEMMA TriggerSettles ==
  ASSUME TypeOK, LiveBytesExact, NEW n \in Node, PassTrigger(n)
  PROVE  Settle(n, "ok", Ports(n) \cap held, size)
<1>1. EndTurn(n, "ok", held \cup (Ports(n) \cap held),
              Weight(size, held \cup (Ports(n) \cap held)), size)
  BY NothingAdded DEF PassTrigger
<1> QED BY <1>1 DEF PassTrigger, MayGather, Turn, Unsettled, Settle, TypeOK

\* What a component hands over is new to the store, so its weight adds up.
LEMMA FinishSettles ==
  ASSUME TypeOK, DisabledInv, StoreInv, LiveBytesExact, NEW n \in Node, FinishStep(n)
  PROVE  \/ Refused(n) /\ Settle(n, "failed", {}, size)
         \/ \E S \in SUBSET Port, sz \in [Port -> Nat] :
              /\ Handed(n, S, sz) /\ Settle(n, "ok", S, sz)
              /\ Weight(sz, held \cup S) <= Budget
<1>1. /\ phase = "walking" /\ at \in Turns /\ n = Order[at] /\ status[n] = "running"
      /\ UNCHANGED <<disabled, phase, delivered, verdict>>
  BY DEF FinishStep, Running
<1>2. PICK S \in SUBSET Ports(n), sz \in [Port -> Nat] : Handed(n, S, sz) \/ Refused(n)
  BY FinishCases
<1>3. CASE Refused(n)
  <2>1. Settle(n, "failed", {}, size)
    BY <1>1, <1>3, SettlesEmpty DEF Refused, Unsettled
  <2> QED BY <1>3, <2>1
<1>4. CASE Handed(n, S, sz)
  <2>1. S \in SUBSET Port /\ held \in SUBSET Port /\ S \cap held = {}
    BY <1>1 DEF DisabledInv, StoreInv, Ports, TypeOK
  <2>2. Ports(n) \cap held = {}
    BY <1>1 DEF DisabledInv, StoreInv, Ports
  <2>3. Weight(sz, held) = liveBytes
    <3>1. \A p \in held : sz[p] = size[p]
      BY <1>4, <2>1 DEF Handed
    <3>2. Weight(sz, held) = Weight(size, held)
      BY <3>1, WeightSame
    <3> QED BY <3>2 DEF LiveBytesExact
  <2>4. Weight(sz, held \cup S) = liveBytes + Weight(sz, S)
    BY <2>1, <2>3, WeightUnion
  <2>5. EndTurn(n, "ok", held \cup S, Weight(sz, held \cup S), sz)
    <3>1. EndTurn(n, "ok", held \cup S, liveBytes + Weight(sz, S), sz)
      BY <1>4 DEF Handed
    <3> QED BY <2>4, <3>1, Zenon
  <2>6. recorded' = recorded \cup S /\ present \subseteq present' /\ present' \subseteq present \cup S
    BY <1>4 DEF Handed
  <2>7. Settle(n, "ok", S, sz)
    BY <1>1, <2>2, <2>5, <2>6 DEF Settle, Unsettled
  <2>8. Weight(sz, held \cup S) <= Budget
    <3>1. liveBytes + Weight(sz, S) <= Budget
      BY <1>4 DEF Handed, Fits
    <3> QED BY <2>4, <3>1
  <2> QED BY <1>4, <2>1, <2>7, <2>8
<1> QED BY <1>2, <1>3, <1>4

\* The other steps of a run leave the records and the store alone.
Quiet ==
  /\ UNCHANGED <<disabled, at, status, cause, recorded, delivered, held, present,
                 size, consumersLeft, liveBytes, announced>>
  /\ \/ UNCHANGED <<phase, verdict>>
     \/ phase = "walking" /\ phase' = "unwound" /\ UNCHANGED verdict
     \/ Finish

\* A step of a run settles a step of the graph, begins one, or is quiet.
LEMMA StepCases ==
  ASSUME TypeOK, DisabledInv, StoreInv, LiveBytesExact, [Next]_vars
  PROVE  \/ \E n \in Node, o \in Ended, N \in SUBSET Port, sz \in [Port -> Nat] :
              Settle(n, o, N, sz)
         \/ \E n \in Node : StartStep(n)
         \/ Quiet
<1> DEFINE Some == \E n \in Node, o \in Ended, N \in SUBSET Port, sz \in [Port -> Nat] :
                     Settle(n, o, N, sz)
<1>1. size \in [Port -> Nat] /\ {} \in SUBSET Port /\ held \in SUBSET Port
  BY DEF TypeOK
<1>2. {"ok", "disabled", "failed", "skipped", "cancelled"} \subseteq Ended
  BY DEF Ended, Halting
<1>3. ASSUME NEW n \in Node, PassDisabled(n) \/ CancelStep(n) \/ SkipStep(n)
                             \/ FailGather(n) \/ FailStep(n)
      PROVE  Some
  BY <1>1, <1>2, <1>3, EarlySettles
<1>4. ASSUME NEW n \in Node, PassTrigger(n) PROVE Some
  <2>1. Ports(n) \cap held \in SUBSET Port
    BY <1>1
  <2> QED BY <1>1, <1>2, <1>4, <2>1, TriggerSettles
<1>5. ASSUME NEW n \in Node, FinishStep(n) PROVE Some
  BY <1>1, <1>2, <1>5, FinishSettles
<1>6. ASSUME NEW n \in Node, AskBroker(n) \/ Unwind(n) PROVE Quiet
  BY <1>6 DEF AskBroker, Unwind, Running, Quiet, journalVars, storeVars, outsideVars
<1>7. ASSUME Finish \/ PressStop \/ PassDeadline PROVE Quiet
  BY <1>7 DEF Finish, PressStop, PassDeadline, Quiet, journalVars, storeVars, outsideVars
<1>8. ASSUME UNCHANGED vars PROVE Quiet
  BY <1>8 DEF vars, Quiet, graphVars, journalVars, storeVars, outsideVars
<1> QED BY <1>3, <1>4, <1>5, <1>6, <1>7, <1>8 DEF Next, Walk, EndComponent

-----------------------------------------------------------------------------
(* The beginning.                                                          *)

\* A run begins in a state of the invariant.
LEMMA InitInvariant == Init => RunInv
<1> SUFFICES ASSUME Init PROVE RunInv
  OBVIOUS
<1>1. TypeOK
  BY InitTyped
<1>2. \A n \in Node : status[n] = "pending" /\ announced[n] = "pending"
  BY DEF Init
<1>3. CursorInv
  <2>1. \A i \in Turns : Order[i] \in Node /\ ~(i < 1)
    BY TurnsTyped DEF Turns
  <2> QED BY <1>2, <2>1 DEF CursorInv, Init
<1>4. DisabledInv
  BY <1>2 DEF Init, DisabledInv
<1>5. \A p \in Port : Readers(p) = Leaving(p)
  BY <1>2, ShapeAssumption DEF Readers, Leaving, Unsettled
<1>6. CountersExact
  BY <1>5 DEF CountersExact, Init
<1>7. StoreInv
  <2>1. \A p \in held : p \in Port /\ Owner[p] \in Trigger
    BY DEF Init, Ports
  <2>2. held \in SUBSET Port /\ recorded = {} /\ present = held
    BY <2>1 DEF Init
  <2>3. \A p \in held : status[Owner[p]] # "ok"
    BY <1>2, <2>1, KindAssumption
  <2> QED BY <1>5, <2>1, <2>2, <2>3 DEF StoreInv
<1>8. LiveBytesExact
  BY DEF Init, LiveBytesExact
<1>9. DeliveryInv /\ CallsInv /\ StopInv
  BY <1>2 DEF Init, DeliveryInv, CallsInv, StopInv
<1>10. JournalCoherent
  BY <1>2, ShapeAssumption DEF Init, JournalCoherent, Began
<1>11. SkipExplained /\ AnnouncedNeverWrong
  BY <1>2 DEF SkipExplained, AnnouncedNeverWrong
<1>12. StopIsFinal
  BY <1>2, TurnsTyped DEF StopIsFinal
<1>13. VerdictInv
  BY DEF Init, VerdictInv
<1> QED BY <1>1, <1>3, <1>4, <1>6, <1>7, <1>8, <1>9, <1>10, <1>11, <1>12, <1>13 DEF RunInv

-----------------------------------------------------------------------------
(* The parts about the cursor and the store.                               *)

\* No step settles a step of the graph but the one at the cursor, or begins another.
LEMMA CursorKept == TypeOK /\ DisabledInv /\ StoreInv /\ LiveBytesExact /\ CursorInv
                      /\ [Next]_vars => CursorInv'
<1> SUFFICES ASSUME TypeOK, DisabledInv, StoreInv, LiveBytesExact, CursorInv, [Next]_vars
             PROVE  CursorInv'
  OBVIOUS
<1>1. ASSUME NEW n \in Node, NEW o \in Ended, NEW N, NEW sz, Settle(n, o, N, sz)
      PROVE  CursorInv'
  BY <1>1, SettleCursor
<1>2. ASSUME NEW n \in Node, StartStep(n) PROVE CursorInv'
  <2>1. /\ at' = at /\ n = Order[at] /\ at \in Turns /\ phase' = phase
        /\ status' = [status EXCEPT ![n] = "running"] /\ phase = "walking"
    BY <1>2 DEF StartStep, MayGather, Turn
  <2>2. \A i \in Turns : i \in Nat /\ Order[i] \in Node /\ (Order[i] = n => i = at)
    BY <2>1, TurnsTyped
  <2>3. \A i \in Turns : i # at => status'[Order[i]] = status[Order[i]]
    BY <2>1, <2>2 DEF TypeOK
  <2> QED BY <2>1, <2>2, <2>3 DEF CursorInv, Unsettled
<1>3. CASE Quiet
  <2>1. phase' = "finished" => at' = Len(Order) + 1
    BY <1>3 DEF Quiet, CursorInv, Finish
  <2> QED BY <1>3, <2>1 DEF Quiet, CursorInv, Unsettled
<1> QED BY <1>1, <1>2, <1>3, StepCases

\* A step passes as disabled only if it is, and only enabled ones are begun.
LEMMA DisabledKept ==
  ASSUME TypeOK, DisabledInv, StoreInv, LiveBytesExact, [Next]_vars
  PROVE  DisabledInv'
<1>1. ASSUME NEW n \in Node, NEW o \in Ended, NEW N, NEW sz, Settle(n, o, N, sz)
      PROVE  DisabledInv'
  <2>1. /\ disabled' = disabled /\ (o = "disabled" => n \in disabled)
        /\ \A m \in Node \ {n} : status'[m] = status[m]
        /\ status'[n] = o
    BY <1>1, SettleStatus DEF Settle
  <2>2. o # "running"
    BY DEF Ended, Halting
  <2>3. ClosedOff(disabled)'
    BY <2>1 DEF DisabledInv, ClosedOff
  <2> QED BY <2>1, <2>2, <2>3 DEF DisabledInv
<1>2. ASSUME NEW n \in Node, StartStep(n) PROVE DisabledInv'
  <2>1. /\ n \notin Trigger \cup disabled /\ disabled' = disabled
        /\ status' = [status EXCEPT ![n] = "running"]
    BY <1>2 DEF StartStep, MayGather
  <2> QED BY <2>1 DEF DisabledInv, ClosedOff, TypeOK
<1>3. CASE Quiet
  BY <1>3 DEF Quiet, DisabledInv, ClosedOff
<1> QED BY <1>1, <1>2, <1>3, StepCases

\* Starting a step takes no reader away.
LEMMA StartReaders ==
  ASSUME TypeOK, NEW n \in Node, StartStep(n), NEW p \in Port
  PROVE  Readers(p)' = Readers(p)
<1>1. status' = [status EXCEPT ![n] = "running"] /\ status[n] = "pending"
  BY DEF StartStep, MayGather, Turn
<1>2. \A m \in Node : Unsettled(m)' <=> Unsettled(m)
  BY <1>1 DEF TypeOK, Unsettled
<1> QED BY <1>2, ShapeAssumption DEF Readers, Leaving

\* The counters, the store and the byte counter go on agreeing.
LEMMA StoreKept ==
  ASSUME TypeOK, DisabledInv, StoreInv, LiveBytesExact, CursorInv, CountersExact, [Next]_vars
  PROVE  CountersExact' /\ StoreInv' /\ LiveBytesExact'
<1>1. ASSUME NEW n \in Node, NEW o \in Ended, NEW N, NEW sz, Settle(n, o, N, sz)
      PROVE  CountersExact' /\ StoreInv' /\ LiveBytesExact'
  BY <1>1, SettleCounted, SettleStore
<1>2. ASSUME NEW n \in Node, StartStep(n)
      PROVE  CountersExact' /\ StoreInv' /\ LiveBytesExact'
  <2>1. /\ UNCHANGED <<held, present, recorded, size, consumersLeft, liveBytes>>
        /\ status' = [status EXCEPT ![n] = "running"] /\ status[n] = "pending"
    BY <1>2 DEF StartStep, MayGather, Turn, storeVars
  <2>2. \A p \in Port : Readers(p)' = Readers(p)
    BY <1>2, StartReaders
  <2>3. \A m \in Node : status'[m] = "ok" <=> status[m] = "ok"
    BY <2>1 DEF TypeOK
  <2>4. CountersExact' /\ LiveBytesExact'
    BY <2>1, <2>2 DEF CountersExact, LiveBytesExact, Weight, Bytes
  <2>5. \A p \in held \cup present \cup recorded : p \in Port /\ Owner[p] \in Node
    BY ShapeAssumption DEF TypeOK
  <2>6. StoreInv'
    BY <2>1, <2>2, <2>3, <2>5 DEF StoreInv
  <2> QED BY <2>4, <2>6
<1>3. ASSUME Quiet PROVE CountersExact' /\ StoreInv' /\ LiveBytesExact'
  <2>1. UNCHANGED <<status, held, present, recorded, size, consumersLeft, liveBytes>>
    BY <1>3 DEF Quiet
  <2>2. \A p \in Port : Readers(p)' = Readers(p)
    BY <2>1 DEF Readers, Unsettled
  <2>3. held \in SUBSET Port /\ recorded \in SUBSET Port
    BY DEF TypeOK
  <2> QED BY <2>1, <2>2, <2>3 DEF CountersExact, StoreInv, LiveBytesExact, Weight, Bytes
<1> QED BY <1>1, <1>2, <1>3, StepCases

-----------------------------------------------------------------------------
(* The parts about the journal.                                            *)

\* Nothing is delivered to a step that has not begun.
LEMMA DeliveryKept ==
  ASSUME TypeOK, DisabledInv, StoreInv, LiveBytesExact, DeliveryInv, [Next]_vars
  PROVE  DeliveryInv'
<1>1. ASSUME NEW n \in Node, NEW o \in Ended, NEW N, NEW sz, Settle(n, o, N, sz)
      PROVE  DeliveryInv'
  <2>1. /\ delivered' = delivered
        /\ \A m \in Node \ {n} : status'[m] = status[m]
        /\ status'[n] = o /\ o # "pending"
    BY <1>1, SettleStatus DEF Settle, Ended, Halting
  <2>2. \A e \in delivered : Target[e] \in Node
    BY ShapeAssumption DEF TypeOK
  <2> QED BY <2>1, <2>2 DEF DeliveryInv
<1>2. ASSUME NEW n \in Node, StartStep(n) PROVE DeliveryInv'
  <2>1. /\ delivered' = delivered \cup Arriving(n)
        /\ status' = [status EXCEPT ![n] = "running"]
    BY <1>2 DEF StartStep
  <2>2. \A e \in delivered : Target[e] \in Node
    BY ShapeAssumption DEF TypeOK
  <2> QED BY <2>1, <2>2 DEF DeliveryInv, Arriving, Feeding, TypeOK
<1>3. CASE Quiet
  BY <1>3 DEF Quiet, DeliveryInv
<1> QED BY <1>1, <1>2, <1>3, StepCases

\* What a step is given when it starts is what its producers' records say.
LEMMA StartCoherent ==
  ASSUME TypeOK, CursorInv, DisabledInv, StoreInv, DeliveryInv,
         NEW n \in Node, StartStep(n), NEW e \in Feeding(n)
  PROVE  /\ status[Owner[Source[e]]] = "ok"
         /\ e \in delivered' <=> Source[e] \in recorded \cap present
<1>1. /\ n = Order[at] /\ at \in Turns /\ status[n] = "pending" /\ n \notin disabled
      /\ Blockers(n) = {} /\ delivered' = delivered \cup Arriving(n)
  BY DEF StartStep, MayGather, Turn
<1>2. e \in Edge /\ Target[e] = n
  BY DEF Feeding
<1> DEFINE m == Owner[Source[e]]
<1>3. m \in Node /\ ~Unsettled(m)
  BY <1>1, <1>2, ProducersSettled, ShapeAssumption
<1>4. m \in Producers(n)
  BY DEF Producers
<1>5. status[m] \notin Halting
  BY <1>1, <1>4 DEF Blockers
<1>6. status[m] # "disabled"
  BY <1>1, <1>2, <1>3 DEF DisabledInv, ClosedOff
<1>7. status[m] = "ok"
  BY <1>3, <1>5, <1>6 DEF TypeOK, NodeStatus, Ended, Unsettled
<1>8. e \notin delivered
  BY <1>1, <1>2 DEF DeliveryInv
<1>9. e \in Readers(Source[e])
  BY <1>1, <1>2 DEF Readers, Leaving, Unsettled
<1>10. Source[e] \in held <=> Source[e] \in recorded
  BY <1>7, <1>9 DEF StoreInv
<1> QED BY <1>1, <1>7, <1>8, <1>10 DEF Arriving

\* The records go on agreeing: a step that begins is handed what its producers'
\* records list, and a record that is closed is not opened again.
LEMMA JournalKept ==
  ASSUME TypeOK, CursorInv, DisabledInv, StoreInv, LiveBytesExact, DeliveryInv,
         JournalCoherent, [Next]_vars
  PROVE  JournalCoherent'
<1>0. \A e \in Edge : Target[e] \in Node /\ Source[e] \in Port /\ Owner[Source[e]] \in Node
  BY ShapeAssumption
<1>1. ASSUME NEW n \in Node, NEW o \in Ended, NEW N \in SUBSET Port, NEW sz, Settle(n, o, N, sz)
      PROVE  JournalCoherent'
  <2>1. /\ n = Order[at] /\ at \in Turns /\ delivered' = delivered
        /\ recorded' = recorded \cup N /\ present \subseteq present'
        /\ present' \subseteq present \cup N
        /\ \A p \in N : Owner[p] = n
        /\ o = "ok" => status[n] = "running" \/ n \in Trigger
    BY <1>1 DEF Settle, Ports
  <2>2. /\ \A m \in Node \ {n} : status'[m] = status[m]
        /\ status'[n] = o /\ o # "running" /\ status[n] # "ok"
    BY <1>1, SettleStatus DEF Ended, Halting, Settle, Unsettled
  <2>3. ASSUME NEW e \in Edge, Began(Target[e])'
        PROVE  Began(Target[e]) /\ status[Owner[Source[e]]] = "ok"
    <3>1. CASE Target[e] = n
      <4>1. n \notin Trigger
        BY <3>1, KindAssumption DEF Feeding
      <4> QED BY <2>1, <2>2, <2>3, <3>1, <4>1 DEF Began, JournalCoherent
    <3>2. CASE Target[e] # n
      BY <1>0, <2>2, <2>3, <3>2 DEF Began, JournalCoherent
    <3> QED BY <3>1, <3>2
  <2>4. ASSUME NEW e \in Edge, Began(Target[e])'
        PROVE  /\ status'[Owner[Source[e]]] = "ok"
               /\ e \in delivered' <=> Source[e] \in recorded' \cap present'
    <3>1. Owner[Source[e]] # n /\ Began(Target[e]) /\ status[Owner[Source[e]]] = "ok"
      BY <2>2, <2>3, <2>4
    <3>2. Source[e] \notin N
      BY <2>1, <3>1
    <3> QED BY <1>0, <2>1, <2>2, <3>1, <3>2 DEF JournalCoherent
  <2>5. \A e \in delivered' : Source[e] \in recorded' \cap present'
    BY <2>1 DEF JournalCoherent
  <2> QED BY <2>4, <2>5 DEF JournalCoherent
<1>2. ASSUME NEW n \in Node, StartStep(n) PROVE JournalCoherent'
  <2>1. /\ delivered' = delivered \cup Arriving(n) /\ status[n] = "pending"
        /\ status' = [status EXCEPT ![n] = "running"]
        /\ UNCHANGED <<recorded, present>>
    BY <1>2 DEF StartStep, MayGather, Turn, storeVars
  <2>2. ASSUME NEW e \in Edge, Began(Target[e])'
        PROVE  /\ status[Owner[Source[e]]] = "ok"
               /\ e \in delivered' <=> Source[e] \in recorded \cap present
    <3>1. CASE Target[e] = n
      BY <1>2, <3>1, StartCoherent DEF Feeding
    <3>2. CASE Target[e] # n
      <4>1. Began(Target[e])
        BY <1>0, <2>1, <2>2, <3>2 DEF Began, TypeOK
      <4>2. e \notin Arriving(n)
        BY <3>2 DEF Arriving, Feeding
      <4> QED BY <2>1, <4>1, <4>2 DEF JournalCoherent
    <3> QED BY <3>1, <3>2
  <2>3. \A m \in Node : status[m] = "ok" => status'[m] = "ok"
    BY <2>1 DEF TypeOK
  <2>4. ASSUME NEW e \in delivered' PROVE Source[e] \in recorded \cap present
    <3>1. CASE e \in delivered
      BY <3>1 DEF JournalCoherent
    <3>2. CASE e \in Arriving(n)
      BY <1>2, <2>1, <3>2, StartCoherent DEF Arriving
    <3> QED BY <2>1, <3>1, <3>2
  <2> QED BY <1>0, <2>1, <2>2, <2>3, <2>4 DEF JournalCoherent
<1>3. CASE Quiet
  BY <1>3 DEF Quiet, JournalCoherent, Began
<1> QED BY <1>1, <1>2, <1>3, StepCases

\* A skipped step leaves the others as they are, so each keeps its explanation;
\* its own blocker either failed, or was cancelled, or has one in its turn.
LEMMA SkipKept ==
  ASSUME TypeOK, CursorInv, DisabledInv, StoreInv, LiveBytesExact, SkipExplained, [Next]_vars
  PROVE  SkipExplained'
<1>0. \A n \in Node : Producers(n) \subseteq Node
  BY ShapeAssumption DEF Producers, Feeding
<1>1. ASSUME NEW n \in Node, NEW o \in Ended, NEW N \in SUBSET Port,
             NEW sz \in [Port -> Nat], Settle(n, o, N, sz), o # "skipped",
             \A k \in Node \ {n} : cause'[k] = cause[k]
      PROVE  SkipExplained'
  <2>1. /\ \A m \in Node \ {n} : status'[m] = status[m]
        /\ status'[n] = o
    BY <1>1, SettleStatus
  <2>2. \A m \in Node : status[m] \in Halting => m # n
    BY <1>1 DEF Settle, Unsettled, Halting
  <2>3. ASSUME NEW k \in Node, status'[k] = "skipped"
        PROVE  /\ \E m \in Producers(k) : cause'[k] = {m} /\ status'[m] \in Halting
               /\ \E m \in Node : status'[m] \in {"failed", "cancelled"}
    <3>1. k # n /\ status[k] = "skipped"
      BY <1>1, <2>1, <2>3
    <3>2. PICK m \in Producers(k) : cause[k] = {m} /\ status[m] \in Halting
      BY <3>1 DEF SkipExplained
    <3>3. PICK f \in Node : status[f] \in {"failed", "cancelled"}
      BY <3>1 DEF SkipExplained
    <3>4. status'[m] = status[m] /\ status'[f] = status[f]
      BY <1>0, <2>1, <2>2, <3>2, <3>3 DEF Halting
    <3> QED BY <1>1, <3>1, <3>2, <3>3, <3>4
  <2> QED BY <2>3 DEF SkipExplained
<1>2. ASSUME NEW n \in Node, SkipStep(n) PROVE SkipExplained'
  <2>1. Settle(n, "skipped", {}, size) /\ "skipped" \in Ended
    BY <1>2, EarlySettles DEF Ended, Halting
  <2>2. /\ \A m \in Node \ {n} : status'[m] = status[m]
        /\ status[n] = "pending"
    BY <1>2, <2>1, SettleStatus DEF SkipStep, Turn
  <2>3. PICK b \in Blockers(n) : cause' = [cause EXCEPT ![n] = {b}]
    BY <1>2 DEF SkipStep
  <2>4. /\ b \in Producers(n) /\ b \in Node /\ b # n /\ status'[b] = status[b]
        /\ status[b] \in Halting
    BY <1>0, <2>2, <2>3 DEF Blockers, Halting
  <2>5. \E f \in Node : status[f] \in {"failed", "cancelled"}
    BY <2>4 DEF SkipExplained, Halting
  <2>6. \E f \in Node : status'[f] \in {"failed", "cancelled"}
    BY <2>2, <2>5
  <2>7. ASSUME NEW k \in Node, status'[k] = "skipped"
        PROVE  \E m \in Producers(k) : cause'[k] = {m} /\ status'[m] \in Halting
    <3>1. CASE k = n
      BY <2>3, <2>4, <3>1 DEF TypeOK
    <3>2. CASE k # n
      <4>1. PICK m \in Producers(k) : cause[k] = {m} /\ status[m] \in Halting
        BY <2>2, <2>7, <3>2 DEF SkipExplained
      <4>2. m \in Node \ {n}
        BY <1>0, <2>2, <4>1 DEF Halting
      <4> QED BY <2>2, <2>3, <3>2, <4>1, <4>2 DEF TypeOK
    <3> QED BY <3>1, <3>2
  <2> QED BY <2>6, <2>7 DEF SkipExplained
<1>3. ASSUME NEW n \in Node,
             \/ PassDisabled(n) \/ CancelStep(n) \/ FailGather(n) \/ FailStep(n)
             \/ PassTrigger(n) \/ FinishStep(n)
      PROVE  SkipExplained'
  <2>1. cause' = cause
    BY <1>3 DEF PassDisabled, CancelStep, FailGather, FailStep, PassTrigger, FinishStep
  <2>2. size \in [Port -> Nat] /\ {} \in SUBSET Port /\ Ports(n) \cap held \in SUBSET Port
    BY DEF TypeOK, Ports
  <2>3. \E o \in {"disabled", "cancelled", "failed", "ok"},
          N \in SUBSET Port, sz \in [Port -> Nat] : Settle(n, o, N, sz)
    BY <1>3, <2>2, EarlySettles, TriggerSettles, FinishSettles
  <2>4. PICK o \in {"disabled", "cancelled", "failed", "ok"},
          N \in SUBSET Port, sz \in [Port -> Nat] : Settle(n, o, N, sz)
    BY <2>3
  <2>5. o \in Ended /\ o # "skipped"
    BY DEF Ended, Halting
  <2> QED BY <1>1, <2>1, <2>4, <2>5
<1>4. ASSUME NEW n \in Node, StartStep(n) PROVE SkipExplained'
  <2>1. cause' = cause /\ status' = [status EXCEPT ![n] = "running"] /\ status[n] = "pending"
    BY <1>4 DEF StartStep, MayGather, Turn
  <2>2. \A m \in Node : status[m] \in Halting => status'[m] = status[m]
    BY <2>1 DEF TypeOK, Halting
  <2>3. \A m \in Node : status'[m] = "skipped" => status[m] = "skipped"
    BY <2>1 DEF TypeOK
  <2> QED BY <1>0, <2>1, <2>2, <2>3 DEF SkipExplained, Halting
<1>5. ASSUME UNCHANGED <<status, cause>> PROVE SkipExplained'
  BY <1>5 DEF SkipExplained
<1>6. ASSUME NEW n \in Node, AskBroker(n) \/ Unwind(n) PROVE UNCHANGED <<status, cause>>
  BY <1>6 DEF AskBroker, Unwind, journalVars
<1>7. ASSUME Finish \/ PressStop \/ PassDeadline \/ UNCHANGED vars
      PROVE  UNCHANGED <<status, cause>>
  BY <1>7 DEF Finish, PressStop, PassDeadline, journalVars, vars
<1> QED BY <1>2, <1>3, <1>4, <1>5, <1>6, <1>7 DEF Next, Walk, EndComponent

\* The flag only rises: whatever a step does, a run that was stopped stays so.
LEMMA StoppedStays ==
  ASSUME TypeOK, [Next]_vars, Stopped
  PROVE  Stopped'
<1>1. ASSUME NEW n \in Node, PassDisabled(n) \/ CancelStep(n) PROVE Stopped'
  BY <1>1 DEF PassDisabled, CancelStep, KeepFlag, Stopped
<1>2. ASSUME NEW n \in Node, SkipStep(n) \/ FailGather(n) \/ PassTrigger(n)
                             \/ StartStep(n) \/ FinishStep(n) \/ FailStep(n)
                             \/ AskBroker(n) \/ Unwind(n)
      PROVE  Stopped'
  BY <1>2 DEF SkipStep, FailGather, PassTrigger, StartStep, FinishStep, FailStep,
              AskBroker, Unwind, outsideVars, Stopped
<1>3. ASSUME Finish \/ PressStop \/ PassDeadline \/ UNCHANGED vars PROVE Stopped'
  BY <1>3 DEF Finish, PressStop, PassDeadline, vars, outsideVars, Stopped
<1> QED BY <1>1, <1>2, <1>3 DEF Next, Walk, EndComponent

\* Once a step is cancelled the flag stays set, so nothing after it begins.
LEMMA StopKept ==
  ASSUME TypeOK, CursorInv, DisabledInv, StoreInv, LiveBytesExact, StopInv, StopIsFinal,
         [Next]_vars
  PROVE  StopInv' /\ StopIsFinal'
<1> DEFINE Cancelled == \E m \in Node : status[m] = "cancelled"
<1>0. Cancelled => Stopped'
  BY StoppedStays DEF StopInv
<1>1. ASSUME NEW n \in Node, NEW o \in Ended, NEW N, NEW sz, Settle(n, o, N, sz),
             Cancelled => o \in {"cancelled", "disabled"},
             o = "cancelled" => Stopped
      PROVE  StopInv' /\ StopIsFinal'
  <2>1. /\ \A m \in Node \ {n} : status'[m] = status[m]
        /\ status'[n] = o /\ n = Order[at] /\ at \in Turns
    BY <1>1, SettleStatus DEF Settle
  <2>2. \A i \in Turns : i \in Nat /\ Order[i] \in Node /\ (Order[i] = n => i = at)
    BY <2>1, TurnsTyped
  <2>3. StopInv'
    BY <1>0, <1>1, <2>1, StoppedStays DEF StopInv
  <2>4. ASSUME NEW i \in Turns, NEW j \in Turns, i < j, status'[Order[i]] = "cancelled"
        PROVE  status'[Order[j]] \in {"pending", "cancelled", "disabled"}
    <3>1. CASE i = at
      <4>1. j > at /\ Order[j] # n
        BY <2>2, <2>4, <3>1
      <4>2. status[Order[j]] = "pending"
        BY <4>1 DEF CursorInv
      <4> QED BY <2>1, <2>2, <4>1, <4>2
    <3>2. CASE i # at /\ j = at
      <4>1. Cancelled
        BY <2>1, <2>2, <2>4, <3>2
      <4> QED BY <1>1, <2>1, <3>2, <4>1
    <3>3. CASE i # at /\ j # at
      BY <2>1, <2>2, <2>4, <3>3 DEF StopIsFinal
    <3> QED BY <3>1, <3>2, <3>3
  <2> QED BY <2>3, <2>4 DEF StopIsFinal
<1>2. size \in [Port -> Nat] /\ {"ok", "disabled", "cancelled", "skipped", "failed"} \subseteq Ended
  BY DEF TypeOK, Ended, Halting
<1>3. ASSUME NEW n \in Node, PassDisabled(n) PROVE StopInv' /\ StopIsFinal'
  BY <1>1, <1>2, <1>3, EarlySettles
<1>4. ASSUME NEW n \in Node, CancelStep(n) PROVE StopInv' /\ StopIsFinal'
  <2>1. Stopped
    BY <1>4 DEF CancelStep
  <2> QED BY <1>1, <1>2, <1>4, <2>1, EarlySettles
<1>5. ASSUME NEW n \in Node, SkipStep(n) \/ FailGather(n) PROVE StopInv' /\ StopIsFinal'
  <2>1. ~Cancelled
    BY <1>5 DEF StopInv, SkipStep, FailGather, MayGather
  <2> QED BY <1>1, <1>2, <1>5, <2>1, EarlySettles
<1>6. ASSUME NEW n \in Node, PassTrigger(n) PROVE StopInv' /\ StopIsFinal'
  <2>1. ~Cancelled
    BY <1>6 DEF StopInv, PassTrigger, MayGather
  <2> QED BY <1>1, <1>2, <1>6, <2>1, TriggerSettles
<1>7. ASSUME NEW n \in Node, Running(n) PROVE ~Cancelled
  <2>1. n = Order[at] /\ at \in Turns /\ status[n] = "running"
    BY <1>7 DEF Running
  <2>2. ASSUME NEW m \in Node, status[m] = "cancelled" PROVE FALSE
    <3>1. PICK i \in Turns : Order[i] = m
      BY TurnsTyped
    <3>2. i \in Nat /\ at \in Nat /\ i # at
      BY <2>1, <2>2, <3>1, TurnsTyped
    <3>3. CASE i < at
      BY <2>1, <2>2, <3>1, <3>3 DEF StopIsFinal
    <3>4. CASE i > at
      BY <2>2, <3>1, <3>4 DEF CursorInv
    <3> QED BY <3>2, <3>3, <3>4
  <2> QED BY <2>2
<1>8. ASSUME NEW n \in Node, FailStep(n) PROVE StopInv' /\ StopIsFinal'
  <2>1. ~Cancelled
    BY <1>7, <1>8 DEF FailStep
  <2> QED BY <1>1, <1>2, <1>8, <2>1, EarlySettles
<1>9. ASSUME NEW n \in Node, FinishStep(n) PROVE StopInv' /\ StopIsFinal'
  <2>1. ~Cancelled
    BY <1>7, <1>9 DEF FinishStep
  <2> QED BY <1>1, <1>2, <1>9, <2>1, FinishSettles
<1>10. ASSUME NEW n \in Node, StartStep(n) PROVE StopInv' /\ StopIsFinal'
  <2>1. ~Cancelled /\ status' = [status EXCEPT ![n] = "running"]
    BY <1>10 DEF StartStep, MayGather, StopInv
  <2>2. \A m \in Node : status'[m] # "cancelled"
    BY <2>1 DEF TypeOK
  <2> QED BY <2>2, TurnsTyped DEF StopInv, StopIsFinal
<1>11. ASSUME UNCHANGED status PROVE StopInv' /\ StopIsFinal'
  BY <1>0, <1>11 DEF StopInv, StopIsFinal
<1>12. ASSUME NEW n \in Node, AskBroker(n) \/ Unwind(n) PROVE UNCHANGED status
  BY <1>12 DEF AskBroker, Unwind, journalVars
<1>13. ASSUME Finish \/ PressStop \/ PassDeadline \/ UNCHANGED vars PROVE UNCHANGED status
  BY <1>13 DEF Finish, PressStop, PassDeadline, journalVars, vars
<1> HIDE DEF Cancelled
<1> QED BY <1>3, <1>4, <1>5, <1>6, <1>8, <1>9, <1>10, <1>11, <1>12, <1>13
        DEF Next, Walk, EndComponent

\* The broker's calls of a component are taken wherever its record closes.
LEMMA CallsKept ==
  ASSUME TypeOK, CallsInv, [Next]_vars
  PROVE  CallsInv'
<1>1. ASSUME NEW n \in Node, NEW o, status' = [status EXCEPT ![n] = o],
             calls' = calls, n \in calls \ Trigger => o = "running"
      PROVE  CallsInv'
  BY <1>1 DEF CallsInv, TypeOK
<1>2. ASSUME NEW n \in Node, PassDisabled(n) \/ CancelStep(n) \/ SkipStep(n) \/ PassTrigger(n)
                             \/ StartStep(n)
      PROVE  CallsInv'
  <2>1. status[n] = "pending" /\ calls' = calls
    BY <1>2 DEF PassDisabled, CancelStep, SkipStep, PassTrigger, StartStep, MayGather, Turn
  <2>2. n \notin calls \ Trigger
    BY <2>1 DEF CallsInv
  <2>3. \E o \in NodeStatus : status' = [status EXCEPT ![n] = o]
    BY <1>2 DEF PassDisabled, CancelStep, SkipStep, PassTrigger, StartStep, EndTurn,
                NodeStatus, Ended, Halting
  <2> QED BY <1>1, <2>1, <2>2, <2>3
<1>3. ASSUME NEW n \in Node, FailGather(n) \/ FailStep(n) \/ FinishStep(n) PROVE CallsInv'
  <2>1. calls' = calls \ {n}
    BY <1>3 DEF FailGather, FailStep, FinishStep, TakeCalls
  <2>2. \E o \in NodeStatus : status' = [status EXCEPT ![n] = o]
    BY <1>3, FinishCases DEF FailGather, FailStep, EndTurn, Handed, Refused, NodeStatus, Ended, Halting
  <2> QED BY <2>1, <2>2 DEF CallsInv, TypeOK
<1>4. ASSUME NEW n \in Node, AskBroker(n) PROVE CallsInv'
  BY <1>4 DEF AskBroker, Running, journalVars, CallsInv
<1>5. ASSUME NEW n \in Node, Unwind(n) PROVE CallsInv'
  BY <1>5 DEF Unwind, journalVars, CallsInv
<1>6. ASSUME Finish \/ PressStop \/ PassDeadline \/ UNCHANGED vars PROVE CallsInv'
  BY <1>6 DEF Finish, PressStop, PassDeadline, journalVars, vars, CallsInv
<1> QED BY <1>2, <1>3, <1>4, <1>5, <1>6 DEF Next, Walk, EndComponent

\* An exit that tells nobody only ever leaves a step nobody was told about.
LEMMA AnnouncedKept ==
  ASSUME TypeOK, AnnouncedNeverWrong, [Next]_vars
  PROVE  AnnouncedNeverWrong'
<1>1. ASSUME NEW n \in Node, NEW s, status' = [status EXCEPT ![n] = s], Announce(n, s)
      PROVE  AnnouncedNeverWrong'
  BY <1>1 DEF Announce, AnnouncedNeverWrong, TypeOK
<1>2. ASSUME NEW n \in Node, PassDisabled(n) \/ CancelStep(n) \/ SkipStep(n)
                             \/ StartStep(n) \/ FailStep(n)
      PROVE  AnnouncedNeverWrong'
  <2>1. \E s \in NodeStatus : status' = [status EXCEPT ![n] = s] /\ Announce(n, s)
    BY <1>2 DEF PassDisabled, CancelStep, SkipStep, StartStep, FailStep, EndTurn,
                NodeStatus, Ended, Halting
  <2> QED BY <1>1, <2>1
<1>3. ASSUME NEW n \in Node, FinishStep(n) PROVE AnnouncedNeverWrong'
  <2>1. \E s \in NodeStatus : status' = [status EXCEPT ![n] = s] /\ Announce(n, s)
    BY <1>3, FinishCases DEF Handed, Refused, EndTurn, NodeStatus, Ended, Halting
  <2> QED BY <1>1, <2>1
<1>4. ASSUME NEW n \in Node, FailGather(n) \/ PassTrigger(n) PROVE AnnouncedNeverWrong'
  <2>1. announced' = announced /\ status[n] = "pending"
    BY <1>4 DEF FailGather, PassTrigger, MayGather, Turn
  <2>2. \E s \in NodeStatus : status' = [status EXCEPT ![n] = s]
    BY <1>4 DEF FailGather, PassTrigger, EndTurn, NodeStatus, Ended, Halting
  <2> QED BY <2>1, <2>2 DEF AnnouncedNeverWrong, TypeOK
<1>5. ASSUME NEW n \in Node, AskBroker(n) \/ Unwind(n) PROVE AnnouncedNeverWrong'
  BY <1>5 DEF AskBroker, Unwind, journalVars, AnnouncedNeverWrong
<1>6. ASSUME Finish \/ PressStop \/ PassDeadline \/ UNCHANGED vars PROVE AnnouncedNeverWrong'
  BY <1>6 DEF Finish, PressStop, PassDeadline, journalVars, vars, AnnouncedNeverWrong
<1> QED BY <1>2, <1>3, <1>4, <1>5, <1>6 DEF Next, Walk, EndComponent

\* The verdict is given once, when every step is settled.
LEMMA VerdictKept ==
  ASSUME TypeOK, CursorInv, DisabledInv, StoreInv, LiveBytesExact, VerdictInv, [Next]_vars
  PROVE  VerdictInv'
<1>1. ASSUME NEW n \in Node, NEW o \in Ended, NEW N, NEW sz, Settle(n, o, N, sz)
      PROVE  VerdictInv'
  BY <1>1 DEF Settle, VerdictInv
<1>2. ASSUME NEW n \in Node, StartStep(n) PROVE VerdictInv'
  BY <1>2 DEF StartStep, MayGather, Turn, VerdictInv
<1>3. ASSUME Quiet, UNCHANGED <<phase, verdict>> PROVE VerdictInv'
  BY <1>3 DEF Quiet, VerdictInv, Unsettled, Verdict
<1>4. ASSUME phase = "walking", phase' = "unwound", UNCHANGED verdict PROVE VerdictInv'
  BY <1>4 DEF VerdictInv
<1>5. ASSUME Finish PROVE VerdictInv'
  <2>1. /\ at = Len(Order) + 1 /\ phase' = "finished" /\ verdict' = Verdict(status)
        /\ status' = status
    BY <1>5 DEF Finish
  <2>2. \A i \in Turns : i < at
    BY <2>1, TurnsTyped DEF Turns
  <2>3. \A n \in Node : ~Unsettled(n)
    BY <2>2, TurnsTyped DEF CursorInv
  <2>4. Verdict(status)' = Verdict(status)
    BY <2>1 DEF Verdict
  <2> QED BY <2>1, <2>3, <2>4 DEF VerdictInv, Unsettled
<1> QED BY <1>1, <1>2, <1>3, <1>4, <1>5, StepCases DEF Quiet

-----------------------------------------------------------------------------
(* The theorems.                                                           *)

\* Every step of a run keeps the invariant.
LEMMA NextInvariant == RunInv /\ [Next]_vars => RunInv'
<1> SUFFICES ASSUME RunInv, [Next]_vars PROVE RunInv'
  OBVIOUS
<1> USE DEF RunInv
<1>1. TypeOK'
  BY NextTyped
<1>2. CursorInv' /\ DisabledInv'
  BY CursorKept, DisabledKept
<1>3. CountersExact' /\ StoreInv' /\ LiveBytesExact'
  BY StoreKept
<1>4. DeliveryInv' /\ JournalCoherent'
  BY DeliveryKept, JournalKept
<1>5. SkipExplained' /\ StopInv' /\ StopIsFinal'
  BY SkipKept, StopKept
<1>6. CallsInv' /\ AnnouncedNeverWrong' /\ VerdictInv'
  BY CallsKept, AnnouncedKept, VerdictKept
<1> QED BY <1>1, <1>2, <1>3, <1>4, <1>5, <1>6

\* The cursor, the records, the store of values and what was announced go
\* together as the invariant says, in every run of every workflow.
THEOREM InvariantHolds == Spec => []RunInv
<1> QED BY InitInvariant, NextInvariant, PTL DEF Spec

\* Eight exits from the loop body share one release, and the count kept for a
\* port is exactly the number of connections still to read it after each.
THEOREM CountersAreExact == Spec => []CountersExact
<1>1. RunInv => CountersExact
  BY DEF RunInv
<1> QED BY <1>1, InvariantHolds, PTL

\* A produced value is in the store as long as something may read it, and not
\* a turn longer.
THEOREM ValuesHeldWhileNeeded == Spec => []HeldExactlyWhileNeeded
<1>1. RunInv => HeldExactlyWhileNeeded
  BY DEF RunInv, StoreInv, HeldExactlyWhileNeeded
<1> QED BY <1>1, InvariantHolds, PTL

\* live_bytes is the weight of what is held, whatever was added and released.
THEOREM BytesNeverDrift == Spec => []LiveBytesExact
<1>1. RunInv => LiveBytesExact
  BY DEF RunInv
<1> QED BY <1>1, InvariantHolds, PTL

\* Records of connected steps agree on what passed between them.
THEOREM RecordsAgree == Spec => []JournalCoherent
<1>1. RunInv => JournalCoherent
  BY DEF RunInv
<1> QED BY <1>1, InvariantHolds, PTL

\* Behind every skipped step is one that failed or was cancelled.
THEOREM SkipsAreExplained == Spec => []SkipExplained
<1>1. RunInv => SkipExplained
  BY DEF RunInv
<1> QED BY <1>1, InvariantHolds, PTL

\* RunStatus::Ok is said only of a run in which every enabled step succeeded.
THEOREM OkIsDeserved == Spec => []OkMeansAllRan
<1>1. RunInv => OkMeansAllRan
  <2> SUFFICES ASSUME RunInv, verdict = "ok", NEW n \in Node
               PROVE  status[n] \in {"ok", "disabled"}
    BY DEF OkMeansAllRan
  <2>1. Verdict(status) = "ok" /\ ~Unsettled(n)
    BY DEF RunInv, VerdictInv
  <2>2. \A m \in Node : status[m] \notin {"failed", "cancelled"}
    BY <2>1 DEF Verdict
  <2>3. status[n] # "skipped"
    BY <2>2 DEF RunInv, SkipExplained
  <2>4. status[n] \in NodeStatus
    BY DEF RunInv, TypeOK
  <2> QED BY <2>1, <2>2, <2>3, <2>4 DEF NodeStatus, Ended, Halting, Unsettled
<1> QED BY <1>1, InvariantHolds, PTL

\* After a cancelled step nothing runs: a stopped run did a prefix of its work.
THEOREM StoppingIsFinal == Spec => []StopIsFinal
<1>1. RunInv => StopIsFinal
  BY DEF RunInv
<1> QED BY <1>1, InvariantHolds, PTL

\* A record closes with the calls its component made.
THEOREM CallsAreJournalled == Spec => []CallsJournalled
<1>1. RunInv => CallsJournalled
  BY DEF RunInv, CallsInv, CallsJournalled, Unsettled
<1> QED BY <1>1, InvariantHolds, PTL

\* The observer is never told a status the journal will contradict.
THEOREM AnnouncementsAreRight == Spec => []AnnouncedNeverWrong
<1>1. RunInv => AnnouncedNeverWrong
  BY DEF RunInv
<1> QED BY <1>1, InvariantHolds, PTL

\* A component's values are kept only when they fit beside everything the run
\* holds at that moment, its own inputs included.
THEOREM PeakIsWithinBudget == Spec => PeakWithinBudget
<1> DEFINE Peak == \A n \in Node : status[n] = "running" /\ status'[n] = "ok" =>
                     Weight(size', held \cup (recorded' \ recorded)) <= Budget
<1>1. ASSUME RunInv, [Next]_vars PROVE Peak
  <2> SUFFICES ASSUME NEW n \in Node, status[n] = "running", status'[n] = "ok"
               PROVE  Weight(size', held \cup (recorded' \ recorded)) <= Budget
    OBVIOUS
  <2> USE DEF RunInv
  <2>1. FinishStep(n)
    <3>1. ASSUME NEW m \in Node, PassDisabled(m) \/ CancelStep(m) \/ SkipStep(m)
                                 \/ FailGather(m) \/ FailStep(m)
          PROVE  FALSE
      <4>1. \E o \in {"disabled", "cancelled", "skipped", "failed"} :
              status' = [status EXCEPT ![m] = o]
        BY <3>1 DEF PassDisabled, CancelStep, SkipStep, FailGather, FailStep, EndTurn
      <4> QED BY <1>1, <4>1 DEF TypeOK
    <3>2. ASSUME NEW m \in Node, PassTrigger(m) \/ StartStep(m) PROVE FALSE
      <4>1. status[m] = "pending"
        BY <3>2 DEF PassTrigger, StartStep, MayGather, Turn
      <4>2. \E o : status' = [status EXCEPT ![m] = o]
        BY <3>2 DEF PassTrigger, StartStep, EndTurn
      <4> QED BY <1>1, <4>1, <4>2 DEF TypeOK
    <3>3. ASSUME UNCHANGED status PROVE FALSE
      BY <3>3
    <3>4. ASSUME NEW m \in Node, AskBroker(m) \/ Unwind(m) PROVE UNCHANGED status
      BY <3>4 DEF AskBroker, Unwind, journalVars
    <3>5. ASSUME Finish \/ PressStop \/ PassDeadline \/ UNCHANGED vars PROVE UNCHANGED status
      BY <3>5 DEF Finish, PressStop, PassDeadline, journalVars, vars
    <3>6. ASSUME NEW m \in Node, FinishStep(m) PROVE m = n
      <4>1. \E o : status' = [status EXCEPT ![m] = o]
        BY <1>1, <3>6, FinishCases DEF Handed, Refused, EndTurn
      <4> QED BY <1>1, <4>1 DEF TypeOK
    <3> QED BY <1>1, <3>1, <3>2, <3>3, <3>4, <3>5, <3>6 DEF Next, Walk, EndComponent
  <2>2. \/ Refused(n)
        \/ \E S \in SUBSET Port, sz \in [Port -> Nat] :
             /\ Handed(n, S, sz) /\ Weight(sz, held \cup S) <= Budget
    BY <1>1, <2>1, FinishSettles
  <2>3. ~Refused(n)
    BY <1>1 DEF Refused, EndTurn, TypeOK
  <2>4. PICK S \in SUBSET Port, sz \in [Port -> Nat] :
          Handed(n, S, sz) /\ Weight(sz, held \cup S) <= Budget
    BY <2>2, <2>3
  <2> DEFINE H == held \cup S
             G == held \cup (recorded' \ recorded)
  <2>5. G \in SUBSET H /\ H \in SUBSET Port /\ size' = sz
    BY <1>1, <2>4 DEF Handed, EndTurn, TypeOK
  <2> HIDE DEF G, H
  <2>6. Weight(sz, G) <= Weight(sz, H)
    BY <2>5, WeightWithout
  <2>7. G \in SUBSET Port
    BY <2>5
  <2>8. Weight(sz, G) \in Nat /\ Weight(sz, H) \in Nat
    BY <2>5, <2>7, BytesFinite
  <2>9. Weight(sz, H) <= Budget
    BY <2>4 DEF H
  <2>10. Weight(sz, G) <= Budget
    BY <2>6, <2>8, <2>9, SizeAssumption
  <2>11. Weight(size', G) = Weight(sz, G)
    BY <2>5, Zenon
  <2> QED BY <2>10, <2>11 DEF G
<1>2. RunInv /\ [Next]_vars => [Peak]_vars
  BY <1>1
<1> HIDE DEF Peak
<1>3. Spec => [][Peak]_vars
  BY <1>2, InvariantHolds, PTL DEF Spec
<1> QED BY <1>3 DEF PeakWithinBudget, Peak

-----------------------------------------------------------------------------
(* The refinement: every step of the executor is a step of the abstract   *)
(* run of module Dataflow, or one the abstract run does not see.          *)

Made     == recorded \cap present
Received == {e \in delivered : ~Unsettled(Target[e])}

-----------------------------------------------------------------------------
(* What the mapping makes of a turn.                                       *)

\* A step that settles is decided, once its producers are.
LEMMA TurnDecides ==
  ASSUME RunInv, NEW n \in Node, NEW o \in Ended, NEW N, NEW sz, Settle(n, o, N, sz)
  PROVE  DF!Ready(n) /\ DF!Decide(n, o)
<1>1. n = Order[at] /\ at \in Turns /\ Unsettled(n) /\ phase = "walking"
  BY DEF Settle
<1>2. ASSUME NEW m \in DF!Producers(n) PROVE m \in Node /\ ~Unsettled(m)
  <2>1. PICK e \in Edge : Target[e] = n /\ m = Owner[Source[e]]
    BY <1>2 DEF DF!Producers, DF!Feeding
  <2> QED BY <1>1, <2>1, ProducersSettled, ShapeAssumption DEF RunInv
<1>3. \A m \in Node : ~Unsettled(m) => AbstractOutcome[m] # "waiting"
  BY DEF AbstractOutcome, RunInv, TypeOK, NodeStatus, Ended, Halting
<1>4. DF!Ready(n)
  BY <1>1, <1>2, <1>3 DEF DF!Ready, AbstractOutcome
<1>5. /\ status' = [status EXCEPT ![n] = o] /\ ~(o \in {"pending", "running"})
  BY DEF Settle, EndTurn, Ended, Halting
<1>6. AbstractOutcome' = [AbstractOutcome EXCEPT ![n] = o]
  <2>1. \A m \in Node : (IF Unsettled(m)' THEN "waiting" ELSE status'[m])
          = IF m = n THEN o ELSE IF Unsettled(m) THEN "waiting" ELSE status[m]
    BY <1>5 DEF RunInv, TypeOK, Unsettled
  <2> QED BY <2>1 DEF AbstractOutcome
<1> QED BY <1>4, <1>6 DEF DF!Decide

\* Before its turn a step has been delivered nothing.
LEMMA EarlyTurnReceives ==
  ASSUME RunInv, NEW n \in Node, NEW o \in Ended, NEW N, NEW sz, Settle(n, o, N, sz),
         status[n] = "pending"
  PROVE  Received' = Received
<1>1. \A m \in Node : Unsettled(m)' <=> m # n /\ Unsettled(m)
  BY SettleStatus DEF RunInv
<1>2. delivered' = delivered /\ \A e \in delivered : Target[e] \in Node /\ Target[e] # n
  BY ShapeAssumption DEF Settle, RunInv, DeliveryInv, TypeOK
<1> QED BY <1>1, <1>2 DEF Received

\* A step that ran was delivered what the abstract run says was arriving.
LEMMA RunTurnReceives ==
  ASSUME RunInv, NEW n \in Node, NEW o \in Ended, NEW N, NEW sz, Settle(n, o, N, sz),
         status[n] = "running"
  PROVE  /\ Received' = Received \cup DF!Arriving(n)
         /\ ~DF!Halted(n) /\ n \notin disabled
<1>1. \A m \in Node : Unsettled(m)' <=> m # n /\ Unsettled(m)
  BY SettleStatus DEF RunInv
<1>2. delivered' = delivered /\ \A e \in delivered : e \in Edge /\ Target[e] \in Node
  BY ShapeAssumption DEF Settle, RunInv, TypeOK
<1>3. \A e \in Edge : Target[e] = n =>
        /\ status[Owner[Source[e]]] = "ok"
        /\ e \in delivered <=> Source[e] \in Made
  BY DEF RunInv, JournalCoherent, Began, Made
<1>4. DF!Arriving(n) = {e \in Edge : Target[e] = n /\ e \in delivered}
  BY <1>3 DEF DF!Arriving, DF!Feeding, Made
<1>5. Received' = Received \cup DF!Arriving(n)
  BY <1>1, <1>2, <1>4 DEF Received
<1>6. ~DF!Halted(n)
  <2>1. \A e \in Edge : Target[e] = n => AbstractOutcome[Owner[Source[e]]] = "ok"
    BY <1>3, ShapeAssumption DEF AbstractOutcome, Unsettled
  <2> QED BY <2>1 DEF DF!Halted, DF!Producers, DF!Feeding, DF!Halting
<1> QED BY <1>5, <1>6 DEF RunInv, DisabledInv

\* A step may gather its inputs only where the abstract run is not halted.
LEMMA GatherGoesOn ==
  ASSUME RunInv, NEW n \in Node, MayGather(n)
  PROVE  ~DF!Halted(n) /\ n \notin disabled /\ status[n] = "pending"
<1>1. Blockers(n) = {} /\ n \notin disabled /\ status[n] = "pending"
  BY DEF MayGather, Turn
<1>2. \A e \in Feeding(n) : Owner[Source[e]] \in Node /\ status[Owner[Source[e]]] \notin Halting
  BY <1>1, ShapeAssumption DEF Blockers, Producers, Feeding
<1>3. \A m \in Node : AbstractOutcome[m] \in Halting => status[m] \in Halting
  BY DEF AbstractOutcome, Halting
<1> QED BY <1>1, <1>2, <1>3 DEF DF!Halted, DF!Producers, DF!Feeding, DF!Halting, Feeding, Halting

-----------------------------------------------------------------------------
(* One step of the executor, one step of the abstract run.                 *)

\* A turn that runs no component is one step of the abstract run.
LEMMA EarlyMaps ==
  ASSUME RunInv, NEW n \in Node
  PROVE  /\ PassDisabled(n) => DF!SwitchOff(n)
         /\ CancelStep(n) => DF!Cancel(n)
         /\ SkipStep(n) => DF!Skip(n)
         /\ FailGather(n) => DF!Fail(n)
         /\ PassTrigger(n) => DF!Succeed(n)
<1>0. {"ok", "disabled", "cancelled", "skipped", "failed"} \subseteq Ended
  BY DEF Ended, Halting
<1> USE DEF Made, Received
<1>1. ASSUME PassDisabled(n) PROVE DF!SwitchOff(n)
  <2>1. Settle(n, "disabled", {}, size) /\ status[n] = "pending" /\ n \in disabled
    BY <1>1, EarlySettles DEF RunInv, PassDisabled, Turn
  <2>2. DF!Ready(n) /\ DF!Decide(n, "disabled") /\ Received' = Received
    BY <1>0, <2>1, TurnDecides, EarlyTurnReceives
  <2> QED BY <1>1, <2>1, <2>2 DEF DF!SwitchOff, PassDisabled
<1>2. ASSUME CancelStep(n) PROVE DF!Cancel(n)
  <2>1. Settle(n, "cancelled", {}, size) /\ status[n] = "pending" /\ n \notin disabled
    BY <1>2, EarlySettles DEF RunInv, CancelStep, Turn
  <2>2. DF!Ready(n) /\ DF!Decide(n, "cancelled") /\ Received' = Received
    BY <1>0, <2>1, TurnDecides, EarlyTurnReceives
  <2> QED BY <1>2, <2>1, <2>2 DEF DF!Cancel, CancelStep
<1>3. ASSUME SkipStep(n) PROVE DF!Skip(n)
  <2>1. Settle(n, "skipped", {}, size) /\ status[n] = "pending" /\ n \notin disabled
    BY <1>3, EarlySettles DEF RunInv, SkipStep, Turn
  <2>2. DF!Ready(n) /\ DF!Decide(n, "skipped") /\ Received' = Received
    BY <1>0, <2>1, TurnDecides, EarlyTurnReceives
  <2>3. DF!Halted(n)
    <3>1. PICK e \in Feeding(n) : status[Owner[Source[e]]] \in Halting
      BY <1>3 DEF SkipStep, Blockers, Producers
    <3>2. Owner[Source[e]] \in Node /\ e \in Edge /\ Target[e] = n
      BY ShapeAssumption DEF Feeding
    <3>3. AbstractOutcome[Owner[Source[e]]] \in Halting
      BY <3>1, <3>2 DEF AbstractOutcome, Unsettled, Halting
    <3> QED BY <3>2, <3>3 DEF DF!Halted, DF!Producers, DF!Feeding, DF!Halting, Halting
  <2> QED BY <1>3, <2>1, <2>2, <2>3 DEF DF!Skip, SkipStep
<1>4. ASSUME FailGather(n) PROVE DF!Fail(n)
  <2>1. Settle(n, "failed", {}, size) /\ MayGather(n)
    BY <1>4, EarlySettles DEF RunInv, FailGather
  <2>2. ~DF!Halted(n) /\ n \notin disabled /\ status[n] = "pending"
    BY <2>1, GatherGoesOn
  <2>3. DF!Ready(n) /\ DF!Decide(n, "failed") /\ Received' = Received
    BY <1>0, <2>1, <2>2, TurnDecides, EarlyTurnReceives
  <2> QED BY <1>4, <2>2, <2>3 DEF DF!Fail, FailGather
<1>5. ASSUME PassTrigger(n) PROVE DF!Succeed(n)
  <2>1. Settle(n, "ok", Ports(n) \cap held, size) /\ MayGather(n) /\ n \in Trigger
    BY <1>5, TriggerSettles DEF RunInv, PassTrigger
  <2>2. ~DF!Halted(n) /\ n \notin disabled /\ status[n] = "pending"
    BY <2>1, GatherGoesOn
  <2>3. DF!Ready(n) /\ DF!Decide(n, "ok") /\ Received' = Received
    BY <1>0, <2>1, <2>2, TurnDecides, EarlyTurnReceives
  <2>4. DF!Arriving(n) = {}
    BY <2>1, KindAssumption DEF DF!Arriving, DF!Feeding, Feeding
  <2>5. Made' = Made \cup (Ports(n) \cap held \cap present)
    BY <1>5 DEF PassTrigger
  <2>6. Ports(n) \cap held \cap present \in SUBSET DF!Ports(n)
    BY DEF Ports, DF!Ports
  <2> QED BY <1>5, <2>2, <2>3, <2>4, <2>5, <2>6 DEF DF!Succeed, PassTrigger
<1> QED BY <1>1, <1>2, <1>3, <1>4, <1>5

\* The end of a component is one step of the abstract run: the store of the
\* executor holds exactly what the abstract run says was made.
LEMMA EndMaps ==
  ASSUME RunInv, NEW n \in Node
  PROVE  /\ FailStep(n) => DF!Fail(n)
         /\ FinishStep(n) => DF!Fail(n) \/ DF!Succeed(n)
<1>0. "ok" \in Ended /\ "failed" \in Ended
  BY DEF Ended, Halting
<1> USE DEF Made, Received
<1>1. ASSUME Settle(n, "failed", {}, size), status[n] = "running",
             UNCHANGED <<disabled, phase, verdict, recorded, present>>
      PROVE  DF!Fail(n)
  <2>1. /\ DF!Ready(n) /\ DF!Decide(n, "failed")
        /\ Received' = Received \cup DF!Arriving(n) /\ ~DF!Halted(n) /\ n \notin disabled
    BY <1>0, <1>1, TurnDecides, RunTurnReceives
  <2> QED BY <1>1, <2>1 DEF DF!Fail
<1>2. ASSUME FailStep(n) PROVE DF!Fail(n)
  <2>1. Settle(n, "failed", {}, size)
    BY <1>2, EarlySettles DEF RunInv
  <2> QED BY <1>1, <1>2, <2>1 DEF FailStep, Running
<1>3. ASSUME FinishStep(n) PROVE DF!Fail(n) \/ DF!Succeed(n)
  <2>1. status[n] = "running" /\ UNCHANGED <<disabled, phase, verdict>>
    BY <1>3 DEF FinishStep, Running
  <2>2. CASE Refused(n) /\ Settle(n, "failed", {}, size)
    BY <1>1, <2>1, <2>2 DEF Refused
  <2>3. ASSUME NEW S \in SUBSET Port, NEW sz \in [Port -> Nat], Settle(n, "ok", S, sz)
        PROVE  DF!Succeed(n)
    <3>1. /\ DF!Ready(n) /\ DF!Decide(n, "ok")
          /\ Received' = Received \cup DF!Arriving(n) /\ ~DF!Halted(n) /\ n \notin disabled
      BY <1>0, <2>1, <2>3, TurnDecides, RunTurnReceives
    <3>2. /\ recorded' = recorded \cup S /\ present \subseteq present'
          /\ present' \subseteq present \cup S /\ S \in SUBSET Ports(n)
      BY <2>3 DEF Settle
    <3>3. Made' = Made \cup (S \cap present')
      BY <3>2
    <3>4. S \cap present' \in SUBSET DF!Ports(n)
      BY <3>2 DEF Ports, DF!Ports
    <3> QED BY <2>1, <3>1, <3>3, <3>4 DEF DF!Succeed
  <2> QED BY <1>3, <2>2, <2>3, FinishSettles DEF RunInv
<1> QED BY <1>2, <1>3

\* Starting a step, asking the broker, Stop and the clock are not seen.
LEMMA UnseenMaps ==
  ASSUME RunInv, NEW n \in Node, StartStep(n) \/ AskBroker(n)
  PROVE  UNCHANGED DF!vars
<1>1. CASE StartStep(n)
  <2>1. /\ status[n] = "pending" /\ status' = [status EXCEPT ![n] = "running"]
        /\ delivered' = delivered \cup Arriving(n)
        /\ UNCHANGED <<disabled, phase, verdict, recorded, present>>
    BY <1>1 DEF StartStep, MayGather, Turn, storeVars
  <2>2. \A m \in Node : Unsettled(m)' <=> Unsettled(m)
    BY <2>1 DEF RunInv, TypeOK, Unsettled
  <2>3. AbstractOutcome' = AbstractOutcome
    <3>1. \A m \in Node : (IF Unsettled(m)' THEN "waiting" ELSE status'[m])
            = IF Unsettled(m) THEN "waiting" ELSE status[m]
      BY <2>1, <2>2 DEF RunInv, TypeOK, Unsettled
    <3> QED BY <3>1 DEF AbstractOutcome
  <2>4. Received' = Received
    <3>1. \A e \in Arriving(n) : Target[e] = n /\ Unsettled(n)
      BY <2>1 DEF Arriving, Feeding, Unsettled
    <3>2. \A e \in delivered : Target[e] \in Node
      BY ShapeAssumption DEF RunInv, TypeOK
    <3> QED BY <2>1, <2>2, <3>1, <3>2 DEF Received
  <2> QED BY <2>1, <2>3, <2>4 DEF DF!vars, Received
<1>2. CASE AskBroker(n)
  BY <1>2 DEF AskBroker, journalVars, storeVars, DF!vars, AbstractOutcome, Unsettled
<1> QED BY <1>1, <1>2

\* A panic loses the abstract run too.
LEMMA UnwindMaps ==
  ASSUME RunInv, NEW n \in Node, Unwind(n)
  PROVE  DF!Lose
<1>1. /\ phase = "walking" /\ phase' = "unwound" /\ status[n] = "running"
      /\ UNCHANGED <<disabled, status, recorded, present, delivered, verdict>>
  BY DEF Unwind, Running, journalVars, storeVars
<1>2. AbstractOutcome[n] = "waiting"
  BY <1>1 DEF AbstractOutcome, Unsettled
<1>3. AbstractOutcome' = AbstractOutcome /\ Received' = Received
  BY <1>1 DEF AbstractOutcome, Received, Unsettled
<1> QED BY <1>1, <1>2, <1>3 DEF DF!Lose, Received

\* The loop ends when every step is decided, and with the verdict that follows.
LEMMA FinishMaps ==
  ASSUME RunInv, RunInv', Finish
  PROVE  DF!Close
<1>1. /\ phase = "walking" /\ phase' = "finished" /\ verdict' = Verdict(status)
      /\ UNCHANGED <<disabled, status, recorded, present, delivered>>
  BY DEF Finish, storeVars
<1>2. \A n \in Node : ~Unsettled(n)
  BY <1>1 DEF RunInv, VerdictInv, Unsettled
<1>3. AbstractOutcome = status
  <2>1. status = [n \in Node |-> status[n]]
    BY DEF RunInv, TypeOK
  <2> QED BY <1>2, <2>1 DEF AbstractOutcome
<1>4. \A n \in Node : AbstractOutcome[n] # "waiting"
  BY <1>2, <1>3 DEF RunInv, TypeOK, NodeStatus, Ended, Halting
<1>5. AbstractOutcome' = AbstractOutcome /\ Received' = Received
  BY <1>1 DEF AbstractOutcome, Received, Unsettled
<1>6. verdict' = DF!Verdict(AbstractOutcome)
  BY <1>1, <1>3 DEF Verdict, DF!Verdict
<1> QED BY <1>1, <1>4, <1>5, <1>6 DEF DF!Close, Received

\* A run begins where an abstract run begins.
LEMMA InitMaps == Init => DF!Init
<1> SUFFICES ASSUME Init PROVE DF!Init
  OBVIOUS
<1>1. AbstractOutcome = [n \in Node |-> "waiting"]
  BY DEF Init, AbstractOutcome, Unsettled
<1>2. ClosedOff(disabled) => DF!ClosedOff(disabled)
  BY DEF ClosedOff, DF!ClosedOff
<1> QED BY <1>1, <1>2 DEF Init, DF!Init

\* Every step of a run is a step of the abstract run, or none.
LEMMA NextMaps == RunInv /\ RunInv' /\ [Next]_vars => [DF!Next]_(DF!vars)
<1> SUFFICES ASSUME RunInv, RunInv', [Next]_vars PROVE DF!Next \/ UNCHANGED DF!vars
  OBVIOUS
<1>1. ASSUME NEW n \in Node, \/ PassDisabled(n) \/ CancelStep(n) \/ SkipStep(n)
                             \/ FailGather(n) \/ PassTrigger(n)
                             \/ FailStep(n) \/ FinishStep(n)
      PROVE  DF!Next
  BY <1>1, EarlyMaps, EndMaps DEF DF!Next
<1>2. ASSUME NEW n \in Node, StartStep(n) \/ AskBroker(n) PROVE UNCHANGED DF!vars
  BY <1>2, UnseenMaps
<1>3. ASSUME NEW n \in Node, Unwind(n) PROVE DF!Next
  BY <1>3, UnwindMaps DEF DF!Next
<1>4. ASSUME Finish PROVE DF!Next
  BY <1>4, FinishMaps DEF DF!Next
<1>5. ASSUME PressStop \/ PassDeadline \/ UNCHANGED vars PROVE UNCHANGED DF!vars
  BY <1>5 DEF PressStop, PassDeadline, vars, graphVars, journalVars, storeVars, DF!vars,
              AbstractOutcome, Unsettled
<1> QED BY <1>1, <1>2, <1>3, <1>4, <1>5 DEF Next, Walk, EndComponent

\* The executor, with its order, its store of values, its releases, its budget,
\* Stop and the clock, implements the abstract run: each step is decided once,
\* after its producers, on exactly the values they made.
THEOREM RunImplementsDataflow == Spec => Implements
<1>1. Init => DF!Init
  BY InitMaps
<1>2. RunInv /\ RunInv' /\ [Next]_vars => [DF!Next]_(DF!vars)
  BY NextMaps
<1> QED BY <1>1, <1>2, InvariantHolds, PTL DEF Spec, Implements
=============================================================================
