---------------------------- MODULE CanvasProofs ----------------------------
(***************************************************************************)
(* What the canvas promises, for every set of components, every graph and  *)
(* every length of history: the types, the inductive invariant, the five   *)
(* properties of the documents that can come back, and that undo and redo  *)
(* are Timeline's.                                                         *)
(*                                                                         *)
(* Two functions of history.ts are loops over a sequence. What they return *)
(* is proved by taking the first round at which it would fail: the library *)
(* of theorems knows that sets of numbers have a least element.            *)
(***************************************************************************)
EXTENDS Canvas, SequenceTheorems, FiniteSetTheorems, WellFoundedInduction, TLAPS

---------------------------------------------------------------------------
(***************************************************************************)
(* Loops.                                                                  *)
(***************************************************************************)
\* A set of numbers that is not empty has a least.
LEMMA LeastNatural ==
  ASSUME NEW T \in SUBSET Nat, T # {}
  PROVE  \E n \in T : \A m \in T : n <= m
<1> DEFINE Below == {0 .. n : n \in T}
<1>1. IsWellFoundedOn(StrictSubsetOrdering(Nat), FiniteSubsetsOf(Nat))
  BY FS_StrictSubsetOrderingWellFounded
<1>2. \A n \in Nat : 0 .. n \in FiniteSubsetsOf(Nat)
  BY FS_Interval DEF FiniteSubsetsOf
<1>3. Below \subseteq FiniteSubsetsOf(Nat) /\ Below # {}
  BY <1>2
<1>4. \E x \in Below : \A y \in Below : ~(<<y, x>> \in StrictSubsetOrdering(Nat))
  <2> HIDE DEF Below
  <2> QED BY <1>1, <1>3, WFMin
<1>5. PICK n \in T : \A m \in T : ~(<<0 .. m, 0 .. n>> \in StrictSubsetOrdering(Nat))
  BY <1>4
<1>6. ASSUME NEW m \in T, m < n
      PROVE  <<0 .. m, 0 .. n>> \in StrictSubsetOrdering(Nat)
  <2>1. 0 .. m \subseteq 0 .. n /\ n \in 0 .. n /\ n \notin 0 .. m
    BY <1>6
  <2>2. 0 .. m \in SUBSET Nat /\ 0 .. n \in SUBSET Nat
    OBVIOUS
  <2>3. 0 .. m # 0 .. n
    BY <2>1
  <2> QED BY <2>1, <2>2, <2>3 DEF StrictSubsetOrdering
<1>7. \A m \in T : m \in Nat
  OBVIOUS
<1>8. ASSUME NEW m \in T
      PROVE  n <= m
  <2>1. m \in Nat /\ n \in Nat
    BY <1>7
  <2>2. ~(m < n)
    BY <1>5, <1>6
  <2> QED BY <2>1, <2>2
<1> QED BY <1>5, <1>8

\* What is so before a loop, and stays so from each round to the next, is so to its end.
LEMMA Upward ==
  ASSUME NEW n \in Nat, NEW T,
         0 \in T, \A i \in 1 .. n : i - 1 \in T => i \in T
  PROVE  0 .. n \subseteq T
<1> SUFFICES ASSUME (0 .. n) \ T # {} PROVE FALSE
  OBVIOUS
<1>1. (0 .. n) \ T \in SUBSET Nat
  OBVIOUS
<1>2. PICK i \in (0 .. n) \ T : \A m \in (0 .. n) \ T : i <= m
  BY <1>1, LeastNatural
<1>3. i # 0 /\ i \in 0 .. n
  OBVIOUS
<1>4. i \in 1 .. n /\ i - 1 \in 0 .. n /\ ~(i <= i - 1)
  BY <1>3
<1>5. i - 1 \in T
  BY <1>2, <1>4
<1> QED BY <1>2, <1>4, <1>5

\* A loop of n rounds: what it has after each of them, beginning with a.
Loop(n, S, a, g, f) ==
  /\ f \in [0 .. n -> S]
  /\ f[0] = a
  /\ \A i \in 1 .. n : f[i] = g[<<i, f[i - 1]>>]
Runs(n, S, a, g) == \E f : Loop(n, S, a, g, f)

\* A loop whose rounds lead from S to S can be run to its end.
LEMMA LoopRuns ==
  ASSUME NEW n \in Nat, NEW S, NEW a \in S, NEW g \in [(1 .. n) \X S -> S]
  PROVE  Runs(n, S, a, g)
<1> DEFINE T == {m \in 0 .. n : \E f \in [0 .. m -> S] :
                   f[0] = a /\ \A i \in 1 .. m : f[i] = g[<<i, f[i - 1]>>]}
<1>1. 0 \in T
  <2> DEFINE f == [i \in 0 .. 0 |-> a]
  <2>1. f \in [0 .. 0 -> S] /\ f[0] = a /\ 1 .. 0 = {} /\ 0 \in 0 .. n
    OBVIOUS
  <2> HIDE DEF f
  <2> QED BY <2>1
<1>2. ASSUME NEW m \in 1 .. n, m - 1 \in T
      PROVE  m \in T
  <2>1. PICK f \in [0 .. m - 1 -> S] :
          f[0] = a /\ \A i \in 1 .. m - 1 : f[i] = g[<<i, f[i - 1]>>]
    BY <1>2
  <2> DEFINE h == [i \in 0 .. m |-> IF i = m THEN g[<<m, f[m - 1]>>] ELSE f[i]]
  <2>2. m - 1 \in 0 .. m - 1 /\ f[m - 1] \in S
    OBVIOUS
  <2>3. g[<<m, f[m - 1]>>] \in S
    BY <2>2
  <2>4. h \in [0 .. m -> S]
    <3>1. ASSUME NEW i \in 0 .. m, i # m
          PROVE  f[i] \in S
      BY <3>1
    <3> QED BY <2>3, <3>1
  <2>5. ASSUME NEW i \in 1 .. m
        PROVE  h[i] = g[<<i, h[i - 1]>>]
    <3>1. i - 1 \in 0 .. m /\ i - 1 # m /\ i \in 0 .. m
      OBVIOUS
    <3>2. h[i - 1] = f[i - 1]
      BY <3>1
    <3>3. CASE i = m
      BY <3>1, <3>2, <3>3
    <3>4. CASE i # m
      <4>1. i \in 1 .. m - 1
        BY <3>4
      <4> QED BY <2>1, <3>1, <3>2, <3>4, <4>1
    <3> QED BY <3>3, <3>4
  <2>6. m \in 0 .. n /\ 0 \in 0 .. m /\ 0 # m
    OBVIOUS
  <2>7. h[0] = a
    BY <2>1, <2>6
  <2> HIDE DEF h
  <2> QED BY <2>4, <2>5, <2>6, <2>7
<1>3. 0 .. n \subseteq T
  <2> HIDE DEF T
  <2> QED BY <1>1, <1>2, Upward
<1> QED BY <1>3 DEF Runs, Loop

---------------------------------------------------------------------------
(***************************************************************************)
(* Filtering steps.                                                        *)
(***************************************************************************)
Distinct(ns) == \A i, j \in DOMAIN ns : ns[i].id = ns[j].id => i = j

\* The identifiers of no more than the first steps.
IdsTo(ns, m) == {ns[j].id : j \in 1 .. m}

LEMMA SteppedIds ==
  ASSUME NEW ns \in Seq(Node)
  PROVE  /\ Ids(ns) = IdsTo(ns, Len(ns)) /\ Ids(ns) \subseteq Id
         /\ DOMAIN ns = 1 .. Len(ns) /\ Len(ns) \in Nat
         /\ \A i \in DOMAIN ns : ns[i] \in Node /\ ns[i].id \in Id
<1>1. DOMAIN ns = 1 .. Len(ns) /\ Len(ns) \in Nat
  OBVIOUS
<1>2. \A i \in DOMAIN ns : ns[i] \in Node
  OBVIOUS
<1>3. \A i \in DOMAIN ns : ns[i].id \in Id
  BY <1>2 DEF Node
<1> QED BY <1>1, <1>2, <1>3 DEF Ids, IdsTo

\* The steps there are have finitely many names.
LEMMA FinitelyManyIds ==
  ASSUME NEW ns \in Seq(Node)
  PROVE  IsFiniteSet(Ids(ns))
<1> DEFINE f == [i \in 1 .. Len(ns) |-> ns[i].id]
<1>1. f \in Surjection(1 .. Len(ns), Ids(ns))
  BY SteppedIds DEF Surjection, Ids
<1>2. IsFiniteSet(1 .. Len(ns))
  BY FS_Interval
<1> QED BY <1>1, <1>2, FS_Surjection

\* The loop of Kept.
Keeping(ns, ids, f) ==
  f = [i \in 0 .. Len(ns) |->
         IF i = 0 THEN <<>>
         ELSE IF ns[i].id \in ids THEN Append(f[i - 1], ns[i]) ELSE f[i - 1]]

LEMMA KeptIsALoop ==
  ASSUME NEW ns \in Seq(Node), NEW ids
  PROVE  \E f : Keeping(ns, ids, f) /\ Kept(ns, ids) = f[Len(ns)]
<1> DEFINE n == Len(ns)
           g == [x \in (1 .. n) \X Seq(Node) |->
                   IF ns[x[1]].id \in ids THEN Append(x[2], ns[x[1]]) ELSE x[2]]
           kept == CHOOSE kept : kept = [i \in 0 .. Len(ns) |->
                     IF i = 0 THEN <<>>
                     ELSE IF ns[i].id \in ids THEN Append(kept[i - 1], ns[i]) ELSE kept[i - 1]]
<1>1. n \in Nat /\ <<>> \in Seq(Node)
  OBVIOUS
<1>2. g \in [(1 .. n) \X Seq(Node) -> Seq(Node)]
  <2>1. ASSUME NEW i \in 1 .. n, NEW s \in Seq(Node)
        PROVE  Append(s, ns[i]) \in Seq(Node)
    BY SteppedIds
  <2> QED BY <2>1
<1>3. PICK f : Loop(n, Seq(Node), <<>>, g, f)
  <2> HIDE DEF n, g, kept
  <2>1. Runs(n, Seq(Node), <<>>, g)
    BY <1>1, <1>2, LoopRuns
  <2> QED BY <2>1 DEF Runs
<1>4. ASSUME NEW i \in 0 .. n
      PROVE  f[i] = IF i = 0 THEN <<>>
                    ELSE IF ns[i].id \in ids THEN Append(f[i - 1], ns[i]) ELSE f[i - 1]
  <2>1. CASE i = 0
    BY <1>3, <2>1 DEF Loop
  <2>2. CASE i # 0
    <3>1. i \in 1 .. n /\ i - 1 \in 0 .. n
      BY <2>2
    <3>2. f[i - 1] \in Seq(Node)
      BY <1>3, <3>1 DEF Loop
    <3>3. f[i] = g[<<i, f[i - 1]>>]
      BY <1>3, <3>1, Zenon DEF Loop
    <3>4. <<i, f[i - 1]>> \in (1 .. n) \X Seq(Node)
      BY <3>1, <3>2
    <3> QED BY <2>2, <3>3, <3>4
  <2> QED BY <2>1, <2>2
<1>5. Keeping(ns, ids, f)
  <2> HIDE DEF g
  <2> QED BY <1>3, <1>4 DEF Keeping, Loop
<1>6. Keeping(ns, ids, kept)
  BY <1>5, Zenon DEF Keeping
<1>7. Kept(ns, ids) = kept[n]
  BY Zenon DEF Kept
<1> HIDE DEF kept
<1> QED BY <1>6, <1>7

\* Filtering leaves steps that were there, exactly those asked for, and no name twice.
LEMMA KeptSteps ==
  ASSUME NEW ns \in Seq(Node), NEW ids
  PROVE  /\ Kept(ns, ids) \in Seq(Node)
         /\ Ids(Kept(ns, ids)) = Ids(ns) \cap ids
         /\ \A i \in DOMAIN Kept(ns, ids) : \E j \in DOMAIN ns : Kept(ns, ids)[i] = ns[j]
         /\ Distinct(ns) => Distinct(Kept(ns, ids))
<1>1. PICK f : Keeping(ns, ids, f) /\ Kept(ns, ids) = f[Len(ns)]
  BY KeptIsALoop
<1> DEFINE T == {i \in 0 .. Len(ns) :
                   /\ f[i] \in Seq(Node)
                   /\ Ids(f[i]) = IdsTo(ns, i) \cap ids
                   /\ \A k \in DOMAIN f[i] : \E j \in DOMAIN ns : f[i][k] = ns[j]
                   /\ Distinct(ns) => Distinct(f[i])}
<1>2. Len(ns) \in Nat /\ DOMAIN ns = 1 .. Len(ns)
  OBVIOUS
<1>3. 0 \in T
  <2>1. f[0] = <<>>
    BY <1>1, <1>2 DEF Keeping
  <2>2. DOMAIN f[0] = {} /\ f[0] \in Seq(Node)
    BY <2>1
  <2>3. 1 .. 0 = {}
    OBVIOUS
  <2>4. Ids(f[0]) = IdsTo(ns, 0) \cap ids
    BY <2>2, <2>3 DEF Ids, IdsTo
  <2>5. Distinct(f[0])
    BY <2>2 DEF Distinct
  <2> QED BY <1>2, <2>2, <2>4, <2>5
<1>4. ASSUME NEW i \in 1 .. Len(ns), i - 1 \in T
      PROVE  i \in T
  <2> DEFINE s == f[i - 1]
  <2>1. f[i] = IF ns[i].id \in ids THEN Append(s, ns[i]) ELSE s
    <3>1. i \in 0 .. Len(ns) /\ i # 0
      BY <1>2
    <3> QED BY <1>1, <3>1 DEF Keeping
  <2>2. /\ s \in Seq(Node)
        /\ Ids(s) = IdsTo(ns, i - 1) \cap ids
        /\ \A k \in DOMAIN s : \E j \in DOMAIN ns : s[k] = ns[j]
        /\ Distinct(ns) => Distinct(s)
    BY <1>4
  <2>3. IdsTo(ns, i) = IdsTo(ns, i - 1) \cup {ns[i].id}
    <3>1. 1 .. i = (1 .. i - 1) \cup {i}
      OBVIOUS
    <3> QED BY <3>1 DEF IdsTo
  <2>4. ns[i] \in Node /\ i \in DOMAIN ns /\ i \in 0 .. Len(ns)
    BY <1>2
  <2> HIDE DEF s, T
  <2>5. CASE ns[i].id \in ids
    <3>1. /\ Append(s, ns[i]) \in Seq(Node)
          /\ DOMAIN s = 1 .. Len(s) /\ Len(s) \in Nat
          /\ DOMAIN Append(s, ns[i]) = 1 .. Len(s) + 1
          /\ \A k \in 1 .. Len(s) : Append(s, ns[i])[k] = s[k]
          /\ Append(s, ns[i])[Len(s) + 1] = ns[i]
      BY <2>2, <2>4
    <3>2. 1 .. Len(s) + 1 = (1 .. Len(s)) \cup {Len(s) + 1}
      BY <3>1
    <3>3. Ids(f[i]) = Ids(s) \cup {ns[i].id}
      BY <2>1, <2>5, <3>1, <3>2 DEF Ids
    <3>4. \A k \in DOMAIN f[i] : \E j \in DOMAIN ns : f[i][k] = ns[j]
      BY <2>1, <2>2, <2>4, <2>5, <3>1, <3>2
    <3>5. ASSUME Distinct(ns)
          PROVE  Distinct(f[i])
      <4>1. ns[i].id \notin Ids(s)
        <5>1. ASSUME NEW j \in 1 .. i - 1
              PROVE  ns[j].id # ns[i].id
          <6>1. j \in DOMAIN ns /\ j # i
            BY <1>2
          <6> QED BY <2>4, <3>5, <6>1 DEF Distinct
        <5>2. ns[i].id \notin IdsTo(ns, i - 1)
          BY <5>1 DEF IdsTo
        <5> QED BY <2>2, <5>2
      <4>2. \A k \in 1 .. Len(s) : s[k].id # ns[i].id
        BY <3>1, <4>1 DEF Ids
      <4>3. Distinct(s)
        BY <2>2, <3>5
      <4> QED BY <2>1, <2>5, <3>1, <3>2, <4>2, <4>3 DEF Distinct
    <3>6. Ids(f[i]) = IdsTo(ns, i) \cap ids
      BY <2>2, <2>3, <2>5, <3>3
    <3>7. f[i] \in Seq(Node)
      BY <2>1, <2>5, <3>1
    <3> QED BY <2>4, <3>4, <3>5, <3>6, <3>7 DEF T
  <2>6. CASE ns[i].id \notin ids
    <3>1. f[i] = s
      BY <2>1, <2>6
    <3>2. Ids(s) = IdsTo(ns, i) \cap ids
      BY <2>2, <2>3, <2>6
    <3> QED BY <2>2, <2>4, <3>1, <3>2 DEF T
  <2> QED BY <2>5, <2>6
<1>5. Len(ns) \in T
  <2> HIDE DEF T
  <2>1. 0 .. Len(ns) \subseteq T
    BY <1>2, <1>3, <1>4, Upward
  <2> QED BY <1>2, <2>1
<1>6. Ids(ns) = IdsTo(ns, Len(ns))
  BY SteppedIds
<1> QED BY <1>1, <1>5, <1>6

---------------------------------------------------------------------------
(***************************************************************************)
(* New names for copies.                                                   *)
(***************************************************************************)
\* A name that was copied tells which one it is a copy of, and which copy.
LEMMA CopyIsNew ==
  ASSUME NEW id \in Id, NEW k \in Nat
  PROVE  /\ Copy(id, k) \in Id
         /\ Copy(id, k).n # <<>>
         /\ id.n # <<>> => Copy(id, k).n[1] = id.n[1]
         /\ \A j \in Nat : Copy(id, j) = Copy(id, k) => j = k
<1>1. id.n \in Seq(Nat) /\ id.of \in Component /\ id = [of |-> id.of, n |-> id.n]
  BY DEF Id
<1>2. ASSUME NEW j \in Nat
      PROVE  Copy(id, j) = [of |-> id.of, n |-> Append(id.n, j)]
  <2> DEFINE longer == Append(id.n, j)
  <2>1. Copy(id, j) = [id EXCEPT !.n = longer]
    BY DEF Copy
  <2> HIDE DEF longer
  <2>2. [id EXCEPT !.n = longer] = [of |-> id.of, n |-> longer]
    BY <1>1
  <2> QED BY <2>1, <2>2 DEF longer
<1>3. ASSUME NEW j \in Nat
      PROVE  /\ Append(id.n, j) \in Seq(Nat)
             /\ Len(id.n) \in Nat /\ Len(Append(id.n, j)) = Len(id.n) + 1
             /\ Append(id.n, j)[Len(id.n) + 1] = j
             /\ id.n # <<>> => 1 \in 1 .. Len(id.n) /\ Append(id.n, j)[1] = id.n[1]
  BY <1>1
<1>4. Copy(id, k) \in Id
  <2> DEFINE longer == Append(id.n, k)
  <2>1. longer \in Seq(Nat) /\ Copy(id, k) = [of |-> id.of, n |-> longer]
    BY <1>2, <1>3
  <2> HIDE DEF longer
  <2> QED BY <1>1, <2>1 DEF Id
<1>5. Copy(id, k).n = Append(id.n, k)
  BY <1>2
<1>6. Copy(id, k).n # <<>>
  BY <1>3, <1>5
<1>7. id.n # <<>> => Copy(id, k).n[1] = id.n[1]
  BY <1>3, <1>5
<1>8. ASSUME NEW j \in Nat, Copy(id, j) = Copy(id, k)
      PROVE  j = k
  <2>1. Append(id.n, j) = Append(id.n, k)
    BY <1>2, <1>8
  <2> QED BY <1>3, <2>1
<1> QED BY <1>4, <1>6, <1>7, <1>8

\* Of one more names than there are taken ones, one is free: the search ends.
LEMMA FreshIsFree ==
  ASSUME NEW id \in Id, NEW taken, IsFiniteSet(taken)
  PROVE  Fresh(id, taken) \notin taken /\ \E k \in Nat : Fresh(id, taken) = Copy(id, k)
<1> DEFINE C == Cardinality(taken)
           T == {k \in 1 .. C + 1 : Copy(id, k) \notin taken}
<1>1. C \in Nat
  BY FS_CardinalityType
<1>2. T # {}
  <2> SUFFICES ASSUME \A k \in 1 .. C + 1 : Copy(id, k) \in taken PROVE FALSE
    OBVIOUS
  <2> DEFINE f == [k \in 1 .. C + 1 |-> Copy(id, k)]
  <2>1. f \in [1 .. C + 1 -> taken]
    OBVIOUS
  <2>2. IsFiniteSet(1 .. C + 1) /\ Cardinality(1 .. C + 1) = C + 1
    BY <1>1, FS_Interval
  <2>3. Cardinality(taken) < Cardinality(1 .. C + 1)
    BY <1>1, <2>2
  <2>4. PICK x, y \in 1 .. C + 1 : x # y /\ f[x] = f[y]
    <3> HIDE DEF f, C
    <3> QED BY <2>1, <2>2, <2>3, FS_PigeonHole
  <2>5. Copy(id, x) = Copy(id, y) /\ x \in Nat /\ y \in Nat
    BY <1>1, <2>4
  <2> QED BY <2>4, <2>5, CopyIsNew
<1>3. T \in SUBSET Nat
  BY <1>1
<1>4. PICK k \in T : \A j \in T : k <= j
  BY <1>2, <1>3, LeastNatural
<1>5. ASSUME NEW j \in 1 .. k - 1
      PROVE  Copy(id, j) \in taken
  <2>1. j \in 1 .. C + 1 /\ ~(k <= j)
    BY <1>1, <1>4
  <2> QED BY <1>4, <2>1
<1>6. k \in 1 .. C + 1 /\ Copy(id, k) \notin taken /\ \A j \in 1 .. k - 1 : Copy(id, j) \in taken
  BY <1>4, <1>5
<1> DEFINE c == CHOOSE k_1 \in 1 .. C + 1 :
                  /\ Copy(id, k_1) \notin taken
                  /\ \A j \in 1 .. k_1 - 1 : Copy(id, j) \in taken
<1>7. c \in 1 .. C + 1 /\ Copy(id, c) \notin taken
  <2> HIDE DEF C
  <2> QED BY <1>6, Zenon
<1>8. Fresh(id, taken) = Copy(id, c)
  BY Zenon DEF Fresh
<1>9. c \in Nat
  <2> HIDE DEF c
  <2> QED BY <1>1, <1>7
<1> HIDE DEF c
<1> QED BY <1>7, <1>8, <1>9

\* What the loop of Renaming has after some rounds.
RenamingSoFar == [taken : SUBSET Id, to : UNION {[D -> Id] : D \in SUBSET Id}]

LEMMA OneRenaming ==
  ASSUME NEW id \in Id, NEW old \in RenamingSoFar, IsFiniteSet(old.taken)
  PROVE  LET new == Fresh(id, old.taken) IN
         /\ Renamed(id, old) \in RenamingSoFar /\ IsFiniteSet(Renamed(id, old).taken)
         /\ Renamed(id, old).taken = old.taken \cup {new, id}
         /\ DOMAIN Renamed(id, old).to = DOMAIN old.to \cup {id}
         /\ Renamed(id, old).to[id] = new
         /\ \A x \in DOMAIN old.to \ {id} : Renamed(id, old).to[x] = old.to[x]
         /\ new \in Id /\ new \notin old.taken /\ \E k \in Nat : new = Copy(id, k)
<1> DEFINE new == Fresh(id, old.taken)
           to  == [x \in DOMAIN old.to \cup {id} |-> IF x = id THEN new ELSE old.to[x]]
<1>1. new \notin old.taken /\ \E k \in Nat : new = Copy(id, k)
  BY FreshIsFree
<1>2. new \in Id
  BY <1>1, CopyIsNew
<1> HIDE DEF new
<1>3. PICK D \in SUBSET Id : old.to \in [D -> Id]
  BY DEF RenamingSoFar
<1>4. old.taken \in SUBSET Id
  BY DEF RenamingSoFar
<1>5. to \in [D \cup {id} -> Id] /\ D \cup {id} \in SUBSET Id
  BY <1>2, <1>3
<1>6. Renamed(id, old) = [taken |-> old.taken \cup {new, id}, to |-> to]
  BY Zenon DEF Renamed, new
<1>7. /\ DOMAIN to = DOMAIN old.to \cup {id} /\ to[id] = new
      /\ \A x \in DOMAIN old.to \ {id} : to[x] = old.to[x]
  OBVIOUS
<1>8. IsFiniteSet(old.taken \cup {new, id})
  <2>1. IsFiniteSet({new}) /\ IsFiniteSet({id})
    BY FS_Singleton
  <2>2. IsFiniteSet(old.taken \cup {new})
    BY <2>1, FS_Union
  <2>3. IsFiniteSet((old.taken \cup {new}) \cup {id})
    BY <2>1, <2>2, FS_Union
  <2>4. (old.taken \cup {new}) \cup {id} = old.taken \cup {new, id}
    OBVIOUS
  <2> QED BY <2>3, <2>4
<1> HIDE DEF to
<1>9. to \in UNION {[E -> Id] : E \in SUBSET Id}
  BY <1>5
<1>10. Renamed(id, old) \in RenamingSoFar
  BY <1>2, <1>4, <1>6, <1>9 DEF RenamingSoFar
<1> QED BY <1>1, <1>2, <1>6, <1>7, <1>8, <1>10 DEF new

\* The loop of Renaming.
Renames(ns, existing, f) ==
  f = [i \in 0 .. Len(ns) |->
         IF i = 0 THEN [taken |-> existing, to |-> <<>>] ELSE Renamed(ns[i].id, f[i - 1])]

LEMMA RenamingIsALoop ==
  ASSUME NEW ns \in Seq(Node), NEW existing \in SUBSET Id, IsFiniteSet(existing)
  PROVE  \E f : Renames(ns, existing, f) /\ Renaming(ns, existing) = f[Len(ns)].to
<1> DEFINE n == Len(ns)
           S == {s \in RenamingSoFar : IsFiniteSet(s.taken)}
           a == [taken |-> existing, to |-> <<>>]
           g == [x \in (1 .. n) \X S |-> Renamed(ns[x[1]].id, x[2])]
           step == CHOOSE step : step = [i \in 0 .. Len(ns) |->
                     IF i = 0 THEN [taken |-> existing, to |-> <<>>]
                     ELSE Renamed(ns[i].id, step[i - 1])]
<1>1. n \in Nat
  OBVIOUS
<1>2. a \in S
  <2>1. <<>> \in [{} -> Id]
    OBVIOUS
  <2> QED BY <2>1 DEF RenamingSoFar
<1>3. g \in [(1 .. n) \X S -> S]
  <2>1. ASSUME NEW i \in 1 .. n, NEW s \in S
        PROVE  Renamed(ns[i].id, s) \in S
    <3>1. ns[i].id \in Id
      BY SteppedIds
    <3> QED BY <3>1, OneRenaming
  <2> HIDE DEF S
  <2> QED BY <2>1
<1>4. PICK f : Loop(n, S, a, g, f)
  <2> HIDE DEF n, S, a, g, step
  <2>1. Runs(n, S, a, g)
    BY <1>1, <1>2, <1>3, LoopRuns
  <2> QED BY <2>1 DEF Runs
<1>5. ASSUME NEW i \in 0 .. n
      PROVE  f[i] = IF i = 0 THEN a ELSE Renamed(ns[i].id, f[i - 1])
  <2> HIDE DEF S, a, n
  <2>1. CASE i = 0
    BY <1>4, <2>1 DEF Loop
  <2>2. CASE i # 0
    <3>1. i \in 1 .. n /\ i - 1 \in 0 .. n
      BY <1>1, <2>2
    <3>2. f[i - 1] \in S
      BY <1>4, <3>1 DEF Loop
    <3>3. f[i] = g[<<i, f[i - 1]>>]
      BY <1>4, <3>1, Zenon DEF Loop
    <3>4. <<i, f[i - 1]>> \in (1 .. n) \X S
      BY <3>1, <3>2
    <3> QED BY <2>2, <3>3, <3>4
  <2> QED BY <2>1, <2>2
<1>6. Renames(ns, existing, f)
  <2> HIDE DEF g, S
  <2> QED BY <1>4, <1>5 DEF Renames, Loop
<1>7. Renames(ns, existing, step)
  BY <1>6, Zenon DEF Renames
<1>8. Renaming(ns, existing) = step[n].to
  BY Zenon DEF Renaming
<1> HIDE DEF step
<1> QED BY <1>7, <1>8

\* Every step is renamed to a copy of its own name, which no step has yet and no
\* other step is given.
LEMMA RenamingIsFresh ==
  ASSUME NEW ns \in Seq(Node), NEW existing \in SUBSET Id, IsFiniteSet(existing)
  PROVE  LET to == Renaming(ns, existing) IN
         /\ to \in [Ids(ns) -> Id]
         /\ \A x \in Ids(ns) : to[x] \notin existing /\ \E k \in Nat : to[x] = Copy(x, k)
         /\ \A x, y \in Ids(ns) : to[x] = to[y] => x = y
<1>1. PICK f : Renames(ns, existing, f) /\ Renaming(ns, existing) = f[Len(ns)].to
  BY RenamingIsALoop
<1> DEFINE Good(i, s) ==
             /\ s \in RenamingSoFar /\ IsFiniteSet(s.taken)
             /\ existing \subseteq s.taken
             /\ DOMAIN s.to = IdsTo(ns, i)
             /\ \A x \in DOMAIN s.to : /\ s.to[x] \in s.taken \ existing
                                       /\ \E k \in Nat : s.to[x] = Copy(x, k)
             /\ \A x, y \in DOMAIN s.to : s.to[x] = s.to[y] => x = y
           T == {i \in 0 .. Len(ns) : Good(i, f[i])}
<1>2. Len(ns) \in Nat /\ DOMAIN ns = 1 .. Len(ns)
  OBVIOUS
<1>3. 0 \in T
  <2> DEFINE a == [taken |-> existing, to |-> <<>>]
  <2>1. f[0] = a
    BY <1>1, <1>2 DEF Renames
  <2>2. a.taken = existing /\ DOMAIN a.to = {} /\ a.to \in [{} -> Id]
    OBVIOUS
  <2>3. a \in RenamingSoFar
    BY <2>2 DEF RenamingSoFar
  <2>4. IdsTo(ns, 0) = {}
    <3>1. 1 .. 0 = {}
      OBVIOUS
    <3> QED BY <3>1 DEF IdsTo
  <2> HIDE DEF a
  <2>5. Good(0, a)
    BY <2>2, <2>3, <2>4
  <2> QED BY <1>2, <2>1, <2>5
<1>4. ASSUME NEW i \in 1 .. Len(ns), i - 1 \in T
      PROVE  i \in T
  <2> DEFINE s   == f[i - 1]
             id  == ns[i].id
             r   == Renamed(id, s)
             new == Fresh(id, s.taken)
  <2>1. f[i] = r
    <3>1. i \in 0 .. Len(ns) /\ i # 0
      BY <1>2
    <3> QED BY <1>1, <3>1 DEF Renames
  <2>2. Good(i - 1, s)
    BY <1>4
  <2>3. id \in Id
    BY SteppedIds
  <2>4. IdsTo(ns, i) = IdsTo(ns, i - 1) \cup {id}
    <3>1. 1 .. i = (1 .. i - 1) \cup {i}
      OBVIOUS
    <3> QED BY <3>1 DEF IdsTo
  <2>5. /\ r \in RenamingSoFar /\ IsFiniteSet(r.taken)
        /\ r.taken = s.taken \cup {new, id}
        /\ DOMAIN r.to = DOMAIN s.to \cup {id}
        /\ r.to[id] = new
        /\ \A x \in DOMAIN s.to \ {id} : r.to[x] = s.to[x]
        /\ new \notin s.taken /\ \E k \in Nat : new = Copy(id, k)
    BY <2>2, <2>3, OneRenaming
  <2> HIDE DEF s, id, r, new
  <2>6. existing \subseteq r.taken /\ DOMAIN r.to = IdsTo(ns, i)
    BY <2>2, <2>4, <2>5
  <2>7. ASSUME NEW x \in DOMAIN r.to
        PROVE  r.to[x] \in r.taken \ existing /\ \E k \in Nat : r.to[x] = Copy(x, k)
    <3>1. CASE x = id
      BY <2>2, <2>5, <3>1
    <3>2. CASE x # id
      <4>1. x \in DOMAIN s.to /\ r.to[x] = s.to[x]
        BY <2>5, <3>2
      <4> QED BY <2>2, <2>5, <4>1
    <3> QED BY <3>1, <3>2
  <2>8. ASSUME NEW x \in DOMAIN r.to, NEW y \in DOMAIN r.to, r.to[x] = r.to[y]
        PROVE  x = y
    <3>1. \A z \in DOMAIN r.to : z = id \/ (z \in DOMAIN s.to /\ r.to[z] = s.to[z] /\ s.to[z] # new)
      BY <2>2, <2>5
    <3> QED BY <2>2, <2>5, <2>8, <3>1
  <2>9. Good(i, r)
    BY <2>5, <2>6, <2>7, <2>8
  <2>10. i \in 0 .. Len(ns)
    BY <1>2
  <2> HIDE DEF Good
  <2> QED BY <2>1, <2>9, <2>10
<1>5. Good(Len(ns), f[Len(ns)])
  <2> HIDE DEF Good
  <2>1. 0 .. Len(ns) \subseteq T
    <3> HIDE DEF T
    <3> QED BY <1>2, <1>3, <1>4, Upward
  <2> QED BY <1>2, <2>1
<1> DEFINE to == f[Len(ns)].to
<1>6. DOMAIN to = Ids(ns)
  BY <1>5, SteppedIds
<1>7. PICK D \in SUBSET Id : to \in [D -> Id]
  BY <1>5 DEF RenamingSoFar
<1>8. to \in [Ids(ns) -> Id]
  <2> HIDE DEF to
  <2> QED BY <1>6, <1>7
<1> QED BY <1>1, <1>5, <1>6, <1>8

---------------------------------------------------------------------------
(***************************************************************************)
(* What is said of a graph, and what copying and pasting make of it.       *)
(***************************************************************************)
\* No end is fed twice.
OneFeed(es) == \A e, f \in es : e.target = f.target => e = f

\* The connections are between these steps.
Fastened(es, ids) == \A e \in es : {e.source, e.target} \subseteq ids

\* Every step was placed in this session, or is a copy of one that was.
Rooted(ns, next) == \A i \in DOMAIN ns : ns[i].id.n # <<>> /\ ns[i].id.n[1] \in 1 .. next - 1

LEMMA CutSteps ==
  ASSUME NEW ns \in Seq(Node), NEW es \in SUBSET Edge, NEW sel \in SUBSET Ids(ns), NEW next
  PROVE  LET clip == cut(ns, es, sel) IN
         /\ clip \in Clip
         /\ Ids(clip.nodes) = sel
         /\ clip.edges \subseteq es
         /\ Fastened(clip.edges, Ids(clip.nodes))
         /\ Distinct(ns) => Distinct(clip.nodes)
         /\ Rooted(ns, next) => Rooted(clip.nodes, next)
<1> DEFINE kept == Kept(ns, sel)
           left == {e \in es : e.source \in sel /\ e.target \in sel}
<1>1. cut(ns, es, sel) = [nodes |-> kept, edges |-> left]
  BY DEF cut
<1>2. /\ kept \in Seq(Node) /\ Ids(kept) = Ids(ns) \cap sel
      /\ \A i \in DOMAIN kept : \E j \in DOMAIN ns : kept[i] = ns[j]
      /\ Distinct(ns) => Distinct(kept)
  BY KeptSteps
<1>3. Ids(kept) = sel
  BY <1>2
<1> HIDE DEF kept
<1>4. left \in SUBSET Edge /\ left \subseteq es /\ Fastened(left, sel)
  BY DEF Fastened
<1>5. Rooted(ns, next) => Rooted(kept, next)
  BY <1>2 DEF Rooted
<1> HIDE DEF left
<1>6. [nodes |-> kept, edges |-> left] \in Clip
  BY <1>2, <1>4 DEF Clip
<1> QED BY <1>1, <1>2, <1>3, <1>4, <1>5, <1>6

LEMMA PastedSteps ==
  ASSUME NEW clip \in Clip, NEW existing \in SUBSET Id, IsFiniteSet(existing), NEW next
  PROVE  LET p == paste(clip, existing) IN
         /\ p \in Clip
         /\ Len(p.nodes) = Len(clip.nodes)
         /\ Ids(p.nodes) \cap existing = {}
         /\ Distinct(clip.nodes) => Distinct(p.nodes)
         /\ Rooted(clip.nodes, next) => Rooted(p.nodes, next)
         /\ Fastened(clip.edges, Ids(clip.nodes)) =>
              /\ Fastened(p.edges, Ids(p.nodes))
              /\ OneFeed(clip.edges) => OneFeed(p.edges)
<1> DEFINE ns == clip.nodes
           to == Renaming(ns, existing)
           end(id) == IF id \in DOMAIN to THEN to[id] ELSE id
           ms == [i \in DOMAIN ns |-> [ns[i] EXCEPT !.id = to[@]]]
           es == {[source |-> end(e.source), target |-> end(e.target)] : e \in clip.edges}
<1>1. paste(clip, existing) = [nodes |-> ms, edges |-> es]
  BY DEF paste
<1>2. ns \in Seq(Node) /\ clip.edges \in SUBSET Edge
  BY DEF Clip
<1>3. /\ to \in [Ids(ns) -> Id]
      /\ \A x \in Ids(ns) : to[x] \notin existing /\ \E k \in Nat : to[x] = Copy(x, k)
      /\ \A x, y \in Ids(ns) : to[x] = to[y] => x = y
  BY <1>2, RenamingIsFresh
<1>4. DOMAIN ns = 1 .. Len(ns) /\ Len(ns) \in Nat
  BY <1>2
<1> HIDE DEF to, ns
<1>5. ASSUME NEW i \in DOMAIN ns
      PROVE  /\ ns[i].id \in Ids(ns) /\ ns[i].id \in Id
             /\ ms[i] \in Node /\ ms[i].id = to[ns[i].id]
  <2>1. ns[i] \in Node /\ ns[i].id \in Ids(ns)
    BY <1>2 DEF Ids
  <2>2. to[ns[i].id] \in Id
    BY <1>3, <2>1
  <2> QED BY <2>1, <2>2 DEF Node
<1>6. ms \in Seq(Node) /\ DOMAIN ms = DOMAIN ns /\ Len(ms) = Len(ns)
  <2>1. ms \in [1 .. Len(ns) -> Node]
    BY <1>4, <1>5
  <2> HIDE DEF ms
  <2> QED BY <1>4, <2>1
<1>7. ASSUME NEW e \in clip.edges
      PROVE  end(e.source) \in Id /\ end(e.target) \in Id
  <2>1. e.source \in Id /\ e.target \in Id
    BY <1>2 DEF Edge
  <2> QED BY <1>3, <2>1
<1>8. es \in SUBSET Edge
  BY <1>7 DEF Edge
<1> HIDE DEF ms
<1>9. Ids(ms) = {to[x] : x \in Ids(ns)}
  BY <1>5, <1>6 DEF Ids
<1>10. Ids(ms) \cap existing = {}
  BY <1>3, <1>9
<1>11. ASSUME Distinct(ns)
       PROVE  Distinct(ms)
  BY <1>3, <1>5, <1>6, <1>11 DEF Distinct
<1>12. ASSUME Rooted(ns, next)
       PROVE  Rooted(ms, next)
  <2> SUFFICES ASSUME NEW i \in DOMAIN ms
               PROVE  ms[i].id.n # <<>> /\ ms[i].id.n[1] \in 1 .. next - 1
    BY DEF Rooted
  <2>1. i \in DOMAIN ns
    BY <1>6
  <2>2. PICK k \in Nat : to[ns[i].id] = Copy(ns[i].id, k)
    BY <1>3, <1>5, <2>1
  <2>3. ns[i].id.n # <<>> /\ ns[i].id.n[1] \in 1 .. next - 1
    BY <1>12, <2>1 DEF Rooted
  <2>4. ms[i].id = Copy(ns[i].id, k) /\ ns[i].id \in Id
    BY <1>5, <2>1, <2>2
  <2>5. Copy(ns[i].id, k).n # <<>> /\ Copy(ns[i].id, k).n[1] = ns[i].id.n[1]
    BY <2>3, <2>4, CopyIsNew
  <2> QED BY <2>3, <2>4, <2>5
<1>13. ASSUME Fastened(clip.edges, Ids(ns))
       PROVE  /\ Fastened(es, Ids(ms))
              /\ OneFeed(clip.edges) => OneFeed(es)
  <2>1. \A e \in clip.edges : e.source \in Ids(ns) /\ e.target \in Ids(ns)
    BY <1>13 DEF Fastened
  <2>2. \A e \in clip.edges : end(e.source) = to[e.source] /\ end(e.target) = to[e.target]
    BY <1>3, <2>1
  <2> HIDE DEF end
  <2>3. Fastened(es, Ids(ms))
    BY <1>9, <2>1, <2>2 DEF Fastened
  <2>4. ASSUME OneFeed(clip.edges), NEW e \in clip.edges, NEW f \in clip.edges,
               end(e.target) = end(f.target)
        PROVE  e = f
    BY <1>3, <2>1, <2>2, <2>4 DEF OneFeed
  <2>5. OneFeed(clip.edges) => OneFeed(es)
    BY <2>4 DEF OneFeed
  <2> QED BY <2>3, <2>5
<1> HIDE DEF es
<1>14. [nodes |-> ms, edges |-> es] \in Clip
  BY <1>6, <1>8 DEF Clip
<1> QED BY <1>1, <1>6, <1>10, <1>11, <1>12, <1>13, <1>14 DEF ns

---------------------------------------------------------------------------
(***************************************************************************)
(* Saving a graph and opening it.                                          *)
(***************************************************************************)
NamesOf(S) == {n.id : n \in S}
NamedApart(S) == \A m, n \in S : m.id = n.id => m = n

\* A file holds each step under its own name, and every name there was.
LEMMA FiledSteps ==
  ASSUME NEW ns \in Seq(Node), NEW es \in SUBSET Edge
  PROVE  LET g == toGraph(ns, es) IN
         /\ g \in Graph /\ g.edges = es
         /\ IsFiniteSet(g.nodes)
         /\ NamesOf(g.nodes) = Ids(ns)
         /\ NamedApart(g.nodes)
<1> DEFINE Last == {i \in DOMAIN ns : \A j \in DOMAIN ns : j > i => ns[j].id # ns[i].id}
           S    == {ns[i] : i \in Last}
<1>1. toGraph(ns, es) = [nodes |-> S, edges |-> es]
  BY DEF toGraph
<1>2. /\ DOMAIN ns = 1 .. Len(ns) /\ Len(ns) \in Nat
      /\ \A i \in DOMAIN ns : ns[i] \in Node
  BY SteppedIds
<1>3. S \in SUBSET Node
  BY <1>2
<1>4. IsFiniteSet(S)
  <2> DEFINE f == [i \in Last |-> ns[i]]
  <2>1. f \in Surjection(Last, S)
    BY DEF Surjection
  <2>2. IsFiniteSet(1 .. Len(ns))
    BY <1>2, FS_Interval
  <2>3. Last \in SUBSET (1 .. Len(ns))
    BY <1>2
  <2>4. IsFiniteSet(Last)
    <3> HIDE DEF Last
    <3> QED BY <2>2, <2>3, FS_Subset
  <2> HIDE DEF f, S, Last
  <2> QED BY <2>1, <2>4, FS_Surjection
<1>5. ASSUME NEW i \in DOMAIN ns
      PROVE  \E k \in Last : ns[k].id = ns[i].id
  <2> DEFINE T == {m \in Nat : \E j \in DOMAIN ns : ns[j].id = ns[i].id /\ m = Len(ns) - j}
  <2>1. Len(ns) - i \in T
    BY <1>2
  <2>2. PICK m \in T : \A l \in T : m <= l
    BY <2>1, LeastNatural
  <2>3. PICK k \in DOMAIN ns : ns[k].id = ns[i].id /\ m = Len(ns) - k
    BY <2>2
  <2>4. ASSUME NEW j \in DOMAIN ns, j > k, ns[j].id = ns[k].id
        PROVE  FALSE
    <3>1. Len(ns) - j \in T /\ ~(m <= Len(ns) - j)
      BY <1>2, <2>3, <2>4
    <3> QED BY <2>2, <3>1
  <2>5. k \in Last
    BY <2>4
  <2> QED BY <2>3, <2>5
<1>6. NamesOf(S) = Ids(ns)
  <2>1. \A i \in Last : ns[i].id \in Ids(ns)
    BY DEF Ids
  <2>2. \A i \in DOMAIN ns : ns[i].id \in NamesOf(S)
    BY <1>5 DEF NamesOf
  <2> QED BY <2>1, <2>2 DEF NamesOf, Ids
<1>7. NamedApart(S)
  <2> SUFFICES ASSUME NEW i \in Last, NEW j \in Last, ns[i].id = ns[j].id
               PROVE  i = j
    BY DEF NamedApart
  <2>1. i \in Nat /\ j \in Nat /\ ~(j > i) /\ ~(i > j)
    BY <1>2
  <2> QED BY <2>1
<1> HIDE DEF S
<1>8. [nodes |-> S, edges |-> es] \in Graph
  BY <1>3 DEF Graph
<1> QED BY <1>1, <1>4, <1>6, <1>7, <1>8

\* Opened in any order, the steps of a file are all there, each once.
LEMMA OrderedSteps ==
  ASSUME NEW S \in SUBSET Node, IsFiniteSet(S)
  PROVE  /\ Ordered(S) \in Seq(Node)
         /\ Ids(Ordered(S)) = NamesOf(S)
         /\ NamedApart(S) => Distinct(Ordered(S))
<1> DEFINE n  == Cardinality(S)
           ns == CHOOSE ns \in [1 .. n -> S] : {ns[i] : i \in DOMAIN ns} = S
<1>1. n \in Nat /\ ExistsBijection(1 .. n, S)
  BY FS_CardinalityType
<1>2. PICK f \in [1 .. n -> S] : {f[i] : i \in DOMAIN f} = S
  <2> HIDE DEF n
  <2>1. PICK f : f \in Surjection(1 .. n, S)
    BY <1>1, Zenon DEF ExistsBijection, Bijection
  <2>2. f \in [1 .. n -> S] /\ \A s \in S : \E i \in 1 .. n : f[i] = s
    BY <2>1 DEF Surjection
  <2>3. {f[i] : i \in DOMAIN f} = S
    BY <2>2
  <2> QED BY <2>2, <2>3
<1>3. ns \in [1 .. n -> S] /\ {ns[i] : i \in DOMAIN ns} = S
  <2> HIDE DEF n
  <2> QED BY <1>2, Zenon
<1>4. Ordered(S) = ns
  BY Zenon DEF Ordered
<1> HIDE DEF n, ns
<1>5. ns \in Seq(Node) /\ DOMAIN ns = 1 .. n
  BY <1>1, <1>3
<1>6. Ids(ns) = NamesOf(S)
  BY <1>3, <1>5 DEF Ids, NamesOf
<1>7. ns \in Surjection(1 .. n, S)
  BY <1>3, <1>5 DEF Surjection
<1>8. ns \in Injection(1 .. n, S)
  <2>1. IsFiniteSet(1 .. n) /\ Cardinality(1 .. n) = n
    BY <1>1, FS_Interval
  <2> QED BY <1>7, <2>1, FS_Surjection DEF n
<1>9. \A i, j \in 1 .. n : ns[i] = ns[j] => i = j
  BY <1>8 DEF Injection, IsInjective
<1>10. NamedApart(S) => Distinct(ns)
  BY <1>3, <1>5, <1>9 DEF NamedApart, Distinct
<1> QED BY <1>4, <1>5, <1>6, <1>10

---------------------------------------------------------------------------
(***************************************************************************)
(* The kinds of steps: what the actions do to the documents, without what  *)
(* the keyboard modes make of it.                                          *)
(***************************************************************************)
EditTo(ns, es, sel, lost) ==
  /\ nodes' = ns /\ edges' = es /\ selected' = sel
  /\ shown' = shown \cup {[nodes |-> ns, edges |-> es]}
  /\ overtaken' = (overtaken \/ saving # None)
  /\ history' \in {history, record(history, canvas)}
  /\ dirty' = TRUE
  /\ missed' = lost
  /\ edits < MaxEdits /\ edits' = edits + 1
  /\ UNCHANGED <<fileVars, nextId, mixed, clipboard>>

SameNames(ms) == Len(ms) = Len(nodes) /\ \A i \in DOMAIN nodes : ms[i].id = nodes[i].id

Amended   == \E ms \in Seq(Node), es \in SUBSET edges :
               SameNames(ms) /\ EditTo(ms, es, selected, missed)
Deleted   == \E gone : EditTo(Without(gone), Apart(gone), selected \ gone, missed)
Connected == \E s, t \in Id :
               EditTo(nodes, Joined(s, t), selected, missed \cup ({s, t} \ Ids(nodes)))

Placed == \E c \in Component, p \in Place : addNode(c, p) /\ UNCHANGED missed

Pasted == \E clip \in {clipboard, cut(nodes, edges, selected)} :
            pasteClipboard(clip) /\ clipboard' = clip /\ UNCHANGED missed

Revisited == (Undo \/ Redo) /\ UNCHANGED missed

\* Nothing that can be saved or undone.
Aside ==
  /\ selected' = selected \/ selected' \subseteq Ids(nodes)
  /\ clipboard' \in {clipboard, cut(nodes, edges, selected)}
  /\ UNCHANGED <<nodes, edges, fileVars, nextId, history, dirty, shown, overtaken, missed,
                 mixed, edits>>

Filed == SaveProject \/ SaveAnswered \/ SaveFailed

Kinds ==
  \/ Amended \/ Deleted \/ Connected \/ Placed \/ Pasted \/ Revisited \/ Aside \/ Filed
  \/ applyProject /\ UNCHANGED missed
  \/ NewProject /\ UNCHANGED missed
  \/ Restart

\* Whatever is changed in some steps, they stay steps with the names they have.
LEMMA WithKeepsNames ==
  ASSUME TypeOK, NEW ms,
         DOMAIN ms = DOMAIN nodes, ms \in [DOMAIN nodes -> Node],
         \A i \in DOMAIN nodes : ms[i].id = nodes[i].id
  PROVE  ms \in Seq(Node) /\ SameNames(ms)
<1>1. nodes \in Seq(Node)
  BY DEF TypeOK, Snapshot, canvas
<1>2. DOMAIN nodes = 1 .. Len(nodes) /\ Len(nodes) \in Nat
  BY <1>1
<1> QED BY <1>2 DEF SameNames

LEMMA AmendedByChange ==
  ASSUME TypeOK, NEW ms \in Seq(Node), NEW es \in SUBSET edges, SameNames(ms),
         Change(ms, es, selected), history' \in {history, record(history, canvas)},
         UNCHANGED <<nextId, mixed, missed>>
  PROVE  Amended
BY DEF Amended, EditTo, Change, Show

LEMMA TypedSteps ==
  ASSUME TypeOK
  PROVE  /\ nodes \in Seq(Node) /\ edges \in SUBSET Edge /\ selected \in SUBSET Id
         /\ DOMAIN nodes = 1 .. Len(nodes) /\ Len(nodes) \in Nat
         /\ Ids(nodes) \subseteq Id /\ IsFiniteSet(Ids(nodes))
         /\ \A i \in DOMAIN nodes : nodes[i] \in Node
         /\ SameNames(nodes)
<1>1. nodes \in Seq(Node) /\ edges \in SUBSET Edge /\ selected \in SUBSET Id
  BY DEF TypeOK, Snapshot, canvas
<1> QED BY <1>1, SteppedIds, FinitelyManyIds DEF SameNames

LEMMA StepsAreKinds ==
  ASSUME TypeOK, Steps
  PROVE  Kinds
<1> USE TypedSteps
<1>1. CASE \E c \in Component, p \in Place : addNode(c, p)
  <2>1. PICK c \in Component, p \in Place : addNode(c, p)
    BY <1>1
  <2>2. UNCHANGED missed
    BY <2>1 DEF addNode, Settle
  <2> QED BY <2>1, <2>2 DEF Kinds, Placed
<1>2. ASSUME NEW id, NEW value \in Config, setConfig(id, value)
      PROVE  Kinds
  <2> DEFINE ms == [i \in DOMAIN nodes |-> IF nodes[i].id \in {id}
                                           THEN [nodes[i] EXCEPT !.config = value] ELSE nodes[i]]
  <2>1. ms \in [DOMAIN nodes -> Node] /\ \A i \in DOMAIN nodes : ms[i].id = nodes[i].id
    BY DEF Node
  <2>2. ms \in Seq(Node) /\ SameNames(ms)
    BY <2>1, WithKeepsNames
  <2>3. Change(ms, edges, selected) /\ UNCHANGED <<history, nextId, mixed, missed>>
    BY <1>2 DEF setConfig, With, Unrecorded, Settle
  <2> HIDE DEF ms
  <2>4. Amended
    BY <2>2, <2>3, AmendedByChange
  <2> QED BY <2>4 DEF Kinds
<1>3. ASSUME NEW id, toggleDisabled(id)
      PROVE  Kinds
  <2> DEFINE ms == [i \in DOMAIN nodes |-> IF nodes[i].id \in {id}
                                           THEN [nodes[i] EXCEPT !.disabled = ~@] ELSE nodes[i]]
  <2>1. ms \in [DOMAIN nodes -> Node] /\ \A i \in DOMAIN nodes : ms[i].id = nodes[i].id
    BY DEF Node
  <2>2. ms \in Seq(Node) /\ SameNames(ms)
    BY <2>1, WithKeepsNames
  <2>3. Change(ms, edges, selected) /\ UNCHANGED <<history, nextId, mixed, missed>>
    BY <1>3 DEF toggleDisabled, With, Unrecorded, Settle
  <2> HIDE DEF ms
  <2>4. Amended
    BY <2>2, <2>3, AmendedByChange
  <2> QED BY <2>4 DEF Kinds
<1>4. ASSUME NEW chosen, toggleDisabledMany(chosen)
      PROVE  Kinds
  <2> DEFINE off == \E i \in DOMAIN nodes : nodes[i].id \in chosen /\ ~nodes[i].disabled
             ms  == [i \in DOMAIN nodes |-> IF nodes[i].id \in chosen
                                            THEN [nodes[i] EXCEPT !.disabled = off] ELSE nodes[i]]
  <2>1. Change(ms, edges, selected) /\ UNCHANGED <<history, nextId, mixed, missed>>
    BY <1>4 DEF toggleDisabledMany, With, Unrecorded, Settle
  <2>2. off \in BOOLEAN
    OBVIOUS
  <2> HIDE DEF off
  <2>3. ms \in [DOMAIN nodes -> Node] /\ \A i \in DOMAIN nodes : ms[i].id = nodes[i].id
    BY <2>2 DEF Node
  <2>4. ms \in Seq(Node) /\ SameNames(ms)
    BY <2>3, WithKeepsNames
  <2> HIDE DEF ms
  <2>5. Amended
    BY <2>1, <2>4, AmendedByChange
  <2> QED BY <2>5 DEF Kinds
<1>5. ASSUME NEW gone, deleteSteps(gone)
      PROVE  Kinds
  <2>1. Deleted
    BY <1>5 DEF deleteSteps, Deleted, EditTo, Change, Show, Recorded, Settle
  <2> QED BY <2>1 DEF Kinds
<1>6. CASE Select
  <2>1. selected' \subseteq Ids(nodes)
    BY <1>6 DEF Select
  <2>2. Aside
    BY <1>6, <2>1 DEF Select, Aside
  <2> QED BY <2>2 DEF Kinds
<1> QED BY <1>1, <1>2, <1>3, <1>4, <1>5, <1>6 DEF Steps

LEMMA ReportsAreKinds ==
  ASSUME TypeOK, Reports
  PROVE  Kinds
<1> USE TypedSteps
<1>1. CASE DragFrame
  <2>1. PICK id \in Ids(nodes), p \in Place :
          /\ Change(With({id}, LAMBDA n : [n EXCEPT !.at = p]), edges, selected)
          /\ UNCHANGED <<history, nextId, mixed, missed>>
    BY <1>1 DEF DragFrame, Unrecorded
  <2> DEFINE ms == [i \in DOMAIN nodes |-> IF nodes[i].id \in {id}
                                           THEN [nodes[i] EXCEPT !.at = p] ELSE nodes[i]]
  <2>2. ms \in [DOMAIN nodes -> Node] /\ \A i \in DOMAIN nodes : ms[i].id = nodes[i].id
    BY DEF Node
  <2>3. ms \in Seq(Node) /\ SameNames(ms)
    BY <2>2, WithKeepsNames
  <2>4. Change(ms, edges, selected)
    BY <2>1 DEF With
  <2> HIDE DEF ms
  <2>5. Amended
    BY <2>1, <2>3, <2>4, AmendedByChange
  <2> QED BY <2>5 DEF Kinds
<1>2. CASE DragEnd
  <2>1. Change(nodes, edges, selected) /\ history' = record(history, canvas)
    BY <1>2 DEF DragEnd, Recorded
  <2>2. UNCHANGED <<nextId, mixed, missed>>
    BY <1>2 DEF DragEnd
  <2>3. Amended
    BY <2>1, <2>2, AmendedByChange
  <2> QED BY <2>3 DEF Kinds
<1>3. ASSUME NEW e \in edges, onEdgesRemoved({e})
      PROVE  Kinds
  <2>1. Change(nodes, edges \ {e}, selected) /\ UNCHANGED <<history, nextId, mixed, missed>>
    BY <1>3 DEF onEdgesRemoved, Unrecorded, Settle
  <2>2. Amended
    BY <2>1, AmendedByChange
  <2> QED BY <2>2 DEF Kinds
<1>4. CASE onNodesRemoved(selected)
  <2>1. Apart(selected) = edges
    BY <1>4 DEF onNodesRemoved
  <2>2. EditTo(Without(selected), Apart(selected), selected \ selected, missed)
    BY <1>4, <2>1 DEF onNodesRemoved, EditTo, Change, Show, Recorded, Settle
  <2> QED BY <2>2 DEF Kinds, Deleted
<1> QED BY <1>1, <1>2, <1>3, <1>4 DEF Reports

LEMMA ConnectionsAreKinds ==
  ASSUME TypeOK, Connections
  PROVE  Kinds
<1> USE TypedSteps
<1>1. CASE DropWire
  <2>1. PICK s, t \in Ids(nodes) : connect(s, t) /\ Settle
    BY <1>1 DEF DropWire
  <2>2. missed \cup ({s, t} \ Ids(nodes)) = missed /\ s \in Id /\ t \in Id
    OBVIOUS
  <2>3. EditTo(nodes, Joined(s, t), selected, missed)
    BY <2>1 DEF connect, EditTo, Change, Show, Recorded, Settle
  <2> QED BY <2>2, <2>3 DEF Kinds, Connected
<1>2. ASSUME NEW e \in edges, deleteConnection(e)
      PROVE  Kinds
  <2>1. Change(nodes, edges \ {e}, selected) /\ history' = record(history, canvas)
    BY <1>2 DEF deleteConnection, Recorded
  <2>2. UNCHANGED <<nextId, mixed, missed>>
    BY <1>2 DEF deleteConnection, Settle
  <2>3. Amended
    BY <2>1, <2>2, AmendedByChange
  <2> QED BY <2>3 DEF Kinds
<1>3. ASSUME NEW c, NEW f, KeysOnly(c, f)
      PROVE  Kinds
  <2>1. Aside
    BY <1>3 DEF KeysOnly, Aside, documentVars, fileVars
  <2> QED BY <2>1 DEF Kinds
<1>4. CASE beginConnect
  BY <1>3, <1>4 DEF beginConnect
<1>5. CASE moveTarget
  BY <1>3, <1>5 DEF moveTarget
<1>6. CASE finishConnect
  <2> DEFINE s == connecting.source
             t == connecting.target
  <2>1. connecting \in Edge
    BY <1>6 DEF finishConnect, TypeOK
  <2>2. s \in Id /\ t \in Id
    BY <2>1 DEF Edge
  <2>3. connect(s, t) /\ missed' = missed \cup ({s, t} \ Ids(nodes))
    BY <1>6 DEF finishConnect
  <2> HIDE DEF s, t
  <2>4. EditTo(nodes, Joined(s, t), selected, missed \cup ({s, t} \ Ids(nodes)))
    BY <2>3 DEF connect, EditTo, Change, Show, Recorded
  <2> QED BY <2>2, <2>4 DEF Kinds, Connected
<1>7. CASE cancelConnect
  BY <1>3, <1>7 DEF cancelConnect
<1>8. CASE moveFocusedEdge
  BY <1>3, <1>8 DEF moveFocusedEdge
<1>9. CASE dropFocusedEdge
  BY <1>3, <1>9 DEF dropFocusedEdge
<1>10. CASE deleteFocusedEdge
  <2>1. CASE focusedEdge \in edges
    <3>1. /\ Change(nodes, edges \ {focusedEdge}, selected)
          /\ history' = record(history, canvas)
      BY <1>10, <2>1 DEF deleteFocusedEdge, Recorded
    <3>2. UNCHANGED <<nextId, mixed, missed>>
      BY <1>10, <2>1 DEF deleteFocusedEdge
    <3>3. Amended
      BY <3>1, <3>2, AmendedByChange
    <3> QED BY <3>3 DEF Kinds
  <2>2. CASE focusedEdge \notin edges
    BY <1>3, <1>10, <2>2 DEF deleteFocusedEdge
  <2> QED BY <2>1, <2>2
<1> QED BY <1>1, <1>2, <1>4, <1>5, <1>6, <1>7, <1>8, <1>9, <1>10 DEF Connections

\* Every action is of one of the kinds.
LEMMA ActionsAreKinds ==
  ASSUME TypeOK, Next
  PROVE  Kinds
<1>1. CASE Undo \/ Redo
  <2>1. UNCHANGED missed
    BY <1>1 DEF Undo, Redo, Revisit, Settle
  <2> QED BY <1>1, <2>1 DEF Kinds, Revisited
<1>2. CASE copySelection
  <2>1. Aside
    BY <1>2 DEF copySelection, Aside, documentVars, fileVars
  <2> QED BY <2>1 DEF Kinds
<1>3. CASE Paste
  <2>1. pasteClipboard(clipboard) /\ clipboard' = clipboard
    BY <1>3 DEF Paste
  <2>2. UNCHANGED missed
    BY <2>1 DEF pasteClipboard, Settle
  <2> QED BY <2>1, <2>2 DEF Kinds, Pasted
<1>4. CASE duplicateSelection
  <2> DEFINE clip == cut(nodes, edges, selected)
  <2>1. pasteClipboard(clip) /\ clipboard' = clip
    BY <1>4 DEF duplicateSelection
  <2> HIDE DEF clip
  <2>2. UNCHANGED missed
    BY <2>1 DEF pasteClipboard, Settle
  <2> QED BY <2>1, <2>2 DEF Kinds, Pasted, clip
<1>5. CASE SaveProject \/ SaveAnswered \/ SaveFailed
  BY <1>5 DEF Kinds, Filed
<1>6. CASE applyProject
  <2>1. UNCHANGED missed
    BY <1>6 DEF applyProject, Settle
  <2> QED BY <1>6, <2>1 DEF Kinds
<1>7. CASE NewProject
  <2>1. UNCHANGED missed
    BY <1>7 DEF NewProject, Settle
  <2> QED BY <1>7, <2>1 DEF Kinds
<1>8. CASE Restart
  BY <1>8 DEF Kinds
<1>9. CASE Projects
  BY <1>1, <1>2, <1>3, <1>4, <1>5, <1>6, <1>7, <1>8, <1>9 DEF Projects
<1> QED BY <1>9, StepsAreKinds, ReportsAreKinds, ConnectionsAreKinds DEF Next

---------------------------------------------------------------------------
(***************************************************************************)
(* One line of documents: a past, the one on screen and a future.          *)
(***************************************************************************)
LineOf(p, c, f) == p \o <<c>> \o f

IsLine(S, l, p, c, f) ==
  /\ l \in Seq(S)
  /\ Len(p) \in Nat /\ Len(f) \in Nat
  /\ Len(l) = Len(p) + 1 + Len(f)
  /\ \A i \in 1 .. Len(p) : l[i] = p[i]
  /\ l[Len(p) + 1] = c
  /\ \A i \in 1 .. Len(f) : l[Len(p) + 1 + i] = f[i]

LEMMA LineShape ==
  ASSUME NEW S, NEW p \in Seq(S), NEW c \in S, NEW f \in Seq(S)
  PROVE  IsLine(S, LineOf(p, c, f), p, c, f)
<1> DEFINE q == p \o <<c>>
<1>1. <<c>> \in Seq(S) /\ Len(<<c>>) = 1 /\ <<c>>[1] = c
  OBVIOUS
<1>2. /\ q \in Seq(S) /\ Len(q) = Len(p) + 1 /\ Len(p) \in Nat /\ Len(f) \in Nat
      /\ \A i \in 1 .. Len(p) : q[i] = p[i]
      /\ q[Len(p) + 1] = c
  BY <1>1, ConcatProperties
<1> HIDE DEF q
<1>3. /\ q \o f \in Seq(S) /\ Len(q \o f) = Len(q) + Len(f)
      /\ \A i \in 1 .. Len(q) + Len(f) :
           (q \o f)[i] = IF i <= Len(q) THEN q[i] ELSE f[i - Len(q)]
  BY <1>2, ConcatProperties
<1>4. LineOf(p, c, f) = q \o f
  BY DEF LineOf, q
<1>5. ASSUME NEW i \in 1 .. Len(p)
      PROVE  (q \o f)[i] = p[i]
  BY <1>2, <1>3
<1>6. (q \o f)[Len(p) + 1] = c
  BY <1>2, <1>3
<1>7. ASSUME NEW i \in 1 .. Len(f)
      PROVE  (q \o f)[Len(p) + 1 + i] = f[i]
  <2>1. Len(p) + 1 + i \in 1 .. Len(q) + Len(f) /\ ~(Len(p) + 1 + i <= Len(q))
    BY <1>2
  <2>2. Len(p) + 1 + i - Len(q) = i
    BY <1>2
  <2> QED BY <1>3, <2>1, <2>2
<1> QED BY <1>2, <1>3, <1>4, <1>5, <1>6, <1>7 DEF IsLine

\* Two lines are one when they agree place by place.
LEMMA SameLine ==
  ASSUME NEW S, NEW s \in Seq(S), NEW t \in Seq(S), Len(s) = Len(t),
         \A i \in 1 .. Len(s) : s[i] = t[i]
  PROVE  s = t
BY SeqEqual

LEMMA LineOnward ==
  ASSUME NEW S, NEW p \in Seq(S), NEW c \in S, NEW f \in Seq(S), NEW d \in S
  PROVE  LineOf(Append(p, c), d, <<>>) = Append(SubSeq(LineOf(p, c, f), 1, Len(p) + 1), d)
<1> DEFINE l == LineOf(p, c, f)
           k == LineOf(Append(p, c), d, <<>>)
           m == SubSeq(l, 1, Len(p) + 1)
<1>1. <<>> \in Seq(S) /\ Len(<<>>) = 0
  OBVIOUS
<1>2. /\ Append(p, c) \in Seq(S) /\ Len(Append(p, c)) = Len(p) + 1
      /\ \A i \in 1 .. Len(p) : Append(p, c)[i] = p[i]
      /\ Append(p, c)[Len(p) + 1] = c
  BY AppendProperties
<1>3. /\ l \in Seq(S) /\ Len(p) \in Nat /\ Len(f) \in Nat /\ Len(l) = Len(p) + 1 + Len(f)
      /\ \A i \in 1 .. Len(p) : l[i] = p[i]
      /\ l[Len(p) + 1] = c
  BY LineShape DEF IsLine
<1> DEFINE q == Append(p, c)
<1>4. /\ k \in Seq(S) /\ Len(k) = Len(q) + 1
      /\ \A i \in 1 .. Len(q) : k[i] = q[i]
      /\ k[Len(q) + 1] = d
  <2> HIDE DEF q
  <2>1. q \in Seq(S) /\ Len(q) \in Nat
    BY <1>2 DEF q
  <2>2. k = LineOf(q, d, <<>>)
    BY DEF q
  <2>3. IsLine(S, k, q, d, <<>>)
    BY <1>1, <2>1, <2>2, LineShape
  <2> HIDE DEF k
  <2> QED BY <1>1, <2>3 DEF IsLine
<1> HIDE DEF l, k
<1>5. /\ m \in Seq(S) /\ Len(m) = Len(p) + 1
      /\ \A i \in 1 .. Len(p) + 1 : m[i] = l[i]
  BY <1>3, SubSeqProperties
<1> HIDE DEF m
<1>6. /\ Append(m, d) \in Seq(S) /\ Len(Append(m, d)) = Len(p) + 2
      /\ \A i \in 1 .. Len(p) + 1 : Append(m, d)[i] = m[i]
      /\ Append(m, d)[Len(p) + 2] = d
  BY <1>3, <1>5, AppendProperties
<1>7. ASSUME NEW i \in 1 .. Len(p) + 2
      PROVE  k[i] = Append(m, d)[i]
  <2>1. i \in 1 .. Len(p) \/ i = Len(p) + 1 \/ i = Len(p) + 2
    BY <1>3
  <2>2. CASE i \in 1 .. Len(p)
    BY <1>2, <1>3, <1>4, <1>5, <1>6, <2>2
  <2>3. CASE i = Len(p) + 1
    BY <1>2, <1>3, <1>4, <1>5, <1>6, <2>3
  <2>4. CASE i = Len(p) + 2
    BY <1>2, <1>3, <1>4, <1>6, <2>4
  <2> QED BY <2>1, <2>2, <2>3, <2>4
<1>8. k = Append(m, d)
  <2>1. Len(k) = Len(p) + 2
    BY <1>2, <1>3, <1>4
  <2> QED BY <1>4, <1>6, <1>7, <2>1, SameLine
<1> QED BY <1>8 DEF k, m, l

\* The oldest document of a line falls out of its past.
LEMMA LineWithoutOldest ==
  ASSUME NEW S, NEW p \in Seq(S), p # <<>>, NEW c \in S, NEW f \in Seq(S)
  PROVE  LineOf(Tail(p), c, f) = Tail(LineOf(p, c, f))
<1> DEFINE l == LineOf(p, c, f)
           q == Tail(p)
           k == LineOf(q, c, f)
<1>1. q \in Seq(S) /\ Len(p) \in Nat \ {0} /\ Len(q) = Len(p) - 1
      /\ \A i \in 1 .. Len(q) : q[i] = p[i + 1]
  BY HeadTailProperties, EmptySeq
<1>2. /\ l \in Seq(S) /\ Len(f) \in Nat /\ Len(l) = Len(p) + 1 + Len(f)
      /\ \A i \in 1 .. Len(p) : l[i] = p[i]
      /\ l[Len(p) + 1] = c
      /\ \A i \in 1 .. Len(f) : l[Len(p) + 1 + i] = f[i]
  <2>1. IsLine(S, l, p, c, f)
    BY LineShape
  <2> HIDE DEF l
  <2> QED BY <2>1 DEF IsLine
<1> HIDE DEF q
<1>3. /\ k \in Seq(S) /\ Len(k) = Len(q) + 1 + Len(f)
      /\ \A i \in 1 .. Len(q) : k[i] = q[i]
      /\ k[Len(q) + 1] = c
      /\ \A i \in 1 .. Len(f) : k[Len(q) + 1 + i] = f[i]
  <2>1. IsLine(S, k, q, c, f)
    BY <1>1, LineShape
  <2> HIDE DEF k
  <2> QED BY <2>1 DEF IsLine
<1> HIDE DEF l, k
<1>4. l # <<>>
  BY <1>1, <1>2
<1>5. Tail(l) \in Seq(S) /\ Len(Tail(l)) = Len(l) - 1 /\ \A i \in 1 .. Len(Tail(l)) : Tail(l)[i] = l[i + 1]
  BY <1>2, <1>4, HeadTailProperties
<1>6. Len(Tail(l)) = Len(k) /\ Len(k) = Len(p) + Len(f)
  BY <1>1, <1>2, <1>3, <1>5
<1>7. ASSUME NEW i \in 1 .. Len(k)
      PROVE  k[i] = Tail(l)[i]
  <2>1. Tail(l)[i] = l[i + 1]
    BY <1>5, <1>6
  <2>2. i \in 1 .. Len(q) \/ i = Len(q) + 1 \/ i - Len(p) \in 1 .. Len(f)
    BY <1>1, <1>2, <1>6
  <2>3. CASE i \in 1 .. Len(q)
    <3>1. i + 1 \in 1 .. Len(p)
      BY <1>1, <2>3
    <3> QED BY <1>1, <1>2, <1>3, <2>1, <2>3, <3>1
  <2>4. CASE i = Len(q) + 1
    <3>1. i + 1 = Len(p) + 1
      BY <1>1, <2>4
    <3> QED BY <1>2, <1>3, <2>1, <2>4, <3>1
  <2>5. CASE i - Len(p) \in 1 .. Len(f)
    <3> DEFINE j == i - Len(p)
    <3>1. i = Len(q) + 1 + j /\ i + 1 = Len(p) + 1 + j
      BY <1>1
    <3> QED BY <1>2, <1>3, <2>1, <2>5, <3>1
  <2> QED BY <2>2, <2>3, <2>4, <2>5
<1>8. k = Tail(l)
  BY <1>3, <1>5, <1>6, <1>7, SameLine
<1> QED BY <1>8 DEF k, l, q

LEMMA LineAmended ==
  ASSUME NEW S, NEW p \in Seq(S), NEW c \in S, NEW f \in Seq(S), NEW d \in S
  PROVE  LineOf(p, d, f) = [LineOf(p, c, f) EXCEPT ![Len(p) + 1] = d]
<1> DEFINE l == LineOf(p, c, f)
           k == LineOf(p, d, f)
           n == Len(p) + 1
           m == [l EXCEPT ![n] = d]
<1>1. IsLine(S, l, p, c, f) /\ IsLine(S, k, p, d, f)
  BY LineShape
<1> HIDE DEF l, k
<1>2. Len(p) \in Nat /\ Len(f) \in Nat /\ l \in Seq(S) /\ Len(l) = n + Len(f) /\ n \in 1 .. Len(l)
  BY <1>1 DEF IsLine
<1>3. /\ m \in Seq(S) /\ Len(m) = Len(l)
      /\ \A j \in 1 .. Len(l) : m[j] = IF j = n THEN d ELSE l[j]
  BY <1>2, ExceptSeq
<1> HIDE DEF m
<1>4. ASSUME NEW i \in 1 .. Len(l)
      PROVE  k[i] = m[i]
  <2>1. i \in 1 .. Len(p) \/ i = n \/ i - n \in 1 .. Len(f)
    BY <1>2
  <2>2. CASE i \in 1 .. Len(p)
    <3>1. i # n
      BY <1>2, <2>2
    <3> QED BY <1>1, <1>3, <2>2, <3>1 DEF IsLine
  <2>3. CASE i = n
    BY <1>1, <1>3, <2>3 DEF IsLine
  <2>4. CASE i - n \in 1 .. Len(f)
    <3> DEFINE j == i - n
    <3>1. i = Len(p) + 1 + j /\ i # n
      BY <1>2, <2>4
    <3>2. k[i] = f[j] /\ l[i] = f[j]
      BY <1>1, <2>4, <3>1 DEF IsLine
    <3> QED BY <1>3, <3>1, <3>2
  <2> QED BY <2>1, <2>2, <2>3, <2>4
<1>5. k \in Seq(S) /\ Len(k) = Len(m)
  BY <1>1, <1>2, <1>3 DEF IsLine
<1>6. k = m
  BY <1>3, <1>4, <1>5, SameLine
<1> QED BY <1>6 DEF k, m, l

LEMMA LineForth ==
  ASSUME NEW S, NEW p \in Seq(S), NEW c \in S, NEW f \in Seq(S), f # <<>>
  PROVE  LineOf(Append(p, c), Head(f), Tail(f)) = LineOf(p, c, f)
<1> DEFINE h == <<Head(f)>>
           q == p \o <<c>>
<1>1. Append(p, c) = q /\ q \in Seq(S)
  BY AppendIsConcat, AppendProperties
<1>2. h \in Seq(S) /\ Tail(f) \in Seq(S) /\ f = h \o Tail(f)
  OBVIOUS
<1>3. (q \o h) \o Tail(f) = q \o (h \o Tail(f))
  BY <1>1, <1>2, ConcatAssociative
<1> QED BY <1>1, <1>2, <1>3 DEF LineOf

LEMMA LineBack ==
  ASSUME NEW S, NEW p \in Seq(S), p # <<>>, NEW c \in S, NEW f \in Seq(S)
  PROVE  LineOf(SubSeq(p, 1, Len(p) - 1), p[Len(p)], <<c>> \o f) = LineOf(p, c, f)
<1> DEFINE q == SubSeq(p, 1, Len(p) - 1)
           e == p[Len(p)]
<1>1. Len(p) \in 1 .. Len(p) /\ 1 \in 1 .. Len(p)
  BY EmptySeq
<1>2. p = q \o <<e>>
  <2>1. SubSeq(p, 1, Len(p)) = q \o <<e>>
    BY <1>1, SubSeqRecursiveSecond
  <2>2. SubSeq(p, 1, Len(p)) = p
    BY SubSeqFull
  <2> QED BY <2>1, <2>2
<1>3. <<c>> \in Seq(S)
  OBVIOUS
<1>4. (p \o <<c>>) \o f = p \o (<<c>> \o f)
  BY <1>3, ConcatAssociative
<1> HIDE DEF q, e
<1>5. (q \o <<e>>) \o (<<c>> \o f) = (p \o <<c>>) \o f
  BY <1>2, <1>4
<1> QED BY <1>5 DEF LineOf, q, e

---------------------------------------------------------------------------
(***************************************************************************)
(* history.ts.                                                             *)
(***************************************************************************)
LEMMA TypedHistory ==
  ASSUME TypeOK
  PROVE  /\ history.past \in Seq(Snapshot) /\ history.future \in Seq(Snapshot)
         /\ Len(history.past) \in Nat /\ Len(history.future) \in Nat
         /\ Len(history.past) + Len(history.future) <= Limit
         /\ history = [past |-> history.past, future |-> history.future]
         /\ canvas \in Snapshot /\ Limit \in Nat \ {0}
BY CanvasAssumption DEF TypeOK

\* A record of a full history loses its oldest entry.
LEMMA RecordIs ==
  ASSUME TypeOK
  PROVE  LET p == history.past IN
         record(history, canvas) =
           [past   |-> IF Len(p) < Limit THEN Append(p, canvas) ELSE Append(Tail(p), canvas),
            future |-> <<>>]
<1> DEFINE p == history.past
           q == Append(p, canvas)
<1>1. p \in Seq(Snapshot) /\ Len(p) \in Nat /\ Len(p) <= Limit /\ canvas \in Snapshot /\ Limit \in Nat \ {0}
  BY TypedHistory
<1>2. record(history, canvas) = [past |-> Latest(q), future |-> <<>>]
  BY DEF record
<1> HIDE DEF p
<1>3. q \in Seq(Snapshot) /\ q # <<>> /\ Len(q) = Len(p) + 1
  BY <1>1, AppendProperties
<1>4. CASE Len(p) < Limit
  <2>1. Latest(q) = q
    BY <1>1, <1>3, <1>4 DEF Latest
  <2> QED BY <1>2, <1>4, <2>1 DEF p
<1>5. CASE ~(Len(p) < Limit)
  <2>1. Len(q) > Limit /\ Len(q) - Limit + 1 = 2 /\ p # <<>>
    BY <1>1, <1>3, <1>5
  <2>2. Latest(q) = SubSeq(q, 2, Len(q))
    BY <2>1 DEF Latest
  <2>3. SubSeq(q, 2, Len(q)) = Tail(q)
    BY <1>3, TailIsSubSeq
  <2>4. Tail(q) = Append(Tail(p), canvas)
    BY <1>1, <2>1, HeadTailAppend
  <2> QED BY <1>2, <1>5, <2>2, <2>3, <2>4 DEF p
<1> QED BY <1>4, <1>5

\* Going back never fills the future: what was there fitted beside the past.
LEMMA UndoIs ==
  ASSUME TypeOK, history.past # <<>>
  PROVE  LET p == history.past IN
         undo(history, canvas) = [past   |-> SubSeq(p, 1, Len(p) - 1),
                                  future |-> <<canvas>> \o history.future]
<1> DEFINE p == history.past
           f == history.future
           g == <<canvas>> \o f
<1>1. /\ p \in Seq(Snapshot) /\ f \in Seq(Snapshot) /\ Len(p) \in Nat /\ Len(f) \in Nat
      /\ Len(p) + Len(f) <= Limit /\ Limit \in Nat \ {0} /\ canvas \in Snapshot
  BY TypedHistory
<1>2. Len(p) \in Nat \ {0}
  BY <1>1, EmptySeq
<1>3. Len(f) < Limit
  <2> HIDE DEF p, f
  <2>1. Limit \in Nat
    BY <1>1
  <2> QED BY <1>1, <1>2, <2>1
<1>4. g \in Seq(Snapshot) /\ Len(g) = Len(f) + 1
  BY <1>1
<1>5. undo(history, canvas) = [past |-> SubSeq(p, 1, Len(p) - 1), future |-> SubSeq(g, 1, Len(f) + 1)]
  BY <1>3 DEF undo
<1>6. SubSeq(g, 1, Len(f) + 1) = g
  <2> HIDE DEF g
  <2> QED BY <1>4, SubSeqFull
<1> QED BY <1>5, <1>6

\* Nor does going forward fill the past.
LEMMA RedoIs ==
  ASSUME TypeOK, history.future # <<>>
  PROVE  redo(history, canvas) = [past   |-> Append(history.past, canvas),
                                  future |-> Tail(history.future)]
<1> DEFINE p == history.past
           f == history.future
           q == Append(p, canvas)
<1>1. /\ p \in Seq(Snapshot) /\ f \in Seq(Snapshot) /\ Len(p) \in Nat /\ Len(f) \in Nat
      /\ Len(p) + Len(f) <= Limit /\ Limit \in Nat \ {0} /\ canvas \in Snapshot
  BY TypedHistory
<1>2. Len(f) \in Nat \ {0}
  BY <1>1, EmptySeq
<1>3. Len(q) = Len(p) + 1
  BY <1>1, AppendProperties
<1>4. Latest(q) = q
  <2>1. ~(Len(q) > Limit)
    <3> HIDE DEF p, f, q
    <3>1. Limit \in Nat
      BY <1>1
    <3> QED BY <1>1, <1>2, <1>3, <3>1
  <2> QED BY <2>1 DEF Latest
<1> QED BY <1>4 DEF redo

\* What a step does to the history.
HistoryTurn ==
  \/ UNCHANGED history
  \/ history' = record(history, canvas)
  \/ /\ history.past # <<>> /\ history' = undo(history, canvas)
     /\ canvas' = history.past[Len(history.past)]
  \/ /\ history.future # <<>> /\ history' = redo(history, canvas)
     /\ canvas' = Head(history.future)
  \/ history' = emptyHistory

LEMMA RevisitShows ==
  ASSUME NEW h, NEW s \in Snapshot, Revisit(h, s)
  PROVE  history' = h /\ canvas' = s
<1>1. nodes' = s.nodes /\ edges' = s.edges /\ selected' = s.selected /\ history' = h
  BY DEF Revisit, Show
<1>2. s = [nodes |-> s.nodes, edges |-> s.edges, selected |-> s.selected]
  BY DEF Snapshot
<1> QED BY <1>1, <1>2 DEF canvas

LEMMA UndoneAndRedone ==
  ASSUME TypeOK, Revisited
  PROVE  \/ /\ history.past # <<>> /\ history' = undo(history, canvas)
            /\ canvas' = history.past[Len(history.past)]
            /\ canvas' \in Snapshot
         \/ /\ history.future # <<>> /\ history' = redo(history, canvas)
            /\ canvas' = Head(history.future)
            /\ canvas' \in Snapshot
<1>1. history.past \in Seq(Snapshot) /\ history.future \in Seq(Snapshot)
  BY TypedHistory
<1>2. CASE Undo
  <2> DEFINE s == history.past[Len(history.past)]
  <2>1. history.past # <<>> /\ Revisit(undo(history, canvas), s)
    BY <1>2 DEF Undo
  <2>2. s \in Snapshot
    BY <1>1, <2>1
  <2> HIDE DEF s
  <2>3. history' = undo(history, canvas) /\ canvas' = s
    BY <2>1, <2>2, RevisitShows
  <2> QED BY <2>1, <2>2, <2>3 DEF s
<1>3. CASE Redo
  <2> DEFINE s == Head(history.future)
  <2>1. history.future # <<>> /\ Revisit(redo(history, canvas), s)
    BY <1>3 DEF Redo
  <2>2. s \in Snapshot
    BY <1>1, <2>1, HeadTailProperties
  <2> HIDE DEF s
  <2>3. history' = redo(history, canvas) /\ canvas' = s
    BY <2>1, <2>2, RevisitShows
  <2> QED BY <2>1, <2>2, <2>3 DEF s
<1> QED BY <1>2, <1>3 DEF Revisited

LEMMA HistoryTurns ==
  ASSUME TypeOK, Kinds
  PROVE  HistoryTurn
<1>1. CASE Amended \/ Deleted \/ Connected
  <2>1. history' \in {history, record(history, canvas)}
    BY <1>1 DEF Amended, Deleted, Connected, EditTo
  <2> QED BY <2>1 DEF HistoryTurn
<1>2. CASE Placed
  BY <1>2 DEF Placed, addNode, Recorded, HistoryTurn
<1>3. CASE Pasted
  BY <1>3 DEF Pasted, pasteClipboard, Recorded, HistoryTurn
<1>4. CASE Revisited
  BY <1>4, UndoneAndRedone DEF HistoryTurn
<1>5. CASE Aside \/ Filed
  BY <1>5 DEF Aside, Filed, SaveProject, SaveAnswered, SaveFailed, HistoryTurn
<1>6. CASE applyProject \/ NewProject \/ Restart
  BY <1>6 DEF applyProject, NewProject, Restart, Replace, HistoryTurn
<1> QED BY <1>1, <1>2, <1>3, <1>4, <1>5, <1>6 DEF Kinds

Elements(s) == {s[i] : i \in DOMAIN s}
Entries == Elements(history.past) \cup Elements(history.future)

LEMMA ElementsOf ==
  ASSUME NEW S, NEW p \in Seq(S), NEW c \in S
  PROVE  /\ Elements(Append(p, c)) \subseteq Elements(p) \cup {c}
         /\ Elements(<<c>> \o p) \subseteq Elements(p) \cup {c}
         /\ Elements(SubSeq(p, 1, Len(p) - 1)) \subseteq Elements(p)
         /\ p # <<>> => Elements(Tail(p)) \subseteq Elements(p)
         /\ Elements(<<>>) = {}
         /\ Elements(p) \subseteq S
<1>1. Len(p) \in Nat /\ DOMAIN p = 1 .. Len(p)
  OBVIOUS
<1>2. Elements(Append(p, c)) \subseteq Elements(p) \cup {c}
  <2> DEFINE q == Append(p, c)
  <2>1. /\ DOMAIN q = 1 .. Len(p) + 1
        /\ \A i \in 1 .. Len(p) : q[i] = p[i]
        /\ q[Len(p) + 1] = c
    BY <1>1
  <2> HIDE DEF q
  <2>2. \A i \in DOMAIN q : i \in DOMAIN p \/ i = Len(p) + 1
    BY <1>1, <2>1
  <2>3. Elements(q) \subseteq Elements(p) \cup {c}
    BY <1>1, <2>1, <2>2 DEF Elements
  <2> QED BY <2>3 DEF q
<1>3. Elements(<<c>> \o p) \subseteq Elements(p) \cup {c}
  <2> DEFINE q == <<c>> \o p
  <2>1. <<c>> \in Seq(S) /\ Len(<<c>>) = 1 /\ <<c>>[1] = c
    OBVIOUS
  <2>2. /\ q \in Seq(S) /\ Len(q) = 1 + Len(p)
        /\ \A i \in 1 .. 1 + Len(p) : q[i] = IF i <= 1 THEN <<c>>[i] ELSE p[i - 1]
    BY <2>1, ConcatProperties
  <2> HIDE DEF q
  <2>3. ASSUME NEW i \in DOMAIN q
        PROVE  q[i] \in Elements(p) \cup {c}
    <3>1. i \in 1 .. 1 + Len(p)
      BY <2>2
    <3>2. CASE i = 1
      BY <2>1, <2>2, <3>1, <3>2
    <3>3. CASE i # 1
      <4>1. i - 1 \in DOMAIN p /\ ~(i <= 1)
        BY <1>1, <3>1, <3>3
      <4>2. q[i] = p[i - 1]
        BY <2>2, <3>1, <4>1
      <4> QED BY <4>1, <4>2 DEF Elements
    <3> QED BY <3>2, <3>3
  <2>4. Elements(q) \subseteq Elements(p) \cup {c}
    BY <2>3 DEF Elements
  <2> QED BY <2>4 DEF q
<1>4. Elements(SubSeq(p, 1, Len(p) - 1)) \subseteq Elements(p)
  <2> DEFINE q == SubSeq(p, 1, Len(p) - 1)
  <2>1. DOMAIN q = 1 .. Len(p) - 1 /\ \A i \in 1 .. Len(p) - 1 : q[i] = p[i]
    BY <1>1
  <2> HIDE DEF q
  <2>2. \A i \in DOMAIN q : i \in DOMAIN p /\ q[i] = p[i]
    BY <1>1, <2>1
  <2>3. Elements(q) \subseteq Elements(p)
    BY <2>2 DEF Elements
  <2> QED BY <2>3 DEF q
<1>5. ASSUME p # <<>>
      PROVE  Elements(Tail(p)) \subseteq Elements(p)
  <2> DEFINE q == Tail(p)
  <2>1. q \in Seq(S) /\ Len(q) = Len(p) - 1 /\ \A i \in 1 .. Len(q) : q[i] = p[i + 1]
    BY <1>5, HeadTailProperties
  <2> HIDE DEF q
  <2>2. \A i \in DOMAIN q : i + 1 \in DOMAIN p /\ q[i] = p[i + 1]
    BY <1>1, <2>1
  <2>3. Elements(q) \subseteq Elements(p)
    BY <2>2 DEF Elements
  <2> QED BY <2>3 DEF q
<1>6. Elements(<<>>) = {} /\ Elements(p) \subseteq S
  BY DEF Elements
<1> QED BY <1>2, <1>3, <1>4, <1>5, <1>6

LEMMA HistoryMade ==
  ASSUME NEW q \in Seq(Snapshot), NEW g \in Seq(Snapshot),
         history' = [past |-> q, future |-> g], Len(q) + Len(g) <= Limit,
         Elements(q) \subseteq Entries \cup {canvas}, Elements(g) \subseteq Entries \cup {canvas}
  PROVE  /\ history' \in [past : Seq(Snapshot), future : Seq(Snapshot)]
         /\ Len(history'.past) + Len(history'.future) <= Limit
         /\ Entries' \subseteq Entries \cup {canvas}
<1>1. history'.past = q /\ history'.future = g
  OBVIOUS
<1>2. Entries' = Elements(q) \cup Elements(g)
  BY <1>1 DEF Entries
<1> QED BY <1>1, <1>2

\* The history holds what it held and what was on the canvas, and no more than it may.
LEMMA HistoryAfter ==
  ASSUME TypeOK, HistoryTurn
  PROVE  /\ history' \in [past : Seq(Snapshot), future : Seq(Snapshot)]
         /\ Len(history'.past) + Len(history'.future) <= Limit
         /\ Entries' \subseteq Entries \cup {canvas}
<1> DEFINE p == history.past
           f == history.future
           c == canvas
           none == <<>>
<1>1. /\ p \in Seq(Snapshot) /\ f \in Seq(Snapshot) /\ c \in Snapshot
      /\ Len(p) \in Nat /\ Len(f) \in Nat /\ Len(p) + Len(f) <= Limit
      /\ history = [past |-> p, future |-> f]
  BY TypedHistory
<1>2. Limit \in Nat /\ Limit # 0
  BY CanvasAssumption
<1>3. Elements(p) \subseteq Entries /\ Elements(f) \subseteq Entries
  BY DEF Entries
<1>4. none \in Seq(Snapshot) /\ Len(none) = 0 /\ Elements(none) \subseteq Entries \cup {c}
  BY DEF Elements
<1>5. CASE UNCHANGED history
  BY <1>1, <1>3, <1>5, HistoryMade
<1>6. CASE history' = record(history, canvas)
  <2> DEFINE q == IF Len(p) < Limit THEN Append(p, c) ELSE Append(Tail(p), c)
  <2>1. history' = [past |-> q, future |-> none]
    BY <1>6, RecordIs
  <2> HIDE DEF p, f, none
  <2>2. q \in Seq(Snapshot) /\ Len(q) <= Limit /\ Elements(q) \subseteq Elements(p) \cup {c}
    <3> HIDE DEF c
    <3>1. CASE Len(p) < Limit
      <4> DEFINE r == Append(p, c)
      <4>1. r \in Seq(Snapshot) /\ Len(r) = Len(p) + 1
        BY <1>1, AppendProperties
      <4>2. Elements(r) \subseteq Elements(p) \cup {c}
        BY <1>1, ElementsOf
      <4>3. q = r
        BY <3>1
      <4> HIDE DEF q, r
      <4> QED BY <1>1, <1>2, <3>1, <4>1, <4>2, <4>3
    <3>2. CASE ~(Len(p) < Limit)
      <4> DEFINE t == Tail(p)
                 r == Append(t, c)
      <4>1. p # <<>> /\ Len(p) = Limit
        <5>1. Len(p) = Limit
          BY <1>1, <1>2, <3>2
        <5>2. Len(<<>>) = 0
          OBVIOUS
        <5> QED BY <1>2, <5>1, <5>2
      <4>2. t \in Seq(Snapshot) /\ Len(t) = Len(p) - 1
        BY <1>1, <4>1, HeadTailProperties
      <4>3. Elements(t) \subseteq Elements(p)
        BY <1>1, <4>1, ElementsOf
      <4> HIDE DEF t
      <4>4. r \in Seq(Snapshot) /\ Len(r) = Len(t) + 1
        BY <1>1, <4>2, AppendProperties
      <4>5. Elements(r) \subseteq Elements(t) \cup {c}
        BY <1>1, <4>2, ElementsOf
      <4>6. q = r
        BY <3>2 DEF t
      <4> HIDE DEF q, r
      <4> QED BY <1>1, <1>2, <4>1, <4>2, <4>3, <4>4, <4>5, <4>6
    <3> QED BY <3>1, <3>2
  <2> HIDE DEF q
  <2>3. Len(q) + Len(none) <= Limit
    <3>1. Len(q) \in Nat
      BY <2>2
    <3> QED BY <1>2, <1>4, <2>2, <3>1
  <2> QED BY <1>3, <1>4, <2>1, <2>2, <2>3, HistoryMade
<1>7. CASE history.past # <<>> /\ history' = undo(history, canvas)
  <2> DEFINE q == SubSeq(p, 1, Len(p) - 1)
             g == <<c>> \o f
  <2>1. history' = [past |-> q, future |-> g]
    BY <1>7, UndoIs
  <2>2. Len(p) \in Nat /\ Len(p) # 0
    BY <1>1, <1>7, EmptySeq
  <2> HIDE DEF p, f, c
  <2>3. q \in Seq(Snapshot) /\ Len(q) = Len(p) - 1
    <3> DEFINE n == Len(p) - 1
    <3>1. n \in Nat /\ n \in Int /\ 1 \in Int /\ \A i \in 1 .. n : p[i] \in Snapshot
      BY <1>1, <2>2
    <3>2. q = SubSeq(p, 1, n)
      OBVIOUS
    <3> HIDE DEF n, q
    <3>3. q \in Seq(Snapshot) /\ Len(q) = IF 1 <= n THEN n - 1 + 1 ELSE 0
      BY <3>1, <3>2, SubSeqProperties
    <3>4. Len(q) = n
      BY <3>1, <3>3
    <3> QED BY <3>3, <3>4 DEF n
  <2>4. g \in Seq(Snapshot) /\ Len(g) = Len(f) + 1
    BY <1>1
  <2>5. Elements(q) \subseteq Elements(p) /\ Elements(g) \subseteq Elements(f) \cup {c}
    BY <1>1, ElementsOf
  <2> HIDE DEF q, g
  <2>6. Len(q) + Len(g) <= Limit
    BY <1>1, <1>2, <2>2, <2>3, <2>4
  <2> QED BY <1>3, <2>1, <2>3, <2>4, <2>5, <2>6, HistoryMade DEF c
<1>8. CASE history.future # <<>> /\ history' = redo(history, canvas)
  <2> DEFINE q == Append(p, c)
             g == Tail(f)
  <2>1. history' = [past |-> q, future |-> g]
    BY <1>8, RedoIs
  <2>2. g \in Seq(Snapshot) /\ Len(g) = Len(f) - 1
    BY <1>1, <1>8, HeadTailProperties
  <2>3. Elements(g) \subseteq Elements(f)
    BY <1>1, <1>8, ElementsOf
  <2> HIDE DEF p, f, c
  <2>4. q \in Seq(Snapshot) /\ Len(q) = Len(p) + 1
    BY <1>1, AppendProperties
  <2>5. Elements(q) \subseteq Elements(p) \cup {c}
    BY <1>1, ElementsOf
  <2> HIDE DEF q, g
  <2>6. Len(q) + Len(g) <= Limit
    BY <1>1, <1>2, <2>2, <2>4
  <2> QED BY <1>3, <2>1, <2>2, <2>3, <2>4, <2>5, <2>6, HistoryMade DEF c
<1>9. CASE history' = emptyHistory
  <2>1. history' = [past |-> none, future |-> none]
    BY <1>9 DEF emptyHistory
  <2> HIDE DEF none
  <2>2. Len(none) + Len(none) <= Limit
    BY <1>2, <1>4
  <2> QED BY <1>4, <2>1, <2>2, HistoryMade
<1> QED BY <1>5, <1>6, <1>7, <1>8, <1>9 DEF HistoryTurn

---------------------------------------------------------------------------
(***************************************************************************)
(* Undo and redo are Timeline's.                                           *)
(***************************************************************************)
\* The line before and after a step, and what each kind of turn makes of it.
LEMMA LineStep ==
  ASSUME TypeOK, HistoryTurn, canvas' \in Snapshot
  PROVE  Line!Next
<1> DEFINE p  == history.past
           f  == history.future
           c  == canvas
           d  == canvas'
           l  == LineOf(p, c, f)
           p1 == history'.past
           f1 == history'.future
           l1 == LineOf(p1, d, f1)
<1>1. /\ p \in Seq(Snapshot) /\ f \in Seq(Snapshot) /\ c \in Snapshot /\ d \in Snapshot
      /\ Len(p) \in Nat /\ Len(f) \in Nat /\ Len(p) + Len(f) <= Limit
  BY TypedHistory
<1>2. Limit \in Nat /\ Limit # 0
  BY CanvasAssumption
<1>3. /\ history.past \o <<canvas>> \o history.future = l
      /\ (history.past \o <<canvas>> \o history.future)' = l1
      /\ (Len(history.past) + 1)' = Len(p1) + 1
  BY DEF LineOf
<1>4. p1 \in Seq(Snapshot) /\ f1 \in Seq(Snapshot)
  BY HistoryAfter
<1>5. IsLine(Snapshot, l, p, c, f) /\ IsLine(Snapshot, l1, p1, d, f1)
  BY <1>1, <1>4, LineShape
<1>6. Line!now = d
  BY <1>3, <1>5 DEF IsLine, Line!now
<1>7. CASE UNCHANGED history
  <2>1. p1 = p /\ f1 = f
    BY <1>7
  <2>2. l1 = [l EXCEPT ![Len(p) + 1] = d]
    BY <1>1, <2>1, LineAmended
  <2> HIDE DEF p, f, l, l1, p1, f1, d
  <2> QED BY <1>3, <1>6, <2>1, <2>2 DEF Line!Next, Line!Amend, p
<1>8. CASE history' = record(history, canvas)
  <2>1. /\ p1 = IF Len(p) < Limit THEN Append(p, c) ELSE Append(Tail(p), c)
        /\ f1 = <<>>
    BY <1>8, RecordIs
  <2> DEFINE q == Append(p, c)
             k == LineOf(q, d, <<>>)
             g == Append(SubSeq(l, 1, Len(p) + 1), d)
  <2>2. k = g
    <3> HIDE DEF p, f, c, d
    <3> QED BY <1>1, LineOnward
  <2>3. CASE Len(p) < Limit
    <3>1. Len(p1) + 1 = Len(p) + 2 /\ ~(Len(p) + 1 > Limit)
      BY <1>1, <1>2, <2>1, <2>3, AppendProperties
    <3>2. l1 = k
      BY <2>1, <2>3
    <3> HIDE DEF l, l1, p1, d, k
    <3>3. ~(Len(history.past) + 1 > Limit) /\ (Len(history.past) + 1)' = Len(history.past) + 1 + 1
      BY <1>1, <1>3, <3>1
    <3>4. /\ (history.past \o <<canvas>> \o history.future)' =
               Append(SubSeq(history.past \o <<canvas>> \o history.future, 1, Len(history.past) + 1), Line!now)
      BY <1>3, <1>6, <2>2, <3>2
    <3> QED BY <3>3, <3>4, Zenon DEF Line!Next, Line!Edit
  <2>4. CASE ~(Len(p) < Limit)
    <3>1. p # <<>> /\ Len(p) = Limit
      <4> HIDE DEF p, f
      <4>1. Len(p) = Limit
        BY <1>1, <1>2, <2>4
      <4>2. Len(<<>>) = 0
        OBVIOUS
      <4> QED BY <1>2, <4>1, <4>2
    <3>2. Tail(p) \in Seq(Snapshot) /\ Len(Tail(p)) = Len(p) - 1
      BY <1>1, <3>1, HeadTailProperties
    <3>3. Len(p1) = Len(p)
      <4>1. Len(p1) = Len(Tail(p)) + 1
        BY <1>1, <2>1, <2>4, <3>2, AppendProperties
      <4> QED BY <1>1, <3>2, <4>1
    <3>4. q \in Seq(Snapshot) /\ q # <<>> /\ p1 = Tail(q)
      BY <1>1, <2>1, <2>4, <3>1, AppendProperties, HeadTailAppend
    <3>5. <<>> \in Seq(Snapshot)
      OBVIOUS
    <3>6. LineOf(Tail(q), d, <<>>) = Tail(k)
      <4> HIDE DEF q
      <4> QED BY <1>1, <3>4, <3>5, LineWithoutOldest
    <3>7. l1 = Tail(k)
      BY <2>1, <3>4, <3>6
    <3>8. Len(p) + 1 > Limit
      BY <1>2, <3>1
    <3> HIDE DEF l, l1, p1, d, k
    <3>9. Len(history.past) + 1 > Limit /\ (Len(history.past) + 1)' = Len(history.past) + 1
      BY <1>1, <1>3, <3>3, <3>8
    <3>10. (history.past \o <<canvas>> \o history.future)' =
             Tail(Append(SubSeq(history.past \o <<canvas>> \o history.future, 1, Len(history.past) + 1),
                         Line!now))
      BY <1>3, <1>6, <2>2, <3>7
    <3> QED BY <3>9, <3>10, Zenon DEF Line!Next, Line!Edit
  <2> QED BY <2>3, <2>4
<1>9. CASE /\ history.past # <<>> /\ history' = undo(history, canvas)
           /\ canvas' = history.past[Len(history.past)]
  <2>1. p1 = SubSeq(p, 1, Len(p) - 1) /\ f1 = <<c>> \o f /\ d = p[Len(p)]
    BY <1>9, UndoIs
  <2>2. l1 = l
    BY <1>1, <1>9, <2>1, LineBack
  <2>3. Len(p) \in Nat /\ Len(p) # 0
    BY <1>1, <1>9, EmptySeq
  <2>4. Len(p1) = Len(p) - 1
    <3>1. Len(l) = Len(p) + 1 + Len(f) /\ Len(l1) = Len(p1) + 1 + Len(f1) /\ Len(p1) \in Nat
      BY <1>5 DEF IsLine
    <3>2. Len(f1) = Len(f) + 1
      BY <1>1, <2>1
    <3> HIDE DEF p, f, l, l1, p1, f1
    <3> QED BY <1>1, <2>2, <2>3, <3>1, <3>2
  <2>5. Len(history.past) + 1 > 1 /\ (Len(history.past) + 1)' = (Len(history.past) + 1) - 1
    <3> HIDE DEF p1
    <3> QED BY <1>3, <2>3, <2>4
  <2>6. (history.past \o <<canvas>> \o history.future)' = history.past \o <<canvas>> \o history.future
    <3> HIDE DEF l, l1
    <3> QED BY <1>3, <2>2
  <2> QED BY <2>5, <2>6 DEF Line!Next, Line!Undo
<1>10. CASE /\ history.future # <<>> /\ history' = redo(history, canvas)
            /\ canvas' = Head(history.future)
  <2>1. p1 = Append(p, c) /\ f1 = Tail(f) /\ d = Head(f)
    BY <1>10, RedoIs
  <2>2. l1 = l
    BY <1>1, <1>10, <2>1, LineForth
  <2>3. Len(f) \in Nat /\ Len(f) # 0
    BY <1>1, <1>10, EmptySeq
  <2>4. Len(p1) = Len(p) + 1
    BY <1>1, <2>1, AppendProperties
  <2>5. Len(l) = Len(p) + 1 + Len(f)
    BY <1>5 DEF IsLine
  <2> HIDE DEF f, l, l1, p1, f1, d
  <2>6. Len(p) + 1 < Len(l) /\ Len(p1) + 1 = Len(p) + 1 + 1
    BY <1>1, <2>3, <2>4, <2>5
  <2> QED BY <1>3, <2>2, <2>6 DEF Line!Next, Line!Redo
<1>11. CASE history' = emptyHistory
  <2>1. p1 = <<>> /\ f1 = <<>> /\ Len(<<>>) = 0
    BY <1>11 DEF emptyHistory
  <2>2. Len(l1) = 1
    <3>1. Len(l1) = Len(p1) + 1 + Len(f1)
      BY <1>5 DEF IsLine
    <3> HIDE DEF l1, p1, f1
    <3> QED BY <2>1, <3>1
  <2>3. (Len(history.past) + 1)' = 1
    <3> HIDE DEF p1
    <3> QED BY <1>3, <2>1
  <2>4. Len((history.past \o <<canvas>> \o history.future)') = 1
    <3> HIDE DEF l1
    <3> QED BY <1>3, <2>2
  <2> QED BY <2>3, <2>4 DEF Line!Next, Line!Replace
<1> QED BY <1>7, <1>8, <1>9, <1>10, <1>11 DEF HistoryTurn

---------------------------------------------------------------------------
(***************************************************************************)
(* The inductive invariant. What the properties say of the canvas must be  *)
(* so of every document that can come back: the history's, the             *)
(* clipboard's, the file's. How much is so depends on the session: whether *)
(* a connection was made to a step that was gone (lost), whether a step    *)
(* was placed after a file was opened (mix), whether one was opened at all *)
(* (open), and the number the next step gets.                              *)
(***************************************************************************)
Sound(d, lost, mix, open, next) ==
  /\ d.selected \subseteq Ids(d.nodes)
  /\ Fastened(d.edges, Ids(d.nodes) \cup lost)
  /\ lost = {} => OneFeed(d.edges)
  /\ ~mix => Distinct(d.nodes)
  /\ ~open => Rooted(d.nodes, next)

SoundClip(c, lost, mix, open, next) ==
  /\ Fastened(c.edges, Ids(c.nodes))
  /\ lost = {} => OneFeed(c.edges)
  /\ ~mix => Distinct(c.nodes)
  /\ ~open => Rooted(c.nodes, next)

SoundFile(g, lost) ==
  /\ IsFiniteSet(g.nodes)
  /\ NamedApart(g.nodes)
  /\ Fastened(g.edges, NamesOf(g.nodes) \cup lost)
  /\ lost = {} => OneFeed(g.edges)

DocumentsSound ==
  /\ Sound(canvas, missed, mixed, opened, nextId)
  /\ \A d \in Entries : Sound(d, missed, mixed, opened, nextId)
ClipboardSound == SoundClip(clipboard, missed, mixed, opened, nextId)
FileSound      == SoundFile(saved, missed) /\ (saving # None => SoundFile(saving, missed))
CarriesCanvas  == saving # None => overtaken \/ toGraph(nodes, edges) = saving
SessionKnown   == (mixed => opened) /\ nextId # 0
CanvasShown    == [nodes |-> nodes, edges |-> edges] \in shown

CanvasInv ==
  /\ TypeOK
  /\ DocumentsSound /\ ClipboardSound /\ FileSound
  /\ SessionKnown /\ CanvasShown
  /\ UndoOnlyRevisits /\ CarriesCanvas /\ CleanMeansSaved

\* A session goes on: what it has lost or mixed stays so.
Onward ==
  /\ missed \subseteq missed' /\ (mixed => mixed') /\ (opened => opened')
  /\ nextId' \in Nat /\ nextId <= nextId'

LEMMA RootedLater ==
  ASSUME NEW ns, NEW next \in Nat, NEW later \in Nat, next <= later, Rooted(ns, next)
  PROVE  Rooted(ns, later)
<1>1. 1 .. next - 1 \subseteq 1 .. later - 1
  OBVIOUS
<1> QED BY <1>1 DEF Rooted

LEMMA StillSound ==
  ASSUME TypeOK, Onward, NEW d, Sound(d, missed, mixed, opened, nextId)
  PROVE  Sound(d, missed', mixed', opened', nextId')
<1>1. nextId \in Nat /\ nextId' \in Nat /\ nextId <= nextId'
  BY DEF TypeOK, Onward
<1>2. Rooted(d.nodes, nextId) => Rooted(d.nodes, nextId')
  BY <1>1, RootedLater
<1>3. Fastened(d.edges, Ids(d.nodes) \cup missed')
  BY DEF Onward, Sound, Fastened
<1>4. missed' = {} => missed = {}
  BY DEF Onward
<1> QED BY <1>2, <1>3, <1>4, Zenon DEF Onward, Sound

LEMMA StillSoundClip ==
  ASSUME TypeOK, Onward, NEW c, SoundClip(c, missed, mixed, opened, nextId)
  PROVE  SoundClip(c, missed', mixed', opened', nextId')
<1>1. nextId \in Nat /\ nextId' \in Nat /\ nextId <= nextId'
  BY DEF TypeOK, Onward
<1>2. Rooted(c.nodes, nextId) => Rooted(c.nodes, nextId')
  BY <1>1, RootedLater
<1>3. missed' = {} => missed = {}
  BY DEF Onward
<1> QED BY <1>2, <1>3, Zenon DEF Onward, SoundClip

LEMMA StillSoundFile ==
  ASSUME Onward, NEW g, SoundFile(g, missed)
  PROVE  SoundFile(g, missed')
<1>1. Fastened(g.edges, NamesOf(g.nodes) \cup missed')
  BY DEF Onward, SoundFile, Fastened
<1>2. missed' = {} => missed = {}
  BY DEF Onward
<1> QED BY <1>1, <1>2, Zenon DEF SoundFile

\* Only starting the program again ends a session.
LEMMA SessionsGoOn ==
  ASSUME CanvasInv, Kinds, ~Restart
  PROVE  Onward /\ SessionKnown'
<1> DEFINE same == UNCHANGED <<mixed, opened, nextId>> /\ missed \subseteq missed'
<1>1. nextId \in Nat /\ (mixed => opened) /\ nextId # 0
  BY DEF CanvasInv, TypeOK, SessionKnown
<1>2. ASSUME same
      PROVE  Onward /\ SessionKnown'
  BY <1>1, <1>2 DEF Onward, SessionKnown
<1>3. CASE Amended \/ Deleted
  <2>1. same
    BY <1>3 DEF Amended, Deleted, EditTo, fileVars
  <2> QED BY <1>2, <2>1
<1>4. CASE Connected
  <2>1. same
    BY <1>4 DEF Connected, EditTo, fileVars
  <2> QED BY <1>2, <2>1
<1>5. CASE Placed
  <2>1. nextId' = nextId + 1 /\ mixed' = opened /\ UNCHANGED <<opened, missed>>
    BY <1>5 DEF Placed, addNode, Change, fileVars
  <2> QED BY <1>1, <2>1 DEF Onward, SessionKnown
<1>6. CASE Pasted
  <2>1. same
    BY <1>6 DEF Pasted, pasteClipboard, fileVars
  <2> QED BY <1>2, <2>1
<1>7. CASE Revisited
  <2>1. same
    BY <1>7 DEF Revisited, Undo, Redo, Revisit, fileVars
  <2> QED BY <1>2, <2>1
<1>8. CASE Aside \/ Filed
  <2>1. same
    BY <1>8 DEF Aside, Filed, SaveProject, SaveAnswered, SaveFailed, fileVars
  <2> QED BY <1>2, <2>1
<1>9. CASE applyProject /\ UNCHANGED missed
  <2>1. opened' = TRUE /\ UNCHANGED <<mixed, nextId, missed>>
    BY <1>9 DEF applyProject
  <2> QED BY <1>1, <2>1 DEF Onward, SessionKnown
<1>10. CASE NewProject /\ UNCHANGED missed
  <2>1. same
    BY <1>10 DEF NewProject
  <2> QED BY <1>2, <2>1
<1> QED BY <1>3, <1>4, <1>5, <1>6, <1>7, <1>8, <1>9, <1>10 DEF Kinds


---------------------------------------------------------------------------
(***************************************************************************)
(* The canvas after a step, by kind.                                       *)
(***************************************************************************)
LEMMA CanvasIsSound ==
  ASSUME CanvasInv
  PROVE  /\ TypeOK /\ nextId \in Nat /\ nextId # 0 /\ (mixed => opened)
         /\ selected \subseteq Ids(nodes)
         /\ Fastened(edges, Ids(nodes) \cup missed)
         /\ (missed = {} => OneFeed(edges))
         /\ (~mixed => Distinct(nodes))
         /\ (~opened => Rooted(nodes, nextId))
BY DEF CanvasInv, TypeOK, DocumentsSound, Sound, SessionKnown, canvas

LEMMA CanvasBecomes ==
  ASSUME NEW ns \in Seq(Node), NEW es \in SUBSET Edge, NEW sel \in SUBSET Ids(ns),
         nodes' = ns, edges' = es, selected' = sel,
         Fastened(es, Ids(ns) \cup missed'), missed' = {} => OneFeed(es),
         ~mixed' => Distinct(ns), ~opened' => Rooted(ns, nextId')
  PROVE  canvas' \in Snapshot /\ Sound(canvas', missed', mixed', opened', nextId')
<1>1. canvas' = [nodes |-> ns, edges |-> es, selected |-> sel]
  BY DEF canvas
<1>2. Ids(ns) \subseteq Id
  BY SteppedIds
<1>3. canvas' \in Snapshot
  BY <1>1, <1>2 DEF Snapshot
<1>4. canvas'.nodes = ns /\ canvas'.edges = es /\ canvas'.selected = sel
  BY <1>1
<1> QED BY <1>3, <1>4 DEF Sound

LEMMA SameNamesSame ==
  ASSUME TypeOK, NEW ms \in Seq(Node), SameNames(ms), NEW next
  PROVE  /\ Ids(ms) = Ids(nodes)
         /\ Distinct(nodes) => Distinct(ms)
         /\ Rooted(nodes, next) => Rooted(ms, next)
<1>1. DOMAIN ms = DOMAIN nodes /\ \A i \in DOMAIN nodes : ms[i].id = nodes[i].id
  BY TypedSteps DEF SameNames
<1> QED BY <1>1 DEF Ids, Distinct, Rooted

LEMMA AmendedSound ==
  ASSUME CanvasInv, Amended
  PROVE  canvas' \in Snapshot /\ Sound(canvas', missed', mixed', opened', nextId')
<1>1. PICK ms \in Seq(Node), es \in SUBSET edges : SameNames(ms) /\ EditTo(ms, es, selected, missed)
  BY DEF Amended
<1>2. nodes' = ms /\ edges' = es /\ selected' = selected /\ UNCHANGED <<missed, mixed, opened, nextId>>
  BY <1>1 DEF EditTo, fileVars
<1>3. /\ Ids(ms) = Ids(nodes)
      /\ Distinct(nodes) => Distinct(ms)
      /\ Rooted(nodes, nextId) => Rooted(ms, nextId)
  BY <1>1, CanvasIsSound, SameNamesSame
<1>4. es \in SUBSET Edge /\ selected \in SUBSET Ids(ms)
  BY <1>3, CanvasIsSound, TypedSteps
<1>5. Fastened(es, Ids(ms) \cup missed) /\ (missed = {} => OneFeed(es))
  BY <1>3, CanvasIsSound DEF Fastened, OneFeed
<1> QED BY <1>2, <1>3, <1>4, <1>5, CanvasIsSound, CanvasBecomes

LEMMA DeletedSound ==
  ASSUME CanvasInv, Deleted
  PROVE  canvas' \in Snapshot /\ Sound(canvas', missed', mixed', opened', nextId')
<1>1. PICK gone : EditTo(Without(gone), Apart(gone), selected \ gone, missed)
  BY DEF Deleted
<1> DEFINE ids == Ids(nodes) \ gone
           ms  == Kept(nodes, ids)
           es  == Apart(gone)
<1>2. nodes' = ms /\ edges' = es /\ selected' = selected \ gone /\ UNCHANGED <<missed, mixed, opened, nextId>>
  BY <1>1 DEF EditTo, fileVars, Without
<1>3. /\ ms \in Seq(Node) /\ Ids(ms) = Ids(nodes) \cap ids
      /\ \A i \in DOMAIN ms : \E j \in DOMAIN nodes : ms[i] = nodes[j]
      /\ Distinct(nodes) => Distinct(ms)
  BY CanvasIsSound, TypedSteps, KeptSteps
<1> HIDE DEF ms
<1>4. Ids(ms) = Ids(nodes) \ gone
  BY <1>3
<1>5. es \in SUBSET Edge /\ selected \ gone \in SUBSET Ids(ms)
  BY <1>4, CanvasIsSound, TypedSteps DEF Apart
<1>6. Fastened(es, Ids(ms) \cup missed) /\ (missed = {} => OneFeed(es))
  BY <1>4, CanvasIsSound DEF Fastened, OneFeed, Apart
<1>7. Rooted(nodes, nextId) => Rooted(ms, nextId)
  BY <1>3 DEF Rooted
<1> HIDE DEF es
<1> QED BY <1>2, <1>3, <1>5, <1>6, <1>7, CanvasIsSound, CanvasBecomes

LEMMA ConnectedSound ==
  ASSUME CanvasInv, Connected
  PROVE  canvas' \in Snapshot /\ Sound(canvas', missed', mixed', opened', nextId')
<1>1. PICK s \in Id, t \in Id :
        EditTo(nodes, Joined(s, t), selected, missed \cup ({s, t} \ Ids(nodes)))
  BY DEF Connected
<1> DEFINE es == Joined(s, t)
<1>2. /\ nodes' = nodes /\ edges' = es /\ selected' = selected /\ UNCHANGED <<mixed, opened, nextId>>
      /\ missed' = missed \cup ({s, t} \ Ids(nodes))
  BY <1>1 DEF EditTo, fileVars
<1>3. es \in SUBSET Edge /\ selected \in SUBSET Ids(nodes) /\ nodes \in Seq(Node)
  BY CanvasIsSound, TypedSteps DEF Joined, Edge
<1>4. Fastened(es, Ids(nodes) \cup missed')
  BY <1>2, CanvasIsSound DEF Fastened, Joined
<1>5. missed' = {} => OneFeed(es)
  BY <1>2, CanvasIsSound DEF OneFeed, Joined
<1> HIDE DEF es
<1> QED BY <1>2, <1>3, <1>4, <1>5, CanvasIsSound, CanvasBecomes

LEMMA RevisitedSound ==
  ASSUME CanvasInv, Revisited, Onward
  PROVE  canvas' \in Snapshot /\ Sound(canvas', missed', mixed', opened', nextId')
<1>1. TypeOK /\ \A d \in Entries : Sound(d, missed, mixed, opened, nextId)
  BY DEF CanvasInv, DocumentsSound
<1>2. canvas' \in Snapshot /\ canvas' \in Entries
  <2> DEFINE p == history.past
             f == history.future
  <2>1. p \in Seq(Snapshot) /\ f \in Seq(Snapshot)
    BY <1>1, TypedHistory
  <2>2. ASSUME p # <<>>
        PROVE  p[Len(p)] \in Elements(p)
    BY <2>1, <2>2 DEF Elements
  <2>3. ASSUME f # <<>>
        PROVE  Head(f) \in Elements(f)
    <3>1. Head(f) = f[1] /\ 1 \in DOMAIN f
      BY <2>1, <2>3
    <3> QED BY <3>1 DEF Elements
  <2> QED BY <1>1, <2>2, <2>3, UndoneAndRedone DEF Entries
<1> QED BY <1>1, <1>2, StillSound

LEMMA AsideSound ==
  ASSUME CanvasInv, Aside \/ Filed
  PROVE  canvas' \in Snapshot /\ Sound(canvas', missed', mixed', opened', nextId')
<1>1. UNCHANGED <<nodes, edges, missed, mixed, opened, nextId>> /\ selected' \subseteq Ids(nodes)
  BY CanvasIsSound DEF Aside, Filed, SaveProject, SaveAnswered, SaveFailed, fileVars, documentVars
<1> QED BY <1>1, CanvasIsSound, TypedSteps, CanvasBecomes

LEMMA OpenedSound ==
  ASSUME CanvasInv, applyProject, UNCHANGED missed
  PROVE  canvas' \in Snapshot /\ Sound(canvas', missed', mixed', opened', nextId')
<1> DEFINE ns == Ordered(saved.nodes)
           es == saved.edges
<1>1. nodes' = ns /\ edges' = es /\ selected' = {} /\ opened' = TRUE /\ UNCHANGED <<missed, mixed>>
  BY DEF applyProject, Replace
<1>2. saved \in Graph /\ SoundFile(saved, missed)
  BY DEF CanvasInv, TypeOK, FileSound
<1>3. saved.nodes \in SUBSET Node /\ es \in SUBSET Edge /\ IsFiniteSet(saved.nodes)
      /\ NamedApart(saved.nodes)
  BY <1>2 DEF Graph, SoundFile
<1>4. ns \in Seq(Node) /\ Ids(ns) = NamesOf(saved.nodes) /\ Distinct(ns)
  BY <1>3, OrderedSteps
<1>5. Fastened(es, Ids(ns) \cup missed) /\ (missed = {} => OneFeed(es))
  BY <1>2, <1>4 DEF SoundFile
<1> HIDE DEF ns, es
<1> QED BY <1>1, <1>3, <1>4, <1>5, CanvasBecomes

LEMMA EmptySound ==
  ASSUME nodes' = <<>>, edges' = {}, selected' = {}
  PROVE  canvas' \in Snapshot /\ Sound(canvas', missed', mixed', opened', nextId')
<1> DEFINE ns == <<>>
<1>1. ns \in Seq(Node) /\ DOMAIN ns = {}
  OBVIOUS
<1>2. /\ Fastened({}, Ids(ns) \cup missed') /\ OneFeed({})
      /\ Distinct(ns) /\ Rooted(ns, nextId')
  BY <1>1 DEF Fastened, OneFeed, Distinct, Rooted
<1>3. nodes' = ns
  OBVIOUS
<1> HIDE DEF ns
<1> QED BY <1>1, <1>2, <1>3, CanvasBecomes


\* Steps beside steps, where no name is on both sides.
LEMMA StepsBeside ==
  ASSUME NEW ns \in Seq(Node), NEW ms \in Seq(Node), NEW next
  PROVE  LET r == ns \o ms IN
         /\ r \in Seq(Node)
         /\ Ids(r) = Ids(ns) \cup Ids(ms)
         /\ Distinct(ns) /\ Distinct(ms) /\ Ids(ns) \cap Ids(ms) = {} => Distinct(r)
         /\ Rooted(ns, next) /\ Rooted(ms, next) => Rooted(r, next)
<1> DEFINE r == ns \o ms
<1>1. /\ Len(ns) \in Nat /\ Len(ms) \in Nat
      /\ DOMAIN ns = 1 .. Len(ns) /\ DOMAIN ms = 1 .. Len(ms)
  OBVIOUS
<1>2. /\ r \in Seq(Node) /\ Len(r) = Len(ns) + Len(ms)
      /\ \A i \in 1 .. Len(ns) + Len(ms) : r[i] = IF i <= Len(ns) THEN ns[i] ELSE ms[i - Len(ns)]
  BY ConcatProperties
<1> HIDE DEF r
<1>3. DOMAIN r = 1 .. Len(ns) + Len(ms)
  BY <1>2
<1>4. ASSUME NEW i \in DOMAIN r
      PROVE  \/ i \in DOMAIN ns /\ r[i] = ns[i]
             \/ /\ i - Len(ns) \in DOMAIN ms /\ r[i] = ms[i - Len(ns)]
                /\ i = (i - Len(ns)) + Len(ns)
  <2>1. i \in Nat /\ i >= 1 /\ i <= Len(ns) + Len(ms)
    BY <1>1, <1>3
  <2>2. CASE i <= Len(ns)
    BY <1>1, <1>2, <1>3, <2>1, <2>2
  <2>3. CASE ~(i <= Len(ns))
    <3>1. i - Len(ns) \in DOMAIN ms /\ i = (i - Len(ns)) + Len(ns)
      BY <1>1, <2>1, <2>3
    <3>2. r[i] = ms[i - Len(ns)]
      BY <1>2, <1>3, <2>3
    <3> QED BY <3>1, <3>2
  <2> QED BY <2>2, <2>3
<1>5. \A i \in DOMAIN ns : i \in DOMAIN r /\ r[i] = ns[i]
  BY <1>1, <1>2, <1>3
<1>6. ASSUME NEW i \in DOMAIN ms
      PROVE  i + Len(ns) \in DOMAIN r /\ r[i + Len(ns)] = ms[i]
  <2>1. i + Len(ns) \in DOMAIN r /\ ~(i + Len(ns) <= Len(ns)) /\ (i + Len(ns)) - Len(ns) = i
    BY <1>1, <1>3
  <2> QED BY <1>2, <1>3, <2>1
<1>7. Ids(r) = Ids(ns) \cup Ids(ms)
  <2>1. ASSUME NEW i \in DOMAIN r
        PROVE  r[i].id \in Ids(ns) \cup Ids(ms)
    BY <1>4 DEF Ids
  <2>2. Ids(r) \subseteq Ids(ns) \cup Ids(ms)
    BY <2>1 DEF Ids
  <2>3. Ids(ns) \subseteq Ids(r)
    BY <1>5 DEF Ids
  <2>4. Ids(ms) \subseteq Ids(r)
    BY <1>6 DEF Ids
  <2> QED BY <2>2, <2>3, <2>4
<1>8. ASSUME Distinct(ns), Distinct(ms), Ids(ns) \cap Ids(ms) = {},
             NEW i \in DOMAIN r, NEW j \in DOMAIN r, r[i].id = r[j].id
      PROVE  i = j
  <2>1. \A k \in DOMAIN ns : ns[k].id \in Ids(ns)
    BY DEF Ids
  <2>2. \A k \in DOMAIN ms : ms[k].id \in Ids(ms)
    BY DEF Ids
  <2>3. CASE i \in DOMAIN ns /\ r[i] = ns[i]
    <3>1. r[i].id \in Ids(ns)
      BY <2>1, <2>3
    <3>2. j \in DOMAIN ns /\ r[j] = ns[j]
      BY <1>4, <1>8, <2>2, <3>1
    <3> QED BY <1>8, <2>3, <3>2 DEF Distinct
  <2>4. CASE /\ i - Len(ns) \in DOMAIN ms /\ r[i] = ms[i - Len(ns)]
             /\ i = (i - Len(ns)) + Len(ns)
    <3>1. r[i].id \in Ids(ms)
      BY <2>2, <2>4
    <3>2. /\ j - Len(ns) \in DOMAIN ms /\ r[j] = ms[j - Len(ns)]
          /\ j = (j - Len(ns)) + Len(ns)
      BY <1>4, <1>8, <2>1, <3>1
    <3>3. i - Len(ns) = j - Len(ns)
      BY <1>8, <2>4, <3>2 DEF Distinct
    <3> QED BY <2>4, <3>2, <3>3
  <2> QED BY <1>4, <2>3, <2>4
<1>9. ASSUME Rooted(ns, next), Rooted(ms, next), NEW i \in DOMAIN r
      PROVE  r[i].id.n # <<>> /\ r[i].id.n[1] \in 1 .. next - 1
  BY <1>4, <1>9 DEF Rooted
<1>10. Distinct(ns) /\ Distinct(ms) /\ Ids(ns) \cap Ids(ms) = {} => Distinct(r)
  BY <1>8 DEF Distinct
<1>11. Rooted(ns, next) /\ Rooted(ms, next) => Rooted(r, next)
  BY <1>9 DEF Rooted
<1> QED BY <1>2, <1>7, <1>10, <1>11 DEF r

LEMMA StepIsNode ==
  ASSUME NEW c \in Component, NEW p \in Place, NEW k \in Nat, k # 0
  PROVE  LET s == <<Step(c, k, p)>> IN
         /\ Step(c, k, p) \in Node /\ s \in Seq(Node)
         /\ Ids(s) = {Step(c, k, p).id} /\ Distinct(s) /\ Rooted(s, k + 1)
         /\ Step(c, k, p).id.n[1] = k
<1> DEFINE n == Step(c, k, p)
           s == <<n>>
<1>1. n.id = [of |-> c, n |-> <<k>>] /\ n \in Node
  BY CanvasAssumption DEF Step, Node, Id
<1>2. n.id.n = <<k>> /\ <<k>> # <<>> /\ <<k>>[1] = k /\ k \in 1 .. (k + 1) - 1
  BY <1>1
<1> HIDE DEF n
<1>3. s \in Seq(Node) /\ DOMAIN s = {1} /\ s[1] = n
  BY <1>1
<1> HIDE DEF s
<1>4. Ids(s) = {n.id} /\ Distinct(s) /\ Rooted(s, k + 1)
  BY <1>2, <1>3 DEF Ids, Distinct, Rooted
<1> QED BY <1>1, <1>2, <1>3, <1>4 DEF s, n

\* A step gets a number that no step here began with, unless a file was opened.
LEMMA PlacedSound ==
  ASSUME CanvasInv, Placed
  PROVE  canvas' \in Snapshot /\ Sound(canvas', missed', mixed', opened', nextId')
<1>1. PICK c \in Component, p \in Place : addNode(c, p) /\ UNCHANGED missed
  BY DEF Placed
<1> DEFINE n  == Step(c, nextId, p)
           ms == <<n>>
           ns == nodes \o ms
<1>2. /\ nodes' = Append(nodes, n) /\ edges' = edges /\ selected' = {n.id}
      /\ nextId' = nextId + 1 /\ mixed' = opened /\ UNCHANGED <<opened, missed>>
  BY <1>1 DEF addNode, Change, Show, fileVars
<1>3. nextId \in Nat /\ nextId # 0 /\ nodes \in Seq(Node) /\ edges \in SUBSET Edge
  BY CanvasIsSound, TypedSteps
<1>4. /\ n \in Node /\ ms \in Seq(Node) /\ Ids(ms) = {n.id} /\ Distinct(ms)
      /\ Rooted(ms, nextId + 1) /\ n.id.n[1] = nextId
  BY <1>3, StepIsNode
<1> HIDE DEF n
<1>5. Append(nodes, n) = ns
  BY <1>3, <1>4, AppendIsConcat
<1> HIDE DEF ms
<1>6. /\ ns \in Seq(Node) /\ Ids(ns) = Ids(nodes) \cup {n.id}
      /\ Distinct(nodes) /\ Distinct(ms) /\ Ids(nodes) \cap Ids(ms) = {} => Distinct(ns)
      /\ Rooted(nodes, nextId + 1) /\ Rooted(ms, nextId + 1) => Rooted(ns, nextId + 1)
  BY <1>3, <1>4, StepsBeside
<1>7. ASSUME ~opened
      PROVE  Distinct(ns) /\ Rooted(ns, nextId + 1)
  <2>1. Distinct(nodes) /\ Rooted(nodes, nextId)
    BY <1>7, CanvasIsSound
  <2>2. Rooted(nodes, nextId + 1)
    BY <1>3, <2>1, RootedLater
  <2>3. n.id \notin Ids(nodes)
    BY <1>3, <1>4, <2>1 DEF Rooted, Ids
  <2> QED BY <1>4, <1>6, <2>1, <2>2, <2>3
<1> HIDE DEF ns
<1>8. Fastened(edges, Ids(ns) \cup missed) /\ {n.id} \in SUBSET Ids(ns)
  BY <1>6, CanvasIsSound DEF Fastened
<1> QED BY <1>2, <1>3, <1>5, <1>6, <1>7, <1>8, CanvasIsSound, CanvasBecomes

\* What is selected, and what was copied, can be pasted.
LEMMA ClipsAreSound ==
  ASSUME CanvasInv, NEW clip \in {clipboard, cut(nodes, edges, selected)}
  PROVE  clip \in Clip /\ SoundClip(clip, missed, mixed, opened, nextId)
<1>1. clipboard \in Clip /\ SoundClip(clipboard, missed, mixed, opened, nextId)
  BY DEF CanvasInv, TypeOK, ClipboardSound
<1> DEFINE c == cut(nodes, edges, selected)
<1>2. /\ c \in Clip /\ c.edges \subseteq edges /\ Fastened(c.edges, Ids(c.nodes))
      /\ Distinct(nodes) => Distinct(c.nodes)
      /\ Rooted(nodes, nextId) => Rooted(c.nodes, nextId)
  BY CanvasIsSound, TypedSteps, CutSteps
<1> HIDE DEF c
<1>3. missed = {} => OneFeed(c.edges)
  BY <1>2, CanvasIsSound DEF OneFeed
<1>4. SoundClip(c, missed, mixed, opened, nextId)
  BY <1>2, <1>3, CanvasIsSound DEF SoundClip
<1> QED BY <1>1, <1>2, <1>4 DEF c

\* What is pasted has names that nothing here has, and feeds nothing that is here.
LEMMA PastedSound ==
  ASSUME CanvasInv, Pasted
  PROVE  canvas' \in Snapshot /\ Sound(canvas', missed', mixed', opened', nextId')
<1>1. PICK clip \in {clipboard, cut(nodes, edges, selected)} : pasteClipboard(clip) /\ UNCHANGED missed
  BY DEF Pasted
<1>2. clip \in Clip /\ SoundClip(clip, missed, mixed, opened, nextId)
  BY ClipsAreSound
<1> DEFINE p  == paste(clip, Ids(nodes))
           ns == nodes \o p.nodes
           es == edges \cup p.edges
<1>3. /\ nodes' = ns /\ edges' = es /\ selected' = Ids(p.nodes)
      /\ UNCHANGED <<missed, mixed, opened, nextId>>
  BY <1>1 DEF pasteClipboard, Show, fileVars
<1>4. nodes \in Seq(Node) /\ edges \in SUBSET Edge /\ Ids(nodes) \in SUBSET Id /\ IsFiniteSet(Ids(nodes))
  BY CanvasIsSound, TypedSteps
<1>5. /\ p \in Clip /\ Ids(p.nodes) \cap Ids(nodes) = {}
      /\ Distinct(clip.nodes) => Distinct(p.nodes)
      /\ Rooted(clip.nodes, nextId) => Rooted(p.nodes, nextId)
      /\ Fastened(clip.edges, Ids(clip.nodes)) =>
           /\ Fastened(p.edges, Ids(p.nodes))
           /\ OneFeed(clip.edges) => OneFeed(p.edges)
  BY <1>2, <1>4, PastedSteps
<1> HIDE DEF p
<1>6. p.nodes \in Seq(Node) /\ p.edges \in SUBSET Edge
  BY <1>5 DEF Clip
<1>7. /\ ns \in Seq(Node) /\ Ids(ns) = Ids(nodes) \cup Ids(p.nodes)
      /\ Distinct(nodes) /\ Distinct(p.nodes) /\ Ids(nodes) \cap Ids(p.nodes) = {} => Distinct(ns)
      /\ Rooted(nodes, nextId) /\ Rooted(p.nodes, nextId) => Rooted(ns, nextId)
  BY <1>4, <1>6, StepsBeside
<1>8. Fastened(p.edges, Ids(p.nodes)) /\ (missed = {} => OneFeed(p.edges))
  BY <1>2, <1>5 DEF SoundClip
<1>9. Fastened(es, Ids(ns) \cup missed)
  BY <1>7, <1>8, CanvasIsSound DEF Fastened
<1>10. ASSUME missed = {}
       PROVE  OneFeed(es)
  <2>1. OneFeed(edges) /\ OneFeed(p.edges)
    BY <1>8, <1>10, CanvasIsSound
  <2>2. \A e \in edges : e.target \in Ids(nodes)
    BY <1>10, CanvasIsSound DEF Fastened
  <2>3. \A e \in p.edges : e.target \in Ids(p.nodes)
    BY <1>8 DEF Fastened
  <2> QED BY <1>5, <2>1, <2>2, <2>3 DEF OneFeed
<1>11. (~mixed => Distinct(ns)) /\ (~opened => Rooted(ns, nextId))
  BY <1>2, <1>5, <1>7, CanvasIsSound DEF SoundClip
<1>12. es \in SUBSET Edge /\ Ids(p.nodes) \in SUBSET Ids(ns)
  BY <1>4, <1>6, <1>7
<1> HIDE DEF ns, es
<1> QED BY <1>3, <1>7, <1>9, <1>10, <1>11, <1>12, CanvasBecomes

LEMMA CanvasAfter ==
  ASSUME CanvasInv, Kinds
  PROVE  canvas' \in Snapshot /\ Sound(canvas', missed', mixed', opened', nextId')
<1>1. CASE Revisited
  <2>1. Onward \/ Restart
    BY SessionsGoOn
  <2>2. CASE Onward
    BY <1>1, <2>2, RevisitedSound
  <2>3. CASE Restart
    BY <2>3, EmptySound DEF Restart, Replace
  <2> QED BY <2>1, <2>2, <2>3
<1>2. CASE (NewProject /\ UNCHANGED missed) \/ Restart
  BY <1>2, EmptySound DEF NewProject, Restart, Replace
<1> QED BY <1>1, <1>2, AmendedSound, DeletedSound, ConnectedSound, PlacedSound, PastedSound,
           AsideSound, OpenedSound DEF Kinds


---------------------------------------------------------------------------
(***************************************************************************)
(* The other documents after a step.                                       *)
(***************************************************************************)
\* No identifiers, no connections: nothing can be wrong with it.
LEMMA EmptyClip ==
  ASSUME NEW lost, NEW mix, NEW open, NEW next
  PROVE  Empty \in Clip /\ SoundClip(Empty, lost, mix, open, next)
<1> DEFINE ns == <<>>
<1>1. Empty = [nodes |-> ns, edges |-> {}] /\ ns \in Seq(Node) /\ DOMAIN ns = {}
  BY DEF Empty
<1> HIDE DEF ns
<1>2. Empty \in Clip /\ Empty.nodes = ns /\ Empty.edges = {}
  BY <1>1 DEF Clip
<1> QED BY <1>1, <1>2 DEF SoundClip, Fastened, OneFeed, Distinct, Rooted

LEMMA ClipAfter ==
  ASSUME CanvasInv, Kinds
  PROVE  clipboard' \in Clip /\ ClipboardSound'
<1>1. CASE Restart
  <2>1. clipboard' = Empty
    BY <1>1 DEF Restart
  <2> QED BY <2>1, EmptyClip DEF ClipboardSound
<1>2. CASE ~Restart
  <2>1. Onward /\ TypeOK
    BY <1>2, SessionsGoOn, CanvasIsSound
  <2>2. clipboard' \in {clipboard, cut(nodes, edges, selected)}
    <3>1. CASE Amended \/ Deleted \/ Connected
      BY <3>1 DEF Amended, Deleted, Connected, EditTo
    <3>2. CASE Placed \/ Pasted \/ Revisited
      BY <3>2 DEF Placed, addNode, Change, Pasted, Revisited, Undo, Redo, Revisit
    <3>3. CASE Aside \/ Filed \/ applyProject \/ NewProject
      BY <3>3 DEF Aside, Filed, SaveProject, SaveAnswered, SaveFailed, applyProject, NewProject
    <3> QED BY <1>2, <3>1, <3>2, <3>3 DEF Kinds
  <2>3. clipboard' \in Clip /\ SoundClip(clipboard', missed, mixed, opened, nextId)
    BY <2>2, ClipsAreSound
  <2> QED BY <2>1, <2>3, StillSoundClip DEF ClipboardSound
<1> QED BY <1>1, <1>2

LEMMA GraphOfCanvas ==
  ASSUME CanvasInv
  PROVE  toGraph(nodes, edges) \in Graph /\ SoundFile(toGraph(nodes, edges), missed)
<1> DEFINE g == toGraph(nodes, edges)
<1>1. /\ g \in Graph /\ g.edges = edges /\ IsFiniteSet(g.nodes)
      /\ NamesOf(g.nodes) = Ids(nodes) /\ NamedApart(g.nodes)
  BY CanvasIsSound, TypedSteps, FiledSteps
<1> HIDE DEF g
<1>2. SoundFile(g, missed)
  BY <1>1, CanvasIsSound DEF SoundFile
<1> QED BY <1>1, <1>2 DEF g

LEMMA FileAfter ==
  ASSUME CanvasInv, Kinds
  PROVE  /\ {saved', base'} \subseteq Graph /\ saving' \in Graph \cup {None}
         /\ overtaken' \in BOOLEAN /\ FileSound' /\ CarriesCanvas' /\ CleanMeansSaved'
<1> DEFINE g == toGraph(nodes, edges)
<1>1. /\ saved \in Graph /\ base \in Graph /\ saving \in Graph \cup {None}
      /\ overtaken \in BOOLEAN /\ SoundFile(saved, missed)
      /\ (saving # None => SoundFile(saving, missed))
      /\ (saving # None => overtaken \/ g = saving)
      /\ (~dirty => g = base \/ overtaken)
  BY DEF CanvasInv, TypeOK, FileSound, CarriesCanvas, CleanMeansSaved
<1> HIDE DEF g
<1>2. ASSUME ~Restart
      PROVE  SoundFile(saved, missed') /\ (saving # None => SoundFile(saving, missed'))
  <2>1. Onward
    BY <1>2, SessionsGoOn
  <2> QED BY <1>1, <2>1, StillSoundFile DEF Onward
<1>3. CASE (Amended \/ Deleted \/ Connected \/ Placed \/ Pasted \/ Revisited) /\ ~Restart
  <2>1. UNCHANGED <<saved, saving, base>> /\ dirty' = TRUE /\ overtaken' = (overtaken \/ saving # None)
    <3>1. CASE Amended \/ Deleted \/ Connected
      BY <3>1 DEF Amended, Deleted, Connected, EditTo, fileVars
    <3>2. CASE Placed
      BY <3>2 DEF Placed, addNode, Change, Show, fileVars
    <3>3. CASE Pasted
      BY <3>3 DEF Pasted, pasteClipboard, Show, fileVars
    <3>4. CASE Revisited
      BY <3>4 DEF Revisited, Undo, Redo, Revisit, Show, fileVars
    <3> QED BY <1>3, <3>1, <3>2, <3>3, <3>4
  <2> QED BY <1>1, <1>2, <1>3, <2>1 DEF FileSound, CarriesCanvas, CleanMeansSaved
<1>4. CASE Aside /\ ~Restart
  <2>1. UNCHANGED <<saved, saving, base, dirty, overtaken, nodes, edges>>
    BY <1>4 DEF Aside, fileVars
  <2>2. CarriesCanvas' /\ CleanMeansSaved'
    BY <1>1, <2>1 DEF CarriesCanvas, CleanMeansSaved, g
  <2> QED BY <1>1, <1>2, <1>4, <2>1, <2>2 DEF FileSound
<1>5. CASE SaveProject /\ ~Restart
  <2>1. saving' = g /\ UNCHANGED <<saved, base, dirty, overtaken, nodes, edges, missed>>
    BY <1>5 DEF SaveProject, documentVars, g
  <2>2. g \in Graph /\ SoundFile(g, missed)
    BY GraphOfCanvas DEF g
  <2>3. CarriesCanvas' /\ CleanMeansSaved'
    BY <1>1, <2>1 DEF CarriesCanvas, CleanMeansSaved, g
  <2> QED BY <1>1, <2>1, <2>2, <2>3 DEF FileSound
<1>6. CASE SaveAnswered /\ ~Restart
  <2>1. /\ saving # None /\ saving' = None /\ saved' = saving /\ base' = saving
        /\ overtaken' = (overtaken /\ g # saving) /\ UNCHANGED <<nodes, edges, missed>>
    BY <1>6 DEF SaveAnswered, documentVars, g
  <2>2. CarriesCanvas' /\ CleanMeansSaved'
    BY <1>1, <2>1 DEF CarriesCanvas, CleanMeansSaved, g
  <2> QED BY <1>1, <2>1, <2>2 DEF FileSound
<1>7. CASE SaveFailed /\ ~Restart
  <2>1. saving' = None /\ UNCHANGED <<saved, base, dirty, overtaken, nodes, edges, missed>>
    BY <1>7 DEF SaveFailed, documentVars
  <2>2. CarriesCanvas' /\ CleanMeansSaved'
    BY <1>1, <2>1 DEF CarriesCanvas, CleanMeansSaved, g
  <2> QED BY <1>1, <2>1, <2>2 DEF FileSound
<1>8. CASE applyProject \/ NewProject \/ Restart
  <2>1. /\ saved' = saved /\ base' = toGraph(nodes', edges') /\ saving' \in {saving, None}
        /\ overtaken' = (saving' # None)
    <3>1. CASE applyProject
      BY <3>1 DEF applyProject, Replace
    <3>2. CASE NewProject
      BY <3>2 DEF NewProject, Replace
    <3>3. CASE Restart
      BY <3>3 DEF Restart, Replace
    <3> QED BY <1>8, <3>1, <3>2, <3>3
  <2>2. nodes' \in Seq(Node) /\ edges' \in SUBSET Edge
    BY CanvasAfter DEF canvas, Snapshot
  <2>3. base' \in Graph
    BY <2>1, <2>2, FiledSteps
  <2>4. CarriesCanvas' /\ CleanMeansSaved'
    BY <2>1 DEF CarriesCanvas, CleanMeansSaved
  <2>5. FileSound'
    <3>1. CASE Restart
      BY <1>1, <2>1, <3>1 DEF Restart, FileSound
    <3>2. CASE ~Restart
      BY <1>2, <2>1, <3>2 DEF FileSound
    <3> QED BY <3>1, <3>2
  <2> QED BY <1>1, <2>1, <2>3, <2>4, <2>5
<1> QED BY <1>3, <1>4, <1>5, <1>6, <1>7, <1>8 DEF Kinds, Filed

\* What is shown is remembered until another project is.
LEMMA ShownAfter ==
  ASSUME CanvasInv, Kinds
  PROVE  /\ CanvasShown' /\ shown' \subseteq Clip
         /\ shown \subseteq shown' \/ Entries' = {}
<1> DEFINE now == [nodes |-> nodes', edges |-> edges']
<1>1. shown \subseteq Clip /\ [nodes |-> nodes, edges |-> edges] \in shown
  BY DEF CanvasInv, TypeOK, CanvasShown
<1>2. now \in Clip
  BY CanvasAfter DEF canvas, Snapshot, Clip
<1>3. CASE Amended \/ Deleted \/ Connected \/ Placed \/ Pasted \/ Revisited
  <2>1. shown' = shown \cup {now}
    <3>1. CASE Amended \/ Deleted \/ Connected
      BY <3>1 DEF Amended, Deleted, Connected, EditTo
    <3>2. CASE Placed
      BY <3>2 DEF Placed, addNode, Change, Show
    <3>3. CASE Pasted
      BY <3>3 DEF Pasted, pasteClipboard, Show
    <3>4. CASE Revisited
      BY <3>4 DEF Revisited, Undo, Redo, Revisit, Show
    <3> QED BY <1>3, <3>1, <3>2, <3>3, <3>4
  <2> QED BY <1>1, <1>2, <2>1 DEF CanvasShown
<1>4. CASE Aside \/ Filed
  <2>1. UNCHANGED <<nodes, edges, shown>>
    BY <1>4 DEF Aside, Filed, SaveProject, SaveAnswered, SaveFailed, documentVars
  <2> QED BY <1>1, <2>1 DEF CanvasShown
<1>5. CASE applyProject \/ NewProject \/ Restart
  <2>1. shown' = {now} /\ history' = emptyHistory
    BY <1>5 DEF applyProject, NewProject, Restart, Replace
  <2>2. Entries' = {}
    BY <2>1 DEF Entries, Elements, emptyHistory
  <2> QED BY <1>2, <2>1, <2>2 DEF CanvasShown
<1> QED BY <1>3, <1>4, <1>5 DEF Kinds

LEMMA RevisitsAre ==
  UndoOnlyRevisits <=> \A s \in Entries : [nodes |-> s.nodes, edges |-> s.edges] \in shown
BY Zenon DEF UndoOnlyRevisits, Entries, Elements

LEMMA DocumentsAfter ==
  ASSUME CanvasInv, Kinds
  PROVE  DocumentsSound' /\ UndoOnlyRevisits'
<1>1. TypeOK /\ DocumentsSound /\ UndoOnlyRevisits /\ CanvasShown
  BY DEF CanvasInv
<1>2. Entries' \subseteq Entries \cup {canvas}
  BY <1>1, HistoryTurns, HistoryAfter
<1>3. Sound(canvas', missed', mixed', opened', nextId')
  BY CanvasAfter
<1>4. \A d \in Entries' : Sound(d, missed', mixed', opened', nextId')
  <2>1. CASE Restart
    <3>1. history' = emptyHistory
      BY <2>1 DEF Restart, Replace
    <3>2. Entries' = {}
      BY <3>1 DEF Entries, Elements, emptyHistory
    <3> QED BY <3>2
  <2>2. CASE ~Restart
    <3>1. Onward
      BY <2>2, SessionsGoOn
    <3>2. \A d \in Entries \cup {canvas} : Sound(d, missed, mixed, opened, nextId)
      BY <1>1 DEF DocumentsSound
    <3> QED BY <1>1, <1>2, <3>1, <3>2, StillSound
  <2> QED BY <2>1, <2>2
<1>5. \A s \in Entries' : [nodes |-> s.nodes, edges |-> s.edges] \in shown'
  <2>1. [nodes |-> canvas.nodes, edges |-> canvas.edges] \in shown
    BY <1>1 DEF canvas, CanvasShown
  <2>2. \A s \in Entries \cup {canvas} : [nodes |-> s.nodes, edges |-> s.edges] \in shown
    BY <1>1, <2>1, RevisitsAre
  <2> QED BY <1>2, <2>2, ShownAfter
<1>6. UndoOnlyRevisits'
  BY <1>5, Zenon DEF UndoOnlyRevisits, Entries, Elements
<1> QED BY <1>3, <1>4, <1>6 DEF DocumentsSound


---------------------------------------------------------------------------
(***************************************************************************)
(* The modes of the keyboard and the pointer, which no kind tells of.      *)
(***************************************************************************)
ModesTyped ==
  dragging \in Id \cup {None} /\ connecting \in Edge \cup {None} /\ focusedEdge \in Edge \cup {None}

\* The step the inspector shows is one of the canvas.
LEMMA FirstIsHere ==
  ASSUME TypeOK
  PROVE  selectedNodeId = None \/ selectedNodeId \in Ids(nodes)
<1> DEFINE chosen == {i \in DOMAIN nodes : nodes[i].id \in selected}
           least  == CHOOSE i \in chosen : \A j \in chosen : i <= j
<1>1. selectedNodeId = IF chosen = {} THEN None ELSE nodes[least].id
  BY DEF selectedNodeId, First
<1>2. ASSUME chosen # {}
      PROVE  least \in DOMAIN nodes
  <2>1. chosen \in SUBSET Nat /\ chosen \subseteq DOMAIN nodes
    BY TypedSteps
  <2> HIDE DEF chosen
  <2>2. \E i \in chosen : \A j \in chosen : i <= j
    BY <1>2, <2>1, LeastNatural
  <2>3. least \in chosen
    BY <2>2, Zenon
  <2> QED BY <2>1, <2>3
<1> HIDE DEF chosen, least
<1> QED BY <1>1, <1>2 DEF Ids

LEMMA ModesKeep ==
  ASSUME NEW c \in Edge \cup {None}, NEW f \in Edge \cup {None}, Modes(c, f)
  PROVE  connecting' \in Edge \cup {None} /\ focusedEdge' \in Edge \cup {None}
BY DEF Modes

LEMMA SettleKeeps ==
  ASSUME ModesTyped, Settle
  PROVE  ModesTyped'
<1>1. dragging' = dragging /\ Modes(connecting, focusedEdge)
  BY DEF Settle
<1>2. connecting' \in Edge \cup {None} /\ focusedEdge' \in Edge \cup {None}
  BY <1>1, ModesKeep DEF ModesTyped
<1> QED BY <1>1, <1>2 DEF ModesTyped

LEMMA KeysKeep ==
  ASSUME ModesTyped, NEW c \in Edge \cup {None}, NEW f \in Edge \cup {None}, KeysOnly(c, f)
  PROVE  ModesTyped'
BY DEF ModesTyped, KeysOnly

LEMMA ModesAfterSteps ==
  ASSUME TypeOK, ModesTyped, Steps
  PROVE  ModesTyped'
<1>1. CASE Settle
  BY <1>1, SettleKeeps
<1>2. CASE Select
  <2>1. dragging' = dragging /\ Modes(connecting, focusedEdge)
    BY <1>2 DEF Select
  <2> QED BY <2>1, ModesKeep DEF ModesTyped
<1>3. Settle \/ Select
  <2>1. CASE \E c \in Component, p \in Place : addNode(c, p)
    BY <2>1 DEF addNode
  <2>2. CASE \E id \in {selectedNodeId} \ {None}, value \in Config : setConfig(id, value)
    BY <2>2 DEF setConfig
  <2>3. CASE \E id \in {selectedNodeId} \ {None} : toggleDisabled(id) \/ deleteSteps({id})
    BY <2>3 DEF toggleDisabled, deleteSteps
  <2>4. CASE toggleDisabledMany(selected) \/ deleteSteps(selected)
    BY <2>4 DEF toggleDisabledMany, deleteSteps
  <2>5. CASE Select
    BY <2>5
  <2> QED BY <2>1, <2>2, <2>3, <2>4, <2>5 DEF Steps
<1> QED BY <1>1, <1>2, <1>3

LEMMA ModesAfterReports ==
  ASSUME TypeOK, ModesTyped, Reports
  PROVE  ModesTyped'
<1>1. CASE DragFrame
  <2>1. dragging' \in Ids(nodes) /\ Modes(connecting, focusedEdge)
    BY <1>1 DEF DragFrame
  <2> QED BY <2>1, ModesKeep, TypedSteps DEF ModesTyped
<1>2. CASE DragEnd
  <2>1. dragging' = None /\ Modes(connecting, focusedEdge)
    BY <1>2 DEF DragEnd
  <2> QED BY <2>1, ModesKeep DEF ModesTyped
<1>3. CASE (\E e \in edges : onEdgesRemoved({e})) \/ onNodesRemoved(selected)
  BY <1>3, SettleKeeps DEF onEdgesRemoved, onNodesRemoved
<1> QED BY <1>1, <1>2, <1>3 DEF Reports

LEMMA ModesAfterConnections ==
  ASSUME TypeOK, ModesTyped, Connections
  PROVE  ModesTyped'
<1> USE DEF ModesTyped
<1>1. edges \in SUBSET Edge /\ Ids(nodes) \subseteq Id
  BY TypedSteps
<1>2. CASE DropWire \/ \E e \in edges : deleteConnection(e)
  BY <1>2, SettleKeeps DEF DropWire, deleteConnection
<1>3. CASE beginConnect
  <2>1. PICK t \in Targets(selectedNodeId) :
          KeysOnly([source |-> selectedNodeId, target |-> t], None) /\ selectedNodeId # None
    BY <1>3 DEF beginConnect
  <2>2. selectedNodeId \in Id /\ t \in Id
    BY <1>1, <2>1, FirstIsHere DEF Targets
  <2>3. [source |-> selectedNodeId, target |-> t] \in Edge
    BY <2>2 DEF Edge
  <2> QED BY <2>1, <2>3, KeysKeep
<1>4. CASE moveTarget
  <2>1. PICK t \in Targets(connecting.source) :
          KeysOnly([connecting EXCEPT !.target = t], focusedEdge) /\ connecting # None
    BY <1>4 DEF moveTarget
  <2>2. connecting \in Edge /\ t \in Id
    BY <1>1, <2>1 DEF Targets
  <2>3. [connecting EXCEPT !.target = t] \in Edge
    BY <2>2 DEF Edge
  <2> QED BY <2>1, <2>3, KeysKeep
<1>5. CASE finishConnect
  <2>1. dragging' = dragging /\ Modes(None, focusedEdge)
    BY <1>5 DEF finishConnect
  <2> QED BY <2>1, ModesKeep
<1>6. CASE cancelConnect \/ dropFocusedEdge
  BY <1>6, KeysKeep DEF cancelConnect, dropFocusedEdge
<1>7. CASE moveFocusedEdge
  BY <1>1, <1>7, KeysKeep DEF moveFocusedEdge
<1>8. CASE deleteFocusedEdge
  <2>1. CASE KeysOnly(None, None)
    BY <2>1, KeysKeep
  <2>2. CASE dragging' = dragging /\ Modes(connecting, None)
    BY <2>2, ModesKeep
  <2> QED BY <1>8, <2>1, <2>2 DEF deleteFocusedEdge
<1> QED BY <1>2, <1>3, <1>4, <1>5, <1>6, <1>7, <1>8 DEF Connections

LEMMA ModesAfterProjects ==
  ASSUME TypeOK, ModesTyped, Projects
  PROVE  ModesTyped'
<1>1. CASE Undo \/ Redo
  BY <1>1, SettleKeeps DEF Undo, Redo, Revisit
<1>2. CASE Paste \/ duplicateSelection
  BY <1>2, SettleKeeps DEF Paste, duplicateSelection, pasteClipboard
<1>3. CASE copySelection \/ SaveProject \/ SaveAnswered \/ SaveFailed
  BY <1>3 DEF copySelection, SaveProject, SaveAnswered, SaveFailed, modeVars, ModesTyped
<1>4. CASE applyProject \/ NewProject
  BY <1>4, SettleKeeps DEF applyProject, NewProject
<1>5. CASE Restart
  BY <1>5 DEF Restart, ModesTyped
<1> QED BY <1>1, <1>2, <1>3, <1>4, <1>5 DEF Projects

LEMMA ModesAfter ==
  ASSUME TypeOK, Next
  PROVE  ModesTyped'
<1>1. ModesTyped
  BY DEF TypeOK, ModesTyped
<1> QED BY <1>1, ModesAfterSteps, ModesAfterReports, ModesAfterConnections, ModesAfterProjects
        DEF Next

---------------------------------------------------------------------------
(***************************************************************************)
(* The types after a step.                                                 *)
(***************************************************************************)
LEMMA CountersAfter ==
  ASSUME CanvasInv, Kinds
  PROVE  /\ nextId' \in Nat /\ missed' \subseteq Id /\ edits' \in 0 .. MaxEdits
         /\ dirty' \in BOOLEAN /\ opened' \in BOOLEAN /\ mixed' \in BOOLEAN
<1>1. /\ nextId \in Nat /\ missed \subseteq Id /\ edits \in 0 .. MaxEdits /\ MaxEdits \in Nat
      /\ dirty \in BOOLEAN /\ opened \in BOOLEAN /\ mixed \in BOOLEAN
  BY CanvasAssumption DEF CanvasInv, TypeOK
<1>2. CASE Amended \/ Deleted \/ Connected
  <2>1. /\ UNCHANGED <<nextId, mixed, opened>> /\ dirty' = TRUE
        /\ edits < MaxEdits /\ edits' = edits + 1
    BY <1>2 DEF Amended, Deleted, Connected, EditTo, fileVars
  <2>2. missed' \subseteq Id
    BY <1>1, <1>2 DEF Amended, Deleted, Connected, EditTo
  <2> QED BY <1>1, <2>1, <2>2
<1>3. CASE Placed
  <2>1. /\ nextId' = nextId + 1 /\ mixed' = opened /\ dirty' = TRUE /\ UNCHANGED <<opened, missed>>
        /\ edits < MaxEdits /\ edits' = edits + 1
    BY <1>3 DEF Placed, addNode, Change, fileVars
  <2>2. nextId' \in Nat /\ edits' \in 0 .. MaxEdits
    BY <1>1, <2>1
  <2>3. dirty' \in BOOLEAN /\ opened' \in BOOLEAN /\ mixed' \in BOOLEAN /\ missed' \subseteq Id
    BY <1>1, <2>1, Zenon
  <2> QED BY <2>2, <2>3
<1>4. CASE Pasted
  <2>1. /\ UNCHANGED <<nextId, mixed, opened, missed>> /\ dirty' = TRUE
        /\ edits < MaxEdits /\ edits' = edits + 1
    BY <1>4 DEF Pasted, pasteClipboard, fileVars
  <2> QED BY <1>1, <2>1
<1>5. CASE Revisited
  <2>1. UNCHANGED <<nextId, mixed, opened, missed, edits>> /\ dirty' = TRUE
    BY <1>5 DEF Revisited, Undo, Redo, Revisit, fileVars
  <2> QED BY <1>1, <2>1
<1>6. CASE Aside \/ Filed
  <2>1. /\ UNCHANGED <<nextId, mixed, opened, missed>> /\ dirty' \in {dirty, FALSE}
        /\ edits' = edits \/ (edits < MaxEdits /\ edits' = edits + 1)
    BY <1>6 DEF Aside, Filed, SaveProject, SaveAnswered, SaveFailed, fileVars
  <2>2. nextId' \in Nat /\ missed' \subseteq Id /\ opened' \in BOOLEAN /\ mixed' \in BOOLEAN
    BY <1>1, <2>1
  <2>3. dirty' \in BOOLEAN
    BY <1>1, <2>1
  <2>4. edits' \in 0 .. MaxEdits
    BY <1>1, <2>1
  <2> QED BY <2>2, <2>3, <2>4
<1>7. CASE (applyProject /\ UNCHANGED missed) \/ (NewProject /\ UNCHANGED missed) \/ Restart
  <2>1. /\ nextId' \in {nextId, 1} /\ mixed' \in {mixed, FALSE} /\ opened' \in {opened, TRUE, FALSE}
        /\ UNCHANGED <<missed, edits>> /\ dirty' = FALSE
    BY <1>7 DEF applyProject, NewProject, Restart, Replace
  <2>2. nextId' \in Nat
    BY <1>1, <2>1
  <2>3. dirty' \in BOOLEAN /\ opened' \in BOOLEAN /\ mixed' \in BOOLEAN
    BY <1>1, <2>1
  <2> QED BY <1>1, <2>1, <2>2, <2>3
<1> QED BY <1>2, <1>3, <1>4, <1>5, <1>6, <1>7 DEF Kinds

LEMMA TypesAfter ==
  ASSUME CanvasInv, Next
  PROVE  TypeOK'
<1>1. TypeOK /\ Kinds
  BY CanvasIsSound, ActionsAreKinds
<1>2. canvas' \in Snapshot
  BY <1>1, CanvasAfter
<1>3. /\ history' \in [past : Seq(Snapshot), future : Seq(Snapshot)]
      /\ Len(history'.past) + Len(history'.future) <= Limit
  BY <1>1, HistoryTurns, HistoryAfter
<1>4. /\ clipboard' \in Clip /\ {saved', base'} \subseteq Graph /\ shown' \subseteq Clip
      /\ saving' \in Graph \cup {None} /\ overtaken' \in BOOLEAN
  BY <1>1, ClipAfter, FileAfter, ShownAfter
<1>5. ModesTyped'
  BY <1>1, ModesAfter
<1>6. /\ nextId' \in Nat /\ missed' \subseteq Id /\ edits' \in 0 .. MaxEdits
      /\ dirty' \in BOOLEAN /\ opened' \in BOOLEAN /\ mixed' \in BOOLEAN
  BY <1>1, CountersAfter
<1> QED BY <1>2, <1>3, <1>4, <1>5, <1>6 DEF TypeOK, ModesTyped

LEMMA SessionAfter ==
  ASSUME CanvasInv, Kinds
  PROVE  SessionKnown'
<1>1. CASE Restart
  BY <1>1 DEF Restart, SessionKnown
<1> QED BY <1>1, SessionsGoOn


---------------------------------------------------------------------------
(***************************************************************************)
(* The invariant, from the start and through every step.                   *)
(***************************************************************************)
\* Steps and connections that are in order are so in a file.
LEMMA FiledInOrder ==
  ASSUME NEW ns \in Seq(Node), NEW es \in SUBSET Edge, Fastened(es, Ids(ns)), OneFeed(es)
  PROVE  toGraph(ns, es) \in Graph /\ SoundFile(toGraph(ns, es), {})
<1> DEFINE g == toGraph(ns, es)
<1>1. /\ g \in Graph /\ g.edges = es /\ IsFiniteSet(g.nodes)
      /\ NamesOf(g.nodes) = Ids(ns) /\ NamedApart(g.nodes)
  BY FiledSteps
<1> HIDE DEF g
<1>2. SoundFile(g, {})
  BY <1>1 DEF SoundFile
<1> QED BY <1>1, <1>2 DEF g

LEMMA InitialFile ==
  ASSUME Init
  PROVE  saved \in Graph /\ base \in Graph /\ Blank \in Graph /\ SoundFile(saved, {})
<1> DEFINE none == <<>>
           place == CHOOSE p \in Place : TRUE
<1>1. Blank \in Graph /\ SoundFile(Blank, {})
  <2>1. none \in Seq(Node) /\ {} \in SUBSET Edge /\ Fastened({}, Ids(none)) /\ OneFeed({})
    BY DEF Fastened, OneFeed
  <2>2. Blank = toGraph(none, {})
    BY DEF Blank
  <2> HIDE DEF none
  <2> QED BY <2>1, <2>2, FiledInOrder
<1>2. base = Blank
  BY DEF Init
<1>3. place \in Place
  BY CanvasAssumption, Zenon
<1> HIDE DEF place
<1>4. ASSUME NEW s \in Component, NEW t \in Component,
             saved = toGraph(<<Step(s, 1, place), Step(t, 2, place)>>,
                             {[source |-> Step(s, 1, place).id, target |-> Step(t, 2, place).id]})
      PROVE  saved \in Graph /\ SoundFile(saved, {})
  <2> DEFINE a  == Step(s, 1, place)
             b  == Step(t, 2, place)
             ns == <<a, b>>
             e  == [source |-> a.id, target |-> b.id]
             es == {e}
  <2>1. a \in Node /\ b \in Node
    <3>1. 1 \in Nat /\ 2 \in Nat /\ 1 # 0 /\ 2 # 0
      OBVIOUS
    <3>2. a \in Node
      BY <1>3, <3>1, StepIsNode
    <3>3. b \in Node
      BY <1>3, <3>1, StepIsNode
    <3> QED BY <3>2, <3>3
  <2> HIDE DEF a, b
  <2>2. ns \in Seq(Node) /\ DOMAIN ns = {1, 2} /\ ns[1] = a /\ ns[2] = b
    BY <2>1
  <2>3. a.id \in Id /\ b.id \in Id
    BY <2>1 DEF Node
  <2>4. e \in Edge /\ e.source = a.id /\ e.target = b.id
    BY <2>3 DEF Edge
  <2>5. saved = toGraph(ns, es)
    BY <1>4 DEF a, b
  <2> HIDE DEF ns, e
  <2>6. a.id \in Ids(ns) /\ b.id \in Ids(ns)
    BY <2>2 DEF Ids
  <2>7. es \in SUBSET Edge /\ Fastened(es, Ids(ns)) /\ OneFeed(es)
    BY <2>4, <2>6 DEF Fastened, OneFeed
  <2> HIDE DEF es
  <2> QED BY <2>2, <2>5, <2>7, FiledInOrder
<1>5. saved = Blank \/ \E s, t \in Component :
        saved = toGraph(<<Step(s, 1, place), Step(t, 2, place)>>,
                        {[source |-> Step(s, 1, place).id, target |-> Step(t, 2, place).id]})
  BY DEF Init, place
<1> QED BY <1>1, <1>2, <1>4, <1>5

LEMMA InitInvariant ==
  ASSUME Init
  PROVE  CanvasInv
<1> DEFINE none == <<>>
<1>1. /\ nodes = none /\ edges = {} /\ selected = {} /\ nextId = 1 /\ history = emptyHistory
      /\ clipboard = Empty /\ dirty = FALSE /\ opened = FALSE /\ mixed = FALSE
      /\ dragging = None /\ connecting = None /\ focusedEdge = None
      /\ base = Blank /\ shown = {Empty} /\ missed = {} /\ edits = 0
      /\ saving = None /\ overtaken = FALSE
  BY DEF Init
<1>2. none \in Seq(Node) /\ none \in Seq(Snapshot) /\ DOMAIN none = {} /\ Len(none) = 0
  OBVIOUS
<1>3. /\ history = [past |-> none, future |-> none]
      /\ Empty = [nodes |-> none, edges |-> {}] /\ Blank = toGraph(none, {})
  BY <1>1 DEF emptyHistory, Empty, Blank
<1> HIDE DEF none
<1>4. canvas = [nodes |-> none, edges |-> {}, selected |-> {}] /\ canvas \in Snapshot
  BY <1>1, <1>2 DEF canvas, Snapshot
<1>5. Entries = {}
  BY <1>2, <1>3 DEF Entries, Elements
<1>6. Empty \in Clip /\ SoundClip(Empty, {}, FALSE, FALSE, 1)
  BY EmptyClip
<1>7. saved \in Graph /\ base \in Graph /\ SoundFile(saved, {})
  BY InitialFile
<1>8. TypeOK
  <2>1. history \in [past : Seq(Snapshot), future : Seq(Snapshot)]
    BY <1>2, <1>3
  <2>2. Len(history.past) + Len(history.future) <= Limit
    <3>1. history.past = none /\ history.future = none
      BY <1>3
    <3>2. Limit \in Nat
      BY CanvasAssumption
    <3> QED BY <1>2, <3>1, <3>2
  <2>3. nextId \in Nat /\ missed \subseteq Id /\ edits \in 0 .. MaxEdits
    BY <1>1, CanvasAssumption
  <2>4. {dirty, overtaken, opened, mixed} \subseteq BOOLEAN /\ saving \in Graph \cup {None}
    BY <1>1
  <2>5. clipboard \in Clip /\ {saved, base} \subseteq Graph /\ shown \subseteq Clip
    BY <1>1, <1>6, <1>7
  <2>6. dragging \in Id \cup {None} /\ {connecting, focusedEdge} \subseteq Edge \cup {None}
    BY <1>1
  <2> QED BY <1>4, <2>1, <2>2, <2>3, <2>4, <2>5, <2>6 DEF TypeOK
<1>9. DocumentsSound
  <2>1. Ids(none) = {} /\ Distinct(none) /\ Rooted(none, nextId)
    BY <1>2 DEF Ids, Distinct, Rooted
  <2>2. Fastened({}, Ids(none) \cup missed) /\ OneFeed({})
    BY DEF Fastened, OneFeed
  <2>3. Sound(canvas, missed, mixed, opened, nextId)
    BY <1>4, <2>1, <2>2 DEF Sound
  <2> QED BY <1>5, <2>3 DEF DocumentsSound
<1>10. ClipboardSound
  BY <1>1, <1>6 DEF ClipboardSound
<1>11. FileSound
  BY <1>1, <1>7 DEF FileSound
<1>12. SessionKnown /\ CanvasShown /\ CarriesCanvas /\ CleanMeansSaved
  BY <1>1, <1>3 DEF SessionKnown, CanvasShown, CarriesCanvas, CleanMeansSaved
<1>13. UndoOnlyRevisits
  BY <1>5, RevisitsAre
<1> QED BY <1>8, <1>9, <1>10, <1>11, <1>12, <1>13 DEF CanvasInv

LEMMA StepInvariant ==
  ASSUME CanvasInv, [Next]_vars
  PROVE  CanvasInv'
<1>1. CASE Next
  <2>1. Kinds
    BY <1>1, CanvasIsSound, ActionsAreKinds
  <2> QED BY <1>1, <2>1, TypesAfter, DocumentsAfter, ClipAfter, FileAfter, SessionAfter, ShownAfter
          DEF CanvasInv
<1>2. CASE UNCHANGED vars
  <2>1. UNCHANGED <<nodes, edges, selected, nextId, history, clipboard, dirty, dragging, connecting,
                    focusedEdge, saved, saving, base, overtaken, shown, missed, opened,
                    mixed, edits>>
    BY <1>2 DEF vars, documentVars, modeVars, fileVars
  <2>2. canvas' = canvas /\ Entries' = Entries
    BY <2>1 DEF canvas, Entries, Elements
  <2>3. TypeOK'
    BY <2>1, <2>2 DEF CanvasInv, TypeOK
  <2>4. DocumentsSound' /\ ClipboardSound' /\ FileSound'
    BY <2>1, <2>2 DEF CanvasInv, DocumentsSound, ClipboardSound, FileSound
  <2>5. SessionKnown' /\ CanvasShown' /\ CarriesCanvas' /\ CleanMeansSaved'
    BY <2>1 DEF CanvasInv, SessionKnown, CanvasShown, CarriesCanvas, CleanMeansSaved
  <2>6. UndoOnlyRevisits'
    BY <2>1 DEF CanvasInv, UndoOnlyRevisits
  <2> QED BY <2>3, <2>4, <2>5, <2>6 DEF CanvasInv
<1> QED BY <1>1, <1>2

---------------------------------------------------------------------------
(***************************************************************************)
(* What holds of every behaviour.                                          *)
(***************************************************************************)
\* Whatever can come back - by undo, by redo, by pasting, by opening the file - is in
\* order, as far as the session allows: the invariant that the properties rest on.
THEOREM CanvasInvariant == Spec => []CanvasInv
<1>1. Init => CanvasInv
  BY InitInvariant
<1>2. CanvasInv /\ [Next]_vars => CanvasInv'
  BY StepInvariant
<1> QED BY <1>1, <1>2, PTL DEF Spec

\* The canvas, the history, the clipboard, the file and the modes of the keyboard are
\* what store.ts declares them to be; no history is longer than LIMIT.
THEOREM CanvasTypes == Spec => []TypeOK
<1>1. CanvasInv => TypeOK
  BY DEF CanvasInv
<1> QED BY <1>1, CanvasInvariant, PTL

\* A project that reads as saved is what was saved or opened, whichever of the
\* operations were called in between, unless one of them changed or replaced the
\* canvas while a save was on its way.
THEOREM CleanIsSaved == Spec => []CleanMeansSaved
<1>1. CanvasInv => CleanMeansSaved
  BY DEF CanvasInv
<1> QED BY <1>1, CanvasInvariant, PTL

\* What undo and redo can bring back has been on the canvas of this project.
THEOREM UndoRevisits == Spec => []UndoOnlyRevisits
<1>1. CanvasInv => UndoOnlyRevisits
  BY DEF CanvasInv
<1> QED BY <1>1, CanvasInvariant, PTL

\* One connection to an input, in every order of dropping wires, pasting, undoing and
\* opening files, until the keyboard connects a step that has gone.
THEOREM OneFeedHolds == Spec => []OneFeedUnlessMissed
<1>1. CanvasInv => OneFeedUnlessMissed
  BY CanvasIsSound DEF OneFeed, OneFeedUnlessMissed
<1> QED BY <1>1, CanvasInvariant, PTL

\* A connection dangles only where the keyboard connected a step that had gone.
THEOREM LooseOnlyByKeyboard == Spec => []LooseOnlyByConnectMode
<1>1. CanvasInv => LooseOnlyByConnectMode
  BY CanvasIsSound DEF Fastened, LooseOnlyByConnectMode
<1> QED BY <1>1, CanvasInvariant, PTL

\* No two steps have one identifier, however often steps are copied and brought back,
\* until one is placed after a file was opened.
THEOREM StepsAreUnique == Spec => []UniqueUnlessMixed
<1>1. CanvasInv => UniqueUnlessMixed
  BY CanvasIsSound DEF Distinct, UniqueUnlessMixed
<1> QED BY <1>1, CanvasInvariant, PTL

\* history.ts implements Timeline: its past, the canvas and its future are one line of
\* documents, on which undo and redo move and which only an edit changes.
THEOREM LineIsKept == Spec => KeepsOneLine
<1>1. Init => Line!Init
  <2> SUFFICES ASSUME Init PROVE Line!Init
    OBVIOUS
  <2> DEFINE none == <<>>
             l == LineOf(none, canvas, none)
  <2>1. history.past = none /\ history.future = none
    BY DEF Init, emptyHistory
  <2>2. none \in Seq(Snapshot) /\ Len(none) = 0
    OBVIOUS
  <2>3. canvas \in Snapshot
    BY InitInvariant, CanvasIsSound DEF TypeOK
  <2> HIDE DEF none
  <2>4. Len(l) = 1
    <3>1. IsLine(Snapshot, l, none, canvas, none)
      BY <2>2, <2>3, LineShape
    <3> HIDE DEF l
    <3>2. Len(l) = Len(none) + 1 + Len(none)
      BY <3>1 DEF IsLine
    <3> QED BY <2>2, <3>2
  <2>5. history.past \o <<canvas>> \o history.future = l
    BY <2>1 DEF LineOf
  <2> HIDE DEF l
  <2> QED BY <2>1, <2>2, <2>4, <2>5 DEF Line!Init
<1>2. CanvasInv /\ [Next]_vars =>
        [Line!Next]_<<history.past \o <<canvas>> \o history.future, Len(history.past) + 1>>
  <2> SUFFICES ASSUME CanvasInv, [Next]_vars
               PROVE  [Line!Next]_<<history.past \o <<canvas>> \o history.future, Len(history.past) + 1>>
    OBVIOUS
  <2>1. CASE Next
    <3>1. TypeOK /\ Kinds
      BY <2>1, CanvasIsSound, ActionsAreKinds
    <3>2. HistoryTurn /\ canvas' \in Snapshot
      BY <3>1, HistoryTurns, CanvasAfter
    <3> QED BY <3>1, <3>2, LineStep
  <2>2. CASE UNCHANGED vars
    BY <2>2 DEF vars, documentVars, canvas
  <2> QED BY <2>1, <2>2
<1> QED BY <1>1, <1>2, CanvasInvariant, PTL DEF Spec, KeepsOneLine, Line!Spec
=============================================================================
