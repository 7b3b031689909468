--------------------------- MODULE TypeGraphProofs ---------------------------
(***************************************************************************)
(* What module TypeGraph says of types of two generics holds of types of   *)
(* any depth, and of lists of any length: what a legal connection delivers *)
(* fits the input, and every legal connection can deliver something.       *)
(*                                                                         *)
(* The decision and the conversions are recursive functions. Each is first *)
(* shown to exist, and in the same stroke to be a member of the set of the *)
(* functions that have the property wanted of it (Recursion).              *)
(***************************************************************************)
EXTENDS TypeGraph, SequenceTheorems, FiniteSetTheorems, WellFoundedInduction, TLAPS

---------------------------------------------------------------------------
(***************************************************************************)
(* Recursion.                                                              *)
(***************************************************************************)
\* A set of numbers that is not empty has a least.
LEMMA LeastNatural ==
  ASSUME NEW T \in SUBSET Nat, T # {}
  PROVE  \E n \in T : \A m \in T : n <= m
<1> DEFINE Below == {0 .. n : n \in T}
<1>1. IsWellFoundedOn(StrictSubsetOrdering(Nat), FiniteSubsetsOf(Nat))
  BY FS_StrictSubsetOrderingWellFounded
<1>2. \A n \in Nat : 0 .. n \in FiniteSubsetsOf(Nat)
  BY FS_Interval DEF FiniteSubsetsOf
<1>3. Below \subseteq FiniteSubsetsOf(Nat) /\ Below # {}
  BY <1>2
<1>4. \E x \in Below : \A y \in Below : ~(<<y, x>> \in StrictSubsetOrdering(Nat))
  <2> HIDE DEF Below
  <2> QED BY <1>1, <1>3, WFMin
<1>5. PICK n \in T : \A m \in T : ~(<<0 .. m, 0 .. n>> \in StrictSubsetOrdering(Nat))
  BY <1>4
<1>6. ASSUME NEW m \in T, m < n
      PROVE  <<0 .. m, 0 .. n>> \in StrictSubsetOrdering(Nat)
  <2>1. 0 .. m \subseteq 0 .. n /\ n \in 0 .. n /\ n \notin 0 .. m
    BY <1>6
  <2>2. 0 .. m \in SUBSET Nat /\ 0 .. n \in SUBSET Nat
    OBVIOUS
  <2>3. 0 .. m # 0 .. n
    BY <2>1
  <2> QED BY <2>1, <2>2, <2>3 DEF StrictSubsetOrdering
<1>7. \A m \in T : m \in Nat
  OBVIOUS
<1>8. ASSUME NEW m \in T
      PROVE  n <= m
  <2>1. m \in Nat /\ n \in Nat
    BY <1>7
  <2>2. ~(m < n)
    BY <1>5, <1>6
  <2> QED BY <2>1, <2>2
<1> QED BY <1>5, <1>8

\* What is so of 0, and of each number when of the one before, is so of all.
LEMMA Upward ==
  ASSUME NEW n \in Nat, NEW T,
         0 \in T, \A i \in 1 .. n : i - 1 \in T => i \in T
  PROVE  0 .. n \subseteq T
<1> SUFFICES ASSUME (0 .. n) \ T # {} PROVE FALSE
  OBVIOUS
<1>1. (0 .. n) \ T \in SUBSET Nat
  OBVIOUS
<1>2. PICK i \in (0 .. n) \ T : \A m \in (0 .. n) \ T : i <= m
  BY <1>1, LeastNatural
<1>3. i # 0 /\ i \in 0 .. n
  OBVIOUS
<1>4. i \in 1 .. n /\ i - 1 \in 0 .. n /\ ~(i <= i - 1)
  BY <1>3
<1>5. i - 1 \in T
  BY <1>2, <1>4
<1> QED BY <1>2, <1>4, <1>5

\* F computes the value of a function at x from its values at what is smaller
\* than x, and makes of one of the functions X another of them; c is chosen to
\* be what F makes of it.
Computes(D, N, size, X, c, F) ==
  /\ N \in Nat /\ size \in [D -> 0 .. N]
  /\ X # {}
  /\ \A f \in X : F[f] \in X /\ f = [x \in D |-> f[x]]
  /\ F[c] = [x \in D |-> F[c][x]]
  /\ \A f \in X, g \in X \cup {c} : \A x \in D :
       (\A y \in D : size[y] < size[x] => f[y] = g[y]) => F[f][x] = F[g][x]
  /\ (\E f \in X : f = F[f]) => c = F[c]

\* Then c exists, and is one of X.
LEMMA Recursion ==
  ASSUME NEW D, NEW N, NEW size, NEW X, NEW c, NEW F, Computes(D, N, size, X, c, F)
  PROVE  c \in X /\ c = F[c]
<1>0. /\ N \in Nat /\ size \in [D -> 0 .. N]
      /\ X # {}
      /\ \A f \in X : F[f] \in X /\ f = [x \in D |-> f[x]]
      /\ F[c] = [x \in D |-> F[c][x]]
      /\ \A f \in X, g \in X \cup {c} : \A x \in D :
           (\A y \in D : size[y] < size[x] => f[y] = g[y]) => F[f][x] = F[g][x]
      /\ (\E f \in X : f = F[f]) => c = F[c]
  BY DEF Computes
<1> DEFINE T == {n \in 0 .. N + 1 : \E f \in X : \A x \in D : size[x] < n => f[x] = F[f][x]}
<1>1. 0 \in T
  <2>1. \A x \in D : ~(size[x] < 0)
    BY <1>0
  <2> QED BY <1>0, <2>1
<1>2. ASSUME NEW n \in 1 .. N + 1, n - 1 \in T
      PROVE  n \in T
  <2>1. PICK f \in X : \A x \in D : size[x] < n - 1 => f[x] = F[f][x]
    BY <1>0, <1>2
  <2>2. F[f] \in X
    BY <1>0
  <2>3. ASSUME NEW x \in D, size[x] < n
        PROVE  F[f][x] = F[F[f]][x]
    <3>1. \A y \in D : size[y] < size[x] => size[y] < n - 1
      BY <1>0, <2>3
    <3>2. \A y \in D : size[y] < size[x] => f[y] = F[f][y]
      BY <1>0, <2>1, <3>1
    <3> QED BY <1>0, <2>2, <3>2
  <2> QED BY <1>0, <2>2, <2>3
<1>3. N + 1 \in T
  <2> HIDE DEF T
  <2>1. 0 .. N + 1 \subseteq T
    BY <1>0, <1>1, <1>2, Upward
  <2> QED BY <1>0, <2>1
<1>4. PICK f \in X : \A x \in D : f[x] = F[f][x]
  <2>1. \A x \in D : size[x] < N + 1
    BY <1>0
  <2> QED BY <1>0, <1>3, <2>1
<1>5. f = F[f]
  <2>1. f = [x \in D |-> f[x]] /\ F[f] = [x \in D |-> F[f][x]]
    BY <1>0
  <2>2. [x \in D |-> f[x]] = [x \in D |-> F[f][x]]
    BY <1>0, <1>4
  <2> QED BY <1>0, <2>1, <2>2
<1>6. c = F[c]
  BY <1>0, <1>5
<1> DEFINE S == {n \in 0 .. N + 1 : \A x \in D : size[x] < n => f[x] = c[x]}
<1>7. 0 \in S
  <2>1. \A x \in D : ~(size[x] < 0)
    BY <1>0
  <2> QED BY <1>0, <2>1
<1>8. ASSUME NEW n \in 1 .. N + 1, n - 1 \in S
      PROVE  n \in S
  <2>1. ASSUME NEW x \in D, size[x] < n
        PROVE  f[x] = c[x]
    <3>1. \A y \in D : size[y] < size[x] => size[y] < n - 1
      BY <1>0, <2>1
    <3>2. \A y \in D : size[y] < size[x] => f[y] = c[y]
      BY <1>0, <1>8, <3>1
    <3>3. F[f][x] = F[c][x]
      BY <1>0, <3>2
    <3> QED BY <1>0, <1>5, <1>6, <3>3
  <2> QED BY <1>0, <2>1
<1>9. N + 1 \in S
  <2> HIDE DEF S
  <2>1. 0 .. N + 1 \subseteq S
    BY <1>0, <1>7, <1>8, Upward
  <2> QED BY <1>0, <2>1
<1>10. f = c
  <2>1. \A x \in D : size[x] < N + 1
    BY <1>0
  <2>2. \A x \in D : f[x] = c[x]
    BY <1>0, <1>9, <2>1
  <2>3. f = [x \in D |-> f[x]] /\ c = [x \in D |-> c[x]]
    BY <1>0, <1>6
  <2> QED BY <1>0, <2>2, <2>3
<1> QED BY <1>0, <1>6, <1>10

---------------------------------------------------------------------------
(***************************************************************************)
(* Type expressions.                                                       *)
(***************************************************************************)
\* A type is a name, or a generic around a type that is one shorter.
LEMMA TypeShape ==
  ASSUME NEW t \in TypeExpr
  PROVE  /\ Len(t) \in 1 .. MaxDepth + 1
         /\ \/ Outer(t) = "named" /\ Len(t) = 1 /\ t[1] \in Names
            \/ /\ Outer(t) \in Generic /\ Tail(t) \in TypeExpr
               /\ Len(t) > 1 /\ Len(Tail(t)) = Len(t) - 1
<1>0. PICK g \in UNION {[1 .. d -> Generic] : d \in 0 .. MaxDepth}, n \in Names : t = Append(g, n)
  BY DEF TypeExpr
<1>1. PICK d \in 0 .. MaxDepth : g \in [1 .. d -> Generic]
  BY <1>0
<1>2. d \in Nat /\ d <= MaxDepth /\ MaxDepth \in Nat
  BY TypeGraphAssumption
<1>3. g \in Seq(Generic) /\ Len(g) = d
  BY <1>1, <1>2
<1>4. Len(t) = d + 1 /\ (\A i \in 1 .. d : t[i] = g[i]) /\ t[d + 1] = n
  BY <1>0, <1>2, <1>3
<1>5. CASE d = 0
  BY <1>0, <1>2, <1>4, <1>5 DEF Outer
<1>6. CASE d # 0
  <2> DEFINE h == [i \in 1 .. d - 1 |-> g[i + 1]]
  <2>1. d - 1 \in Nat /\ d - 1 \in 0 .. MaxDepth /\ h \in [1 .. d - 1 -> Generic]
    BY <1>1, <1>2, <1>6
  <2>2. h \in Seq(Generic) /\ Len(h) = d - 1
    BY <2>1
  <2>3. t \in Seq(Generic \cup Names)
    BY <1>0, <1>3
  <2>4. Append(h, n) \in Seq(Generic \cup Names) /\ Len(Append(h, n)) = d
    <3> HIDE DEF h
    <3> QED BY <1>2, <2>2
  <2>5. Tail(t) \in Seq(Generic \cup Names) /\ Len(Tail(t)) = d
    BY <1>2, <1>4, <2>3
  <2>6. ASSUME NEW i \in 1 .. d
        PROVE  Tail(t)[i] = (Append(h, n))[i]
    <3>1. Tail(t)[i] = t[i + 1]
      BY <1>2, <1>4, <2>3
    <3>2. CASE i = d
      BY <1>2, <1>4, <2>2, <3>1, <3>2
    <3>3. CASE i # d
      BY <1>2, <1>4, <2>2, <3>1, <3>3
    <3> QED BY <3>2, <3>3
  <2>7. Tail(t) = Append(h, n)
    BY <2>4, <2>5, <2>6, SeqEqual
  <2>8. Tail(t) \in TypeExpr
    <3>1. h \in UNION {[1 .. e -> Generic] : e \in 0 .. MaxDepth}
      BY <2>1
    <3> DEFINE G == UNION {[1 .. e -> Generic] : e \in 0 .. MaxDepth}
    <3>2. h \in G /\ TypeExpr = {Append(e, m) : e \in G, m \in Names}
      BY <3>1 DEF TypeExpr
    <3> HIDE DEF h, G
    <3> QED BY <2>7, <3>2
  <2>9. Outer(t) \in Generic
    <3>1. Outer(t) = t[1] /\ t[1] = g[1]
      BY <1>2, <1>4, <1>6, <2>3 DEF Outer
    <3> QED BY <1>1, <1>2, <1>6, <3>1
  <2> QED BY <1>2, <1>4, <1>6, <2>5, <2>8, <2>9
<1> QED BY <1>5, <1>6

---------------------------------------------------------------------------
(***************************************************************************)
(* Values.                                                                 *)
(***************************************************************************)
\* The values of each depth are those of the depth before and the lists of them.
LEMMA NestedStep ==
  Nested = [d \in 0 .. MaxDepth |-> IF d = 0 THEN Simple ELSE Nested[d - 1] \cup Lists(Nested[d - 1])]
<1> DEFINE Goes(f, n) ==
             f = [d \in 0 .. n |-> IF d = 0 THEN Simple ELSE f[d - 1] \cup Lists(f[d - 1])]
           T == {n \in Nat : \E f : Goes(f, n)}
<1>1. 0 \in T
  <2>1. Goes([d \in 0 .. 0 |-> Simple], 0)
    OBVIOUS
  <2> QED BY <2>1
<1>2. ASSUME NEW n \in 1 .. MaxDepth, n - 1 \in T
      PROVE  n \in T
  <2>0. n \in Nat
    BY TypeGraphAssumption
  <2>1. PICK f : Goes(f, n - 1)
    BY <1>2
  <2> DEFINE g == [d \in 0 .. n |-> IF d = n THEN f[n - 1] \cup Lists(f[n - 1]) ELSE f[d]]
  <2>2. \A d \in 0 .. n : d # n => d \in 0 .. n - 1
    BY <2>0
  <2>3. \A d \in 0 .. n - 1 : f[d] = IF d = 0 THEN Simple ELSE f[d - 1] \cup Lists(f[d - 1])
    <3> HIDE DEF Simple, Lists
    <3> QED BY <2>1
  <2>4. \A d \in 0 .. n : d # 0 => g[d - 1] = f[d - 1]
    BY <2>0
  <2>5. \A d \in 0 .. n : g[d] = IF d = 0 THEN Simple ELSE g[d - 1] \cup Lists(g[d - 1])
    <3> SUFFICES ASSUME NEW d \in 0 .. n
                 PROVE  g[d] = IF d = 0 THEN Simple ELSE g[d - 1] \cup Lists(g[d - 1])
      OBVIOUS
    <3>1. CASE d = n
      BY <2>0, <2>4, <3>1
    <3>2. CASE d # n
      <4>1. g[d] = f[d]
        BY <3>2
      <4>2. d # 0 => g[d - 1] = f[d - 1]
        BY <2>4
      <4> HIDE DEF g
      <4> QED BY <2>2, <2>3, <3>2, <4>1, <4>2
    <3> QED BY <3>1, <3>2
  <2>6. g = [d \in 0 .. n |-> g[d]]
    OBVIOUS
  <2>7. Goes(g, n)
    <3> HIDE DEF g
    <3> QED BY <2>5, <2>6
  <2> HIDE DEF Goes
  <2> QED BY <2>0, <2>7
<1>3. \E f : Goes(f, MaxDepth)
  <2> HIDE DEF T
  <2>1. 0 .. MaxDepth \subseteq T
    BY <1>1, <1>2, Upward, TypeGraphAssumption
  <2>2. MaxDepth \in T
    BY <2>1, TypeGraphAssumption
  <2> USE DEF T
  <2> HIDE DEF Goes
  <2> QED BY <2>2
<1>4. Nested = CHOOSE f : Goes(f, MaxDepth)
  BY DEF Nested
<1> QED BY <1>3, <1>4


\* The values of a depth are among those of each greater depth.
LEMMA NestedGrows ==
  /\ 0 \in 0 .. MaxDepth /\ Nested[0] = Simple
  /\ \A d \in 1 .. MaxDepth : Nested[d] = Nested[d - 1] \cup Lists(Nested[d - 1])
  /\ \A d \in 0 .. MaxDepth : Simple \subseteq Nested[d] /\ Nested[d] \subseteq Value
<1>1. 0 \in 0 .. MaxDepth /\ Nested[0] = Simple
  <2>1. 0 \in 0 .. MaxDepth
    BY TypeGraphAssumption
  <2> QED BY <2>1, NestedStep
<1>2. ASSUME NEW d \in 1 .. MaxDepth
      PROVE  Nested[d] = Nested[d - 1] \cup Lists(Nested[d - 1])
  <2>1. d \in 0 .. MaxDepth /\ d # 0
    BY TypeGraphAssumption
  <2> QED BY <2>1, NestedStep
<1>3. ASSUME NEW d \in 0 .. MaxDepth
      PROVE  Simple \subseteq Nested[d]
  <2> DEFINE T == {e \in 0 .. MaxDepth : Simple \subseteq Nested[e]}
  <2>1. 0 \in T
    BY <1>1
  <2>2. \A e \in 1 .. MaxDepth : e - 1 \in T => e \in T
    BY <1>2
  <2> HIDE DEF T
  <2>3. 0 .. MaxDepth \subseteq T
    BY <2>1, <2>2, Upward, TypeGraphAssumption
  <2> QED BY <2>3 DEF T
<1>4. ASSUME NEW d \in 0 .. MaxDepth
      PROVE  Nested[d] \subseteq Value
  <2> DEFINE T == {e \in Nat : d + e <= MaxDepth => Nested[d] \subseteq Nested[d + e]}
  <2>1. 0 \in T
    BY TypeGraphAssumption
  <2>2. ASSUME NEW e \in 1 .. MaxDepth, e - 1 \in T
        PROVE  e \in T
    <3>1. d \in Nat /\ e \in Nat /\ MaxDepth \in Nat
      BY TypeGraphAssumption
    <3>2. ASSUME d + e <= MaxDepth
          PROVE  Nested[d] \subseteq Nested[d + e]
      <4>1. d + e \in 1 .. MaxDepth /\ (d + e) - 1 = d + (e - 1) /\ d + (e - 1) <= MaxDepth
        BY <3>1, <3>2
      <4>2. Nested[d] \subseteq Nested[d + (e - 1)]
        BY <2>2, <4>1
      <4>3. Nested[d + (e - 1)] \subseteq Nested[d + e]
        BY <1>2, <4>1
      <4> QED BY <4>2, <4>3
    <3> QED BY <3>1, <3>2
  <2> HIDE DEF T
  <2>3. 0 .. MaxDepth \subseteq T
    BY <2>1, <2>2, Upward, TypeGraphAssumption
  <2>4. MaxDepth - d \in 0 .. MaxDepth /\ d + (MaxDepth - d) = MaxDepth /\ MaxDepth <= MaxDepth
    BY TypeGraphAssumption
  <2>5. MaxDepth - d \in T
    BY <2>3, <2>4
  <2> QED BY <2>4, <2>5 DEF T, Value
<1> QED BY <1>1, <1>2, <1>3, <1>4

\* A list holds values of a depth less.
LEMMA ListWithin ==
  ASSUME NEW d \in 0 .. MaxDepth, NEW v \in Nested[d], v.k = "list"
  PROVE  d # 0 /\ d - 1 \in 0 .. MaxDepth /\ v.items \in Seq(Nested[d - 1]) /\ v = List(v.items)
<1> DEFINE Within(e, w) == e # 0 /\ w.items \in Seq(Nested[e - 1]) /\ w = List(w.items)
           T == {e \in 0 .. MaxDepth : \A w \in Nested[e] : w.k = "list" => Within(e, w)}
<1>1. 0 \in T
  <2>1. \A w \in Simple : w.k # "list"
    BY DEF Simple, Of, Absent, Failed, Names, Scalars, Handles, Media
  <2> QED BY <2>1, NestedGrows
<1>2. ASSUME NEW e \in 1 .. MaxDepth, e - 1 \in T
      PROVE  e \in T
  <2>0. e \in 0 .. MaxDepth /\ e \in Nat /\ e # 0 /\ e <= MaxDepth /\ MaxDepth \in Nat
    BY TypeGraphAssumption
  <2>1. Nested[e] = Nested[e - 1] \cup Lists(Nested[e - 1])
    BY NestedGrows
  <2>2. ASSUME NEW w \in Nested[e - 1], w.k = "list"
        PROVE  Within(e, w)
    <3>1. Within(e - 1, w)
      BY <1>2, <2>2
    <3>2. e - 1 \in 1 .. MaxDepth
      BY <2>0, <3>1
    <3>3. Nested[e - 1 - 1] \subseteq Nested[e - 1]
      BY <3>2, NestedGrows
    <3>4. w.items \in Seq(Nested[e - 1])
      BY <3>1, <3>3
    <3> QED BY <2>0, <3>1, <3>4
  <2>3. ASSUME NEW w \in Lists(Nested[e - 1])
        PROVE  Within(e, w)
    BY <2>0 DEF Lists, List
  <2> QED BY <2>0, <2>1, <2>2, <2>3
<1>3. d \in T
  <2> HIDE DEF T
  <2>1. 0 .. MaxDepth \subseteq T
    BY <1>1, <1>2, Upward, TypeGraphAssumption
  <2> QED BY <2>1
<1>4. Within(d, v)
  BY <1>3
<1> QED BY <1>4, TypeGraphAssumption


---------------------------------------------------------------------------
(***************************************************************************)
(* Conversions.                                                            *)
(***************************************************************************)
\* Operations are a sequence no longer than what surrounds a name.
LEMMA OpsShape ==
  /\ \A ops \in Ops : ops \in Seq(Op) /\ Len(ops) <= MaxDepth + 1
  /\ \A ops \in Seq(Op) : Len(ops) <= MaxDepth + 1 => ops \in Ops
<1>1. ASSUME NEW ops \in Ops
      PROVE  ops \in Seq(Op) /\ Len(ops) <= MaxDepth + 1
  <2>1. PICK n \in 0 .. MaxDepth + 1 : ops \in [1 .. n -> Op]
    BY DEF Ops
  <2>2. n \in Nat /\ n <= MaxDepth + 1
    BY TypeGraphAssumption
  <2> QED BY <2>1, <2>2
<1>2. ASSUME NEW ops \in Seq(Op), Len(ops) <= MaxDepth + 1
      PROVE  ops \in Ops
  <2>1. Len(ops) \in 0 .. MaxDepth + 1 /\ ops \in [1 .. Len(ops) -> Op]
    BY <1>2, TypeGraphAssumption
  <2> QED BY <2>1 DEF Ops
<1> QED BY <1>1, <1>2

\* A conversion leaves a value as it is, or makes one that is no list.
LEMMA ConvertedSimple ==
  ASSUME NEW v, NEW op, NEW w \in apply_one(v, op)
  PROVE  w = v \/ w \in Simple
<1>1. \A n \in Names \cup {"failed"} : Of(n) \in Simple
  BY DEF Simple, Failed
<1>2. Absent \in Simple /\ Failed \in Simple
  BY DEF Simple
<1>3. ASSUME NEW kinds, NEW results \in SUBSET (Names \cup {"failed"})
      PROVE  Makes(kinds, results, v) \subseteq Simple
  BY <1>1, <1>2 DEF Makes
<1>4. CASE v = Absent /\ op # "unwrap-option"
  BY <1>2, <1>4 DEF apply_one
<1>5. CASE op = "unwrap-option"
  BY <1>2, <1>5 DEF apply_one, converted
<1>6. CASE v # Absent /\ op # "unwrap-option"
  <2>1. apply_one(v, op) = converted(v, op)
    BY <1>6 DEF apply_one
  <2>2. {"string"} \in SUBSET (Names \cup {"failed"})
    /\ {"f64", "failed"} \in SUBSET (Names \cup {"failed"})
    /\ {"i64"} \in SUBSET (Names \cup {"failed"})
    /\ {"bool"} \in SUBSET (Names \cup {"failed"})
    /\ {"i64", "failed"} \in SUBSET (Names \cup {"failed"})
    /\ {"bool", "failed"} \in SUBSET (Names \cup {"failed"})
    /\ {"json", "failed"} \in SUBSET (Names \cup {"failed"})
    /\ {"json"} \in SUBSET (Names \cup {"failed"})
    /\ {"bool", "string", "i64", "f64", "failed"} \in SUBSET (Names \cup {"failed"})
    /\ {"bytes", "failed"} \in SUBSET (Names \cup {"failed"})
    /\ {"file"} \in SUBSET (Names \cup {"failed"})
    /\ {"image", "failed"} \in SUBSET (Names \cup {"failed"})
    BY DEF Names, Scalars, Handles, Media
  <2>3. converted(v, op) \subseteq Simple
    BY <1>2, <1>3, <1>6, <2>2 DEF converted
  <2> QED BY <2>1, <2>3
<1> QED BY <1>4, <1>5, <1>6

\* What a sequence of operations makes of each value: never one of a greater
\* depth; of what failed nothing, and of what is absent nothing that is there.
Evaluator(r) ==
  /\ r \in [Value -> SUBSET Value]
  /\ r[Failed] = {Failed}
  /\ r[Absent] \subseteq {Absent, Failed}
  /\ \A d \in 0 .. MaxDepth : \A v \in Nested[d] : r[v] \subseteq Nested[d]

\* One operation more, and it is so still.
LEMMA AppliedEvaluates ==
  ASSUME NEW rest, Evaluator(rest), NEW op
  PROVE  Evaluator([v \in Value |-> Applied(op, rest, v)])
<1> DEFINE r == [v \in Value |-> Applied(op, rest, v)]
<1>0. MaxDepth \in 0 .. MaxDepth /\ Value = Nested[MaxDepth]
  BY TypeGraphAssumption DEF Value
<1>1. Simple \subseteq Value /\ Absent \in Simple /\ Failed \in Simple
  BY <1>0, NestedGrows DEF Simple
<1>2. Absent # Failed /\ Absent.k # "list" /\ Failed.k # "list"
  BY DEF Absent, Failed, Of
<1>3. Applied(op, rest, Failed) = {Failed}
  BY DEF Applied
<1>4. Applied(op, rest, Absent) \subseteq {Absent, Failed}
  <2>1. CASE op = "map"
    BY <1>2, <2>1 DEF Applied
  <2>2. CASE op # "map"
    <3>1. apply_one(Absent, op) \subseteq {Absent, Failed}
      BY DEF apply_one, converted
    <3>2. Applied(op, rest, Absent) = UNION {rest[w] : w \in apply_one(Absent, op)}
      BY <1>2, <2>2 DEF Applied
    <3> QED BY <3>1, <3>2 DEF Evaluator
  <2> QED BY <2>1, <2>2
<1>5. ASSUME NEW d \in 0 .. MaxDepth, NEW v \in Nested[d]
      PROVE  Applied(op, rest, v) \subseteq Nested[d]
  <2>1. Failed \in Nested[d] /\ Simple \subseteq Nested[d]
    BY <1>1, NestedGrows
  <2>2. CASE v = Failed
    BY <1>3, <2>1, <2>2
  <2>3. CASE v # Failed /\ op # "map"
    <3>1. Applied(op, rest, v) = UNION {rest[w] : w \in apply_one(v, op)}
      BY <2>3 DEF Applied
    <3>2. apply_one(v, op) \subseteq Nested[d]
      BY <2>1, ConvertedSimple
    <3> QED BY <3>1, <3>2 DEF Evaluator
  <2>4. CASE v # Failed /\ op = "map" /\ v.k # "list"
    BY <2>1, <2>4 DEF Applied
  <2>5. CASE v # Failed /\ op = "map" /\ v.k = "list"
    <3>1. d # 0 /\ d - 1 \in 0 .. MaxDepth /\ v.items \in Seq(Nested[d - 1])
      BY <2>5, ListWithin
    <3> DEFINE R == [i \in DOMAIN v.items |-> rest[v.items[i]]]
    <3>2. Applied(op, rest, v) = {IF \E i \in DOMAIN s : s[i] = Failed THEN Failed ELSE List(s) : s \in EachOf(R)}
      BY <2>5 DEF Applied
    <3>3. ASSUME NEW s \in EachOf(R)
          PROVE  s \in Seq(Nested[d - 1])
      <4>1. DOMAIN R = 1 .. Len(v.items) /\ Len(v.items) \in Nat
        BY <3>1
      <4>2. s = [i \in 1 .. Len(v.items) |-> s[i]] /\ \A i \in 1 .. Len(v.items) : s[i] \in R[i]
        BY <4>1 DEF EachOf
      <4>3. \A i \in 1 .. Len(v.items) : R[i] \subseteq Nested[d - 1]
        BY <3>1, <4>1 DEF Evaluator
      <4>4. s \in [1 .. Len(v.items) -> Nested[d - 1]]
        BY <4>2, <4>3
      <4> QED BY <4>1, <4>4
    <3>4. \A s \in EachOf(R) : List(s) \in Nested[d]
      <4>1. d \in 1 .. MaxDepth
        BY <3>1, TypeGraphAssumption
      <4>2. Lists(Nested[d - 1]) \subseteq Nested[d]
        BY <4>1, NestedGrows
      <4>3. \A s \in Seq(Nested[d - 1]) : List(s) \in Lists(Nested[d - 1])
        BY DEF List, Lists
      <4> QED BY <3>3, <4>2, <4>3
    <3> QED BY <2>1, <3>2, <3>4
  <2> QED BY <2>2, <2>3, <2>4, <2>5
<1>6. r \in [Value -> SUBSET Value]
  BY <1>0, <1>5
<1>7. \A v \in Value : r[v] = Applied(op, rest, v)
  OBVIOUS
<1>8. \A d \in 0 .. MaxDepth : \A v \in Nested[d] : v \in Value
  BY NestedGrows
<1>9. /\ r[Failed] = {Failed}
      /\ r[Absent] \subseteq {Absent, Failed}
  BY <1>1, <1>3, <1>4, <1>7
<1>10. \A d \in 0 .. MaxDepth : \A v \in Nested[d] : r[v] \subseteq Nested[d]
  BY <1>5, <1>7, <1>8
<1>11. Evaluator(r)
  <2> HIDE DEF r
  <2> QED BY <1>6, <1>9, <1>10 DEF Evaluator
<1> QED BY <1>11


\* What is evaluated by apply_ops, one operation after the other.
Evaluated(ops, rest) == [v \in Value |-> IF ops = <<>> THEN {v} ELSE Applied(Head(ops), rest, v)]

LEMMA ApplyOps ==
  /\ apply_ops = [ops \in Ops |-> Evaluated(ops, apply_ops[Tail(ops)])]
  /\ \A ops \in Ops : Evaluator(apply_ops[ops])
<1> DEFINE X == {f \in [Ops -> [Value -> SUBSET Value]] : \A ops \in Ops : Evaluator(f[ops])}
           F == [f \in X \cup {apply_ops} |-> [ops \in Ops |-> Evaluated(ops, f[Tail(ops)])]]
           size == [ops \in Ops |-> Len(ops)]
<1>1. MaxDepth + 1 \in Nat /\ size \in [Ops -> 0 .. MaxDepth + 1]
  BY OpsShape, TypeGraphAssumption
<1>2. Simple \subseteq Value /\ Absent \in Value /\ Failed \in Value /\ Absent # Failed
  <2>1. Simple \subseteq Value
    BY NestedGrows
  <2> QED BY <2>1 DEF Simple, Absent, Failed, Of
<1>3. ASSUME NEW ops \in Ops, ops # <<>>
      PROVE  Tail(ops) \in Ops /\ Len(Tail(ops)) < Len(ops)
  <2>1. ops \in Seq(Op) /\ Len(ops) <= MaxDepth + 1
    BY OpsShape
  <2>2. Tail(ops) \in Seq(Op) /\ Len(Tail(ops)) = Len(ops) - 1 /\ Len(ops) \in Nat
    BY <1>3, <2>1
  <2>3. Len(Tail(ops)) <= MaxDepth + 1 /\ Len(Tail(ops)) < Len(ops)
    BY <2>1, <2>2, TypeGraphAssumption
  <2>4. Tail(ops) \in Ops
    BY <2>2, <2>3, OpsShape
  <2> QED BY <2>3, <2>4
<1>4. \E x0 : x0 \in X
  <2> DEFINE r == [v \in Value |-> {Failed}]
  <2>1. \A d \in 0 .. MaxDepth : Failed \in Nested[d] /\ Nested[d] \subseteq Value
    BY NestedGrows DEF Simple
  <2>2. r \in [Value -> SUBSET Value]
    BY <1>2
  <2>3. r[Failed] = {Failed} /\ r[Absent] \subseteq {Absent, Failed}
    BY <1>2
  <2>4. \A d \in 0 .. MaxDepth : \A v \in Nested[d] : r[v] \subseteq Nested[d]
    BY <2>1
  <2> HIDE DEF r
  <2>5. Evaluator(r)
    BY <2>2, <2>3, <2>4 DEF Evaluator
  <2>6. [ops \in Ops |-> r] \in X
    BY <2>2, <2>5
  <2> QED BY <2>6
<1>5. ASSUME NEW ops \in Ops, NEW rest, ops = <<>> \/ Evaluator(rest)
      PROVE  Evaluator(Evaluated(ops, rest))
  <2>1. CASE ops = <<>>
    <3> DEFINE r == [v \in Value |-> {v}]
    <3>1. r \in [Value -> SUBSET Value]
      OBVIOUS
    <3>2. r[Failed] = {Failed} /\ r[Absent] = {Absent}
      BY <1>2
    <3>3. \A d \in 0 .. MaxDepth : \A v \in Nested[d] : r[v] \subseteq Nested[d]
      BY NestedGrows
    <3>4. Evaluated(ops, rest) = r
      BY <2>1 DEF Evaluated
    <3> HIDE DEF r
    <3> QED BY <3>1, <3>2, <3>3, <3>4 DEF Evaluator
  <2>2. CASE ops # <<>>
    <3>1. Evaluator([v \in Value |-> Applied(Head(ops), rest, v)])
      BY <1>5, <2>2, AppliedEvaluates
    <3> QED BY <2>2, <3>1 DEF Evaluated
  <2> QED BY <2>1, <2>2
<1>6. ASSUME NEW f \in X
      PROVE  F[f] \in X /\ f = [ops \in Ops |-> f[ops]]
  <2>1. F[f] = [ops \in Ops |-> Evaluated(ops, f[Tail(ops)])]
    OBVIOUS
  <2>2. \A ops \in Ops : Evaluator(Evaluated(ops, f[Tail(ops)]))
    BY <1>3, <1>5
  <2>3. \A ops \in Ops : Evaluated(ops, f[Tail(ops)]) \in [Value -> SUBSET Value]
    BY <2>2 DEF Evaluator
  <2> QED BY <2>1, <2>2, <2>3
<1>7. F[apply_ops] = [ops \in Ops |-> F[apply_ops][ops]]
  OBVIOUS
<1>8. ASSUME NEW f \in X, NEW g \in X \cup {apply_ops}, NEW ops \in Ops,
             \A o \in Ops : size[o] < size[ops] => f[o] = g[o]
      PROVE  F[f][ops] = F[g][ops]
  <2>1. F[f][ops] = Evaluated(ops, f[Tail(ops)]) /\ F[g][ops] = Evaluated(ops, g[Tail(ops)])
    OBVIOUS
  <2>2. CASE ops = <<>>
    BY <2>1, <2>2 DEF Evaluated
  <2>3. CASE ops # <<>>
    <3>1. f[Tail(ops)] = g[Tail(ops)]
      BY <1>3, <1>8, <2>3
    <3> QED BY <2>1, <3>1
  <2> QED BY <2>2, <2>3
<1>9. (\E f \in X : f = F[f]) => apply_ops = F[apply_ops]
  <2> DEFINE G(f) == [ops \in Ops |-> Evaluated(ops, f[Tail(ops)])]
  <2>1. apply_ops = CHOOSE f : f = G(f)
    BY DEF apply_ops, Evaluated
  <2>2. \A f \in X \cup {apply_ops} : F[f] = G(f)
    OBVIOUS
  <2> HIDE DEF F, G, X
  <2> QED BY <2>1, <2>2
<1>10. apply_ops \in X /\ apply_ops = F[apply_ops]
  <2>1. Computes(Ops, MaxDepth + 1, size, X, apply_ops, F)
    <3> HIDE DEF F, X, size
    <3> QED BY <1>1, <1>4, <1>6, <1>7, <1>8, <1>9 DEF Computes
  <2> HIDE DEF F, X, size
  <2> QED BY <2>1, Recursion
<1> QED BY <1>10


---------------------------------------------------------------------------
(***************************************************************************)
(* What fits a type, and what is full of it.                               *)
(***************************************************************************)
\* What fits t, when S is what fits the type within.
FittingOf(t, S) ==
  IF Outer(t) = "named" THEN {Of(n) : n \in {n \in Names : t[1] \in ancestorsOf(n)}}
  ELSE IF Outer(t) = "option" THEN S \cup {Absent} ELSE Lists(S)

\* What fits is a value of the depth of its type, and none that failed.
LEMMA FittingStep ==
  /\ Fitting = [t \in TypeExpr |-> FittingOf(t, Fitting[Tail(t)])]
  /\ \A t \in TypeExpr : Fitting[t] \subseteq Nested[Len(t) - 1] /\ Failed \notin Fitting[t]
<1> DEFINE Fine(t, S) == S \subseteq Nested[Len(t) - 1] /\ Failed \notin S
           X == {f \in [TypeExpr -> SUBSET Value] : \A t \in TypeExpr : Fine(t, f[t])}
           F == [f \in X \cup {Fitting} |-> [t \in TypeExpr |-> FittingOf(t, f[Tail(t)])]]
           size == [t \in TypeExpr |-> Len(t)]
<1>1. MaxDepth + 1 \in Nat /\ size \in [TypeExpr -> 0 .. MaxDepth + 1]
  BY TypeShape, TypeGraphAssumption
<1>2. \A t \in TypeExpr : Nested[Len(t) - 1] \subseteq Value /\ Simple \subseteq Nested[Len(t) - 1]
  <2>1. \A t \in TypeExpr : Len(t) - 1 \in 0 .. MaxDepth
    BY TypeShape, TypeGraphAssumption
  <2> QED BY <2>1, NestedGrows
<1>3. X # {}
  <2>1. [t \in TypeExpr |-> {}] \in X
    OBVIOUS
  <2> QED BY <2>1
<1>4. ASSUME NEW t \in TypeExpr, NEW S, Outer(t) = "named" \/ Fine(Tail(t), S)
      PROVE  Fine(t, FittingOf(t, S))
  <2>0. \A n \in Names : Of(n) \in Simple /\ Of(n) # Failed
    BY DEF Simple, Of, Failed, Names, Scalars, Handles, Media
  <2>1. CASE Outer(t) = "named"
    BY <1>2, <2>0, <2>1 DEF FittingOf
  <2>2. CASE Outer(t) # "named"
    <3>1. /\ Outer(t) \in Generic /\ Tail(t) \in TypeExpr
          /\ Len(t) - 1 \in 1 .. MaxDepth /\ Len(Tail(t)) - 1 = Len(t) - 1 - 1
      BY <2>2, TypeShape, TypeGraphAssumption
    <3>2. Nested[Len(t) - 1] = Nested[Len(t) - 1 - 1] \cup Lists(Nested[Len(t) - 1 - 1])
      BY <3>1, NestedGrows
    <3>3. Fine(Tail(t), S)
      BY <1>4, <2>2
    <3>4. Lists(S) \subseteq Lists(Nested[Len(t) - 1 - 1])
      BY <3>1, <3>3 DEF Lists
    <3>5. Failed \notin Lists(S) /\ Absent # Failed
      BY DEF Lists, Failed, Absent, Of
    <3>6. Absent \in Simple
      BY DEF Simple
    <3>7. FittingOf(t, S) = S \cup {Absent} \/ FittingOf(t, S) = Lists(S)
      BY <3>1 DEF FittingOf, Generic
    <3> QED BY <1>2, <3>1, <3>2, <3>3, <3>4, <3>5, <3>6, <3>7
  <2> QED BY <2>1, <2>2
<1>5. ASSUME NEW f \in X
      PROVE  F[f] \in X /\ f = [t \in TypeExpr |-> f[t]]
  <2>1. F[f] = [t \in TypeExpr |-> FittingOf(t, f[Tail(t)])]
    OBVIOUS
  <2>2. \A t \in TypeExpr : Fine(t, FittingOf(t, f[Tail(t)]))
    <3> SUFFICES ASSUME NEW t \in TypeExpr PROVE Fine(t, FittingOf(t, f[Tail(t)]))
      OBVIOUS
    <3>1. Outer(t) = "named" \/ Fine(Tail(t), f[Tail(t)])
      BY TypeShape
    <3> HIDE DEF Fine
    <3> QED BY <1>4, <3>1
  <2>3. \A t \in TypeExpr : FittingOf(t, f[Tail(t)]) \in SUBSET Value
    BY <1>2, <2>2
  <2> QED BY <2>1, <2>2, <2>3
<1>6. F[Fitting] = [t \in TypeExpr |-> F[Fitting][t]]
  OBVIOUS
<1>7. ASSUME NEW f \in X, NEW g \in X \cup {Fitting}, NEW t \in TypeExpr,
             \A u \in TypeExpr : size[u] < size[t] => f[u] = g[u]
      PROVE  F[f][t] = F[g][t]
  <2>1. F[f][t] = FittingOf(t, f[Tail(t)]) /\ F[g][t] = FittingOf(t, g[Tail(t)])
    OBVIOUS
  <2>2. CASE Outer(t) = "named"
    BY <2>1, <2>2 DEF FittingOf
  <2>3. CASE Outer(t) # "named"
    <3>1. Tail(t) \in TypeExpr /\ Len(Tail(t)) < Len(t)
      BY <2>3, TypeShape
    <3>2. f[Tail(t)] = g[Tail(t)]
      BY <1>7, <3>1
    <3> QED BY <2>1, <3>2
  <2> QED BY <2>2, <2>3
<1>8. (\E f \in X : f = F[f]) => Fitting = F[Fitting]
  <2> DEFINE G(f) == [t \in TypeExpr |-> FittingOf(t, f[Tail(t)])]
  <2>1. Fitting = CHOOSE f : f = G(f)
    BY DEF Fitting, FittingOf
  <2>2. \A f \in X \cup {Fitting} : F[f] = G(f)
    OBVIOUS
  <2> HIDE DEF F, G, X
  <2> QED BY <2>1, <2>2
<1>9. Fitting \in X /\ Fitting = F[Fitting]
  <2>1. Computes(TypeExpr, MaxDepth + 1, size, X, Fitting, F)
    <3> HIDE DEF F, X, size
    <3> QED BY <1>1, <1>3, <1>5, <1>6, <1>7, <1>8 DEF Computes
  <2> HIDE DEF F, X, size
  <2> QED BY <2>1, Recursion
<1> QED BY <1>9


LEMMA OneInSeq ==
  ASSUME NEW S, NEW x \in S
  PROVE  <<x>> \in Seq(S)
OBVIOUS

\* A full value of t, when v is one of the type within.
FullOf(t, v) ==
  IF Outer(t) = "named" THEN Of(t[1]) ELSE IF Outer(t) = "option" THEN v ELSE List(<<v>>)

\* A full value is a value, and neither missing nor failed.
LEMMA FullStep ==
  /\ Full = [t \in TypeExpr |-> FullOf(t, Full[Tail(t)])]
  /\ \A t \in TypeExpr : Full[t] \in Value \ {Absent, Failed}
<1> DEFINE Fine(t, v) == v \in Nested[Len(t) - 1] \ {Absent, Failed}
           X == {f \in [TypeExpr -> Value] : \A t \in TypeExpr : Fine(t, f[t])}
           F == [f \in X \cup {Full} |-> [t \in TypeExpr |-> FullOf(t, f[Tail(t)])]]
           size == [t \in TypeExpr |-> Len(t)]
<1>1. MaxDepth + 1 \in Nat /\ size \in [TypeExpr -> 0 .. MaxDepth + 1]
  BY TypeShape, TypeGraphAssumption
<1>2. \A t \in TypeExpr : Nested[Len(t) - 1] \subseteq Value /\ Simple \subseteq Nested[Len(t) - 1]
  <2>1. \A t \in TypeExpr : Len(t) - 1 \in 0 .. MaxDepth
    BY TypeShape, TypeGraphAssumption
  <2> QED BY <2>1, NestedGrows
<1>3. \A n \in Names : Of(n) \in Simple \ {Absent, Failed}
  BY DEF Simple, Of, Absent, Failed, Names, Scalars, Handles, Media
<1>4. X # {}
  <2>1. Of("file") \in Simple \ {Absent, Failed}
    BY <1>3 DEF Names, Handles
  <2>2. [t \in TypeExpr |-> Of("file")] \in X
    BY <1>2, <2>1
  <2> QED BY <2>2
<1>5. ASSUME NEW t \in TypeExpr, NEW v, Outer(t) = "named" \/ Fine(Tail(t), v)
      PROVE  Fine(t, FullOf(t, v))
  <2>1. CASE Outer(t) = "named"
    <3>1. t[1] \in Names
      BY <2>1, TypeShape DEF Generic
    <3> QED BY <1>2, <1>3, <2>1, <3>1 DEF FullOf
  <2>2. CASE Outer(t) # "named"
    <3>1. Len(t) - 1 \in 1 .. MaxDepth /\ Len(Tail(t)) - 1 = Len(t) - 1 - 1
      BY <2>2, TypeShape, TypeGraphAssumption
    <3>2. Nested[Len(t) - 1] = Nested[Len(t) - 1 - 1] \cup Lists(Nested[Len(t) - 1 - 1])
      BY <3>1, NestedGrows
    <3>3. Fine(Tail(t), v)
      BY <1>5, <2>2
    <3>4. List(<<v>>) \in Lists(Nested[Len(t) - 1 - 1])
      <4>1. v \in Nested[Len(t) - 1 - 1]
        BY <3>1, <3>3
      <4>2. <<v>> \in Seq(Nested[Len(t) - 1 - 1])
        BY <4>1, OneInSeq
      <4> QED BY <4>2 DEF Lists, List
    <3>5. List(<<v>>) # Failed /\ List(<<v>>) # Absent
      BY DEF List, Failed, Absent, Of
    <3>6. FullOf(t, v) = v \/ FullOf(t, v) = List(<<v>>)
      BY <2>2 DEF FullOf
    <3> QED BY <3>1, <3>2, <3>3, <3>4, <3>5, <3>6
  <2> QED BY <2>1, <2>2
<1>6. ASSUME NEW f \in X
      PROVE  F[f] \in X /\ f = [t \in TypeExpr |-> f[t]]
  <2>1. F[f] = [t \in TypeExpr |-> FullOf(t, f[Tail(t)])]
    OBVIOUS
  <2>2. \A t \in TypeExpr : Fine(t, FullOf(t, f[Tail(t)]))
    <3> SUFFICES ASSUME NEW t \in TypeExpr PROVE Fine(t, FullOf(t, f[Tail(t)]))
      OBVIOUS
    <3>1. Outer(t) = "named" \/ Fine(Tail(t), f[Tail(t)])
      BY TypeShape
    <3> HIDE DEF Fine
    <3> QED BY <1>5, <3>1
  <2>3. \A t \in TypeExpr : FullOf(t, f[Tail(t)]) \in Value
    BY <1>2, <2>2
  <2> QED BY <2>1, <2>2, <2>3
<1>7. F[Full] = [t \in TypeExpr |-> F[Full][t]]
  OBVIOUS
<1>8. ASSUME NEW f \in X, NEW g \in X \cup {Full}, NEW t \in TypeExpr,
             \A u \in TypeExpr : size[u] < size[t] => f[u] = g[u]
      PROVE  F[f][t] = F[g][t]
  <2>1. F[f][t] = FullOf(t, f[Tail(t)]) /\ F[g][t] = FullOf(t, g[Tail(t)])
    OBVIOUS
  <2>2. CASE Outer(t) = "named"
    BY <2>1, <2>2 DEF FullOf
  <2>3. CASE Outer(t) # "named"
    <3>1. Tail(t) \in TypeExpr /\ Len(Tail(t)) < Len(t)
      BY <2>3, TypeShape
    <3>2. f[Tail(t)] = g[Tail(t)]
      BY <1>8, <3>1
    <3> QED BY <2>1, <3>2
  <2> QED BY <2>2, <2>3
<1>9. (\E f \in X : f = F[f]) => Full = F[Full]
  <2> DEFINE G(f) == [t \in TypeExpr |-> FullOf(t, f[Tail(t)])]
  <2>1. Full = CHOOSE f : f = G(f)
    BY DEF Full, FullOf
  <2>2. \A f \in X \cup {Full} : F[f] = G(f)
    OBVIOUS
  <2> HIDE DEF F, G, X
  <2> QED BY <2>1, <2>2
<1>10. Full \in X /\ Full = F[Full]
  <2>1. Computes(TypeExpr, MaxDepth + 1, size, X, Full, F)
    <3> HIDE DEF F, X, size
    <3> QED BY <1>1, <1>4, <1>6, <1>7, <1>8, <1>9 DEF Computes
  <2> HIDE DEF F, X, size
  <2> QED BY <2>1, Recursion
<1> QED BY <1>10

\* The values of t, when S are those of the type within.
ValuesOf(t, S) ==
  IF Outer(t) = "named" THEN {Of(t[1])}
  ELSE IF Outer(t) = "option" THEN S \cup {Absent}
  ELSE {List(s) : s \in UNION {[1 .. n -> S] : n \in 0 .. MaxItems}}

\* What an output holds fits its type.
LEMMA ValuesFit ==
  \A t \in TypeExpr : Values[t] \subseteq Fitting[t]
<1> DEFINE X == {f \in [TypeExpr -> SUBSET Value] : \A t \in TypeExpr : f[t] \subseteq Fitting[t]}
           F == [f \in X \cup {Values} |-> [t \in TypeExpr |-> ValuesOf(t, f[Tail(t)])]]
           size == [t \in TypeExpr |-> Len(t)]
<1>1. MaxDepth + 1 \in Nat /\ size \in [TypeExpr -> 0 .. MaxDepth + 1]
  BY TypeShape, TypeGraphAssumption
<1>2. \A t \in TypeExpr : Fitting[t] \subseteq Value
  <2>1. \A t \in TypeExpr : Len(t) - 1 \in 0 .. MaxDepth
    BY TypeShape, TypeGraphAssumption
  <2> QED BY <2>1, NestedGrows, FittingStep
<1>3. X # {}
  <2>1. [t \in TypeExpr |-> {}] \in X
    OBVIOUS
  <2> QED BY <2>1
<1>4. ASSUME NEW t \in TypeExpr, NEW S, Outer(t) = "named" \/ S \subseteq Fitting[Tail(t)]
      PROVE  ValuesOf(t, S) \subseteq Fitting[t]
  <2>0. Fitting[t] = FittingOf(t, Fitting[Tail(t)])
    BY FittingStep
  <2>1. CASE Outer(t) = "named"
    <3>1. t[1] \in Names /\ t[1] \in ancestorsOf(t[1])
      BY <2>1, TypeShape DEF Generic, ancestorsOf
    <3> QED BY <2>0, <2>1, <3>1 DEF ValuesOf, FittingOf
  <2>2. CASE Outer(t) = "option"
    BY <1>4, <2>0, <2>2 DEF ValuesOf, FittingOf
  <2>3. CASE Outer(t) # "named" /\ Outer(t) # "option"
    <3>1. ValuesOf(t, S) = {List(s) : s \in UNION {[1 .. n -> S] : n \in 0 .. MaxItems}}
      BY <2>3 DEF ValuesOf
    <3>2. Fitting[t] = Lists(Fitting[Tail(t)])
      BY <2>0, <2>3 DEF FittingOf
    <3>3. ASSUME NEW n \in 0 .. MaxItems, NEW s \in [1 .. n -> S]
          PROVE  List(s) \in Lists(Fitting[Tail(t)])
      <4>1. n \in Nat
        BY TypeGraphAssumption
      <4>2. s \in Seq(Fitting[Tail(t)])
        BY <1>4, <2>3, <4>1
      <4> QED BY <4>2 DEF List, Lists
    <3> QED BY <3>1, <3>2, <3>3
  <2> QED BY <2>1, <2>2, <2>3
<1>5. ASSUME NEW f \in X
      PROVE  F[f] \in X /\ f = [t \in TypeExpr |-> f[t]]
  <2>1. F[f] = [t \in TypeExpr |-> ValuesOf(t, f[Tail(t)])]
    OBVIOUS
  <2>2. \A t \in TypeExpr : ValuesOf(t, f[Tail(t)]) \subseteq Fitting[t]
    <3> SUFFICES ASSUME NEW t \in TypeExpr PROVE ValuesOf(t, f[Tail(t)]) \subseteq Fitting[t]
      OBVIOUS
    <3>1. Outer(t) = "named" \/ f[Tail(t)] \subseteq Fitting[Tail(t)]
      BY TypeShape
    <3> QED BY <1>4, <3>1
  <2>3. \A t \in TypeExpr : ValuesOf(t, f[Tail(t)]) \in SUBSET Value
    BY <1>2, <2>2
  <2> QED BY <2>1, <2>2, <2>3
<1>6. F[Values] = [t \in TypeExpr |-> F[Values][t]]
  OBVIOUS
<1>7. ASSUME NEW f \in X, NEW g \in X \cup {Values}, NEW t \in TypeExpr,
             \A u \in TypeExpr : size[u] < size[t] => f[u] = g[u]
      PROVE  F[f][t] = F[g][t]
  <2>1. F[f][t] = ValuesOf(t, f[Tail(t)]) /\ F[g][t] = ValuesOf(t, g[Tail(t)])
    OBVIOUS
  <2>2. CASE Outer(t) = "named"
    BY <2>1, <2>2 DEF ValuesOf
  <2>3. CASE Outer(t) # "named"
    <3>1. Tail(t) \in TypeExpr /\ Len(Tail(t)) < Len(t)
      BY <2>3, TypeShape
    <3>2. f[Tail(t)] = g[Tail(t)]
      BY <1>7, <3>1
    <3> QED BY <2>1, <3>2
  <2> QED BY <2>2, <2>3
<1>8. (\E f \in X : f = F[f]) => Values = F[Values]
  <2> DEFINE G(f) == [t \in TypeExpr |-> ValuesOf(t, f[Tail(t)])]
  <2>1. Values = CHOOSE f : f = G(f)
    BY DEF Values, ValuesOf
  <2>2. \A f \in X \cup {Values} : F[f] = G(f)
    OBVIOUS
  <2> HIDE DEF F, G, X
  <2> QED BY <2>1, <2>2
<1>9. Values \in X
  <2>1. Computes(TypeExpr, MaxDepth + 1, size, X, Values, F)
    <3> HIDE DEF F, X, size
    <3> QED BY <1>1, <1>3, <1>5, <1>6, <1>7, <1>8 DEF Computes
  <2> HIDE DEF F, X, size
  <2> QED BY <2>1, Recursion
<1> QED BY <1>9


---------------------------------------------------------------------------
(***************************************************************************)
(* The decision.                                                           *)
(***************************************************************************)
UsedIn(op, ops) == \E i \in DOMAIN ops : ops[i] = op

\* The operations of w make of what fits a what fits b, or what failed; and of
\* a full value of a they make something.
Sound(a, b, w) ==
  /\ w.ops \in Seq(Op) /\ Len(w.ops) <= Len(a)
  /\ w.kind = 0 => w.ops = <<>>
  /\ \/ UsedIn("decode-json", w.ops)
     \/ \A v \in Fitting[a] : apply_ops[w.ops][v] \subseteq Fitting[b] \cup {Failed}
  /\ \/ \E op \in PENDING_OPS : UsedIn(op, w.ops)
     \/ \E r \in apply_ops[w.ops][Full[a]] : r # Failed

\* Everything the decision speaks of can be converted.
LEMMA Convertible ==
  ASSUME NEW a \in TypeExpr
  PROVE  /\ Fitting[a] \subseteq Value /\ Failed \notin Fitting[a]
         /\ Full[a] \in Value /\ Full[a] # Failed /\ Full[a] # Absent
         /\ Absent \in Value /\ Failed \in Value /\ Simple \subseteq Value
<1>1. Len(a) - 1 \in 0 .. MaxDepth /\ MaxDepth \in 0 .. MaxDepth
  BY TypeShape, TypeGraphAssumption
<1>2. Nested[Len(a) - 1] \subseteq Value /\ Simple \subseteq Value
  BY <1>1, NestedGrows
<1>3. Absent \in Simple /\ Failed \in Simple
  BY DEF Simple
<1> QED BY <1>2, <1>3, FittingStep, FullStep

\* No operation leaves a value as it is.
LEMMA NoOps ==
  <<>> \in Ops /\ \A v \in Value : apply_ops[<<>>][v] = {v}
<1>1. <<>> \in Ops
  <2>1. <<>> \in Seq(Op) /\ Len(<<>>) <= MaxDepth + 1
    BY TypeGraphAssumption
  <2> QED BY <2>1, OpsShape
<1>2. apply_ops[<<>>] = Evaluated(<<>>, apply_ops[Tail(<<>>)])
  BY <1>1, ApplyOps
<1> QED BY <1>1, <1>2 DEF Evaluated

\* One operation before others.
LEMMA OpBefore ==
  ASSUME NEW o \in Op, NEW ops \in Seq(Op), Len(ops) <= MaxDepth
  PROVE  /\ <<o>> \o ops \in Seq(Op) /\ Len(<<o>> \o ops) = Len(ops) + 1
         /\ ops \in Ops
         /\ \A op : UsedIn(op, ops) => UsedIn(op, <<o>> \o ops)
         /\ \A v \in Value : apply_ops[<<o>> \o ops][v] = Applied(o, apply_ops[ops], v)
<1> DEFINE p == <<o>> \o ops
<1>1. p \in Seq(Op) /\ Len(p) = Len(ops) + 1 /\ Len(ops) \in Nat
  OBVIOUS
<1>2. Head(p) = o /\ Tail(p) = ops /\ p # <<>>
  <2>1. Tail(p) \in Seq(Op) /\ Len(Tail(p)) = Len(ops) /\ Head(p) = p[1] /\ p[1] = o
    OBVIOUS
  <2>2. \A i \in 1 .. Len(ops) : Tail(p)[i] = ops[i]
    OBVIOUS
  <2>3. Tail(p) = ops
    BY <2>1, <2>2, SeqEqual
  <2> QED BY <1>1, <2>1, <2>3
<1>3. p \in Ops /\ ops \in Ops
  <2>1. Len(p) <= MaxDepth + 1 /\ Len(ops) <= MaxDepth + 1
    BY <1>1, TypeGraphAssumption
  <2> HIDE DEF p
  <2> QED BY <1>1, <2>1, OpsShape
<1>4. ASSUME NEW op, UsedIn(op, ops)
      PROVE  UsedIn(op, p)
  <2>1. PICK i \in 1 .. Len(ops) : ops[i] = op
    BY <1>4 DEF UsedIn
  <2>2. i + 1 \in 1 .. Len(p) /\ p[i + 1] = op
    BY <1>1, <2>1
  <2>3. DOMAIN p = 1 .. Len(p)
    BY <1>1
  <2> HIDE DEF p
  <2> QED BY <2>2, <2>3 DEF UsedIn
<1>5. ASSUME NEW v \in Value
      PROVE  apply_ops[p][v] = Applied(o, apply_ops[ops], v)
  <2> HIDE DEF p
  <2>1. apply_ops[p] = Evaluated(p, apply_ops[Tail(p)])
    BY <1>3, ApplyOps
  <2> QED BY <1>2, <2>1 DEF Evaluated
<1> QED BY <1>1, <1>3, <1>4, <1>5

\* A type to itself.
LEMMA SameSound ==
  ASSUME NEW a \in TypeExpr
  PROVE  Sound(a, a, Yes(0, <<>>))
<1>1. \A v \in Fitting[a] : apply_ops[<<>>][v] = {v}
  BY Convertible, NoOps
<1>2. apply_ops[<<>>][Full[a]] = {Full[a]} /\ Full[a] # Failed
  BY Convertible, NoOps
<1>3. <<>> \in Seq(Op) /\ Len(<<>>) <= Len(a)
  BY TypeShape
<1> QED BY <1>1, <1>2, <1>3 DEF Sound, Yes

\* A value to what may be missing.
LEMMA ToOptionSound ==
  ASSUME NEW a \in TypeExpr, NEW b \in TypeExpr, Outer(b) = "option",
         NEW w, Sound(a, Tail(b), w)
  PROVE  Sound(a, b, w)
<1>1. Fitting[Tail(b)] \subseteq Fitting[b]
  BY FittingStep DEF FittingOf
<1> QED BY <1>1 DEF Sound

\* What may be missing to what may be missing.
LEMMA OptionSound ==
  ASSUME NEW a \in TypeExpr, NEW b \in TypeExpr, Outer(a) = "option", Outer(b) = "option",
         NEW w, Sound(Tail(a), Tail(b), w)
  PROVE  Sound(a, b, w)
<1>1. Fitting[a] = Fitting[Tail(a)] \cup {Absent} /\ Fitting[b] = Fitting[Tail(b)] \cup {Absent}
  BY FittingStep DEF FittingOf
<1>2. Full[a] = Full[Tail(a)]
  BY FullStep DEF FullOf
<1>3. w.ops \in Seq(Op) /\ Len(w.ops) <= Len(a) /\ w.ops \in Ops
  <2>1. w.ops \in Seq(Op) /\ Len(w.ops) <= Len(Tail(a)) /\ Len(w.ops) \in Nat
    BY DEF Sound
  <2>2. Len(Tail(a)) = Len(a) - 1 /\ Len(a) \in 1 .. MaxDepth + 1
    BY TypeShape
  <2>3. Len(w.ops) <= Len(a) /\ Len(w.ops) <= MaxDepth + 1
    BY <2>1, <2>2, TypeGraphAssumption
  <2> QED BY <2>1, <2>3, OpsShape
<1>4. apply_ops[w.ops][Absent] \subseteq {Absent, Failed}
  BY <1>3, ApplyOps DEF Evaluator
<1> QED BY <1>1, <1>2, <1>3, <1>4 DEF Sound

\* What may be missing to a value: what is missing fails.
LEMMA UnwrapSound ==
  ASSUME NEW a \in TypeExpr, NEW b \in TypeExpr, Outer(a) = "option",
         NEW w, Sound(Tail(a), b, w)
  PROVE  Sound(a, b, Yes(2, <<"unwrap-option">> \o w.ops))
<1> DEFINE p == <<"unwrap-option">> \o w.ops
<1>1. Fitting[a] = Fitting[Tail(a)] \cup {Absent} /\ Full[a] = Full[Tail(a)]
  BY FittingStep, FullStep DEF FittingOf, FullOf
<1>2. Len(Tail(a)) = Len(a) - 1 /\ Len(a) \in 1 .. MaxDepth + 1
  BY TypeShape
<1>3. w.ops \in Seq(Op) /\ Len(w.ops) <= Len(a) - 1 /\ Len(w.ops) <= MaxDepth /\ Len(w.ops) \in Nat
  BY <1>2, TypeGraphAssumption DEF Sound
<1>4. "unwrap-option" \in Op
  BY DEF Op
<1>5. /\ p \in Seq(Op) /\ Len(p) = Len(w.ops) + 1 /\ w.ops \in Ops
      /\ \A op : UsedIn(op, w.ops) => UsedIn(op, p)
      /\ \A v \in Value : apply_ops[p][v] = Applied("unwrap-option", apply_ops[w.ops], v)
  BY <1>3, <1>4, OpBefore
<1>6. Applied("unwrap-option", apply_ops[w.ops], Absent) = {Failed}
  <2>1. apply_one(Absent, "unwrap-option") = {Failed} /\ Absent # Failed
    BY DEF apply_one, converted, Absent, Failed, Of
  <2>2. apply_ops[w.ops][Failed] = {Failed}
    BY <1>5, ApplyOps DEF Evaluator
  <2> QED BY <2>1, <2>2 DEF Applied
<1>7. ASSUME NEW v, v # Absent, v # Failed
      PROVE  Applied("unwrap-option", apply_ops[w.ops], v) = apply_ops[w.ops][v]
  <2>1. apply_one(v, "unwrap-option") = {v}
    BY <1>7 DEF apply_one, converted
  <2> QED BY <1>7, <2>1 DEF Applied
<1>8. \A v \in Fitting[a] : apply_ops[p][v] = IF v = Absent THEN {Failed} ELSE apply_ops[w.ops][v]
  BY <1>5, <1>6, <1>7, Convertible
<1>9. apply_ops[p][Full[a]] = apply_ops[w.ops][Full[Tail(a)]]
  BY <1>1, <1>5, <1>7, Convertible
<1>10. Yes(2, p).ops = p /\ Yes(2, p).kind = 2 /\ Len(p) <= Len(a)
  <2>1. Len(p) <= Len(a)
    BY <1>2, <1>3, <1>5
  <2> HIDE DEF p
  <2> QED BY <2>1 DEF Yes
<1> HIDE DEF p
<1>11. Sound(a, b, Yes(2, p))
  BY <1>1, <1>5, <1>8, <1>9, <1>10 DEF Sound
<1> QED BY <1>11 DEF p


\* A list to a list, each item as the type within.
LEMMA ListSound ==
  ASSUME NEW a \in TypeExpr, NEW b \in TypeExpr, Outer(a) = "list", Outer(b) = "list",
         NEW w, w.ok, Sound(Tail(a), Tail(b), w)
  PROVE  Sound(a, b, Mapped(w))
<1>1. Tail(a) \in TypeExpr /\ Len(Tail(a)) = Len(a) - 1 /\ Len(a) \in 1 .. MaxDepth + 1
  BY TypeShape
<1>2. Fitting[a] = Lists(Fitting[Tail(a)]) /\ Fitting[b] = Lists(Fitting[Tail(b)])
  BY FittingStep DEF FittingOf
<1>3. Full[a] = List(<<Full[Tail(a)]>>)
  BY FullStep DEF FullOf
<1>4. CASE w.kind = 0
  <2>1. w.ops = <<>> /\ Mapped(w) = w
    BY <1>4 DEF Sound, Mapped
  <2>2. \A op : ~UsedIn(op, <<>>)
    BY DEF UsedIn
  <2>3. Fitting[Tail(a)] \subseteq Fitting[Tail(b)]
    <3>1. \A v \in Fitting[Tail(a)] : apply_ops[<<>>][v] \subseteq Fitting[Tail(b)] \cup {Failed}
      BY <2>1, <2>2 DEF Sound
    <3>2. \A v \in Fitting[Tail(a)] : apply_ops[<<>>][v] = {v} /\ v # Failed
      BY <1>1, Convertible, NoOps
    <3> QED BY <3>1, <3>2
  <2>4. Fitting[a] \subseteq Fitting[b]
    BY <1>2, <2>3 DEF Lists
  <2>5. \A v \in Fitting[a] : apply_ops[<<>>][v] = {v}
    BY Convertible, NoOps
  <2>6. apply_ops[<<>>][Full[a]] = {Full[a]} /\ Full[a] # Failed
    BY Convertible, NoOps
  <2>7. <<>> \in Seq(Op) /\ Len(<<>>) <= Len(a)
    BY <1>1
  <2>8. /\ w.ops \in Seq(Op) /\ Len(w.ops) <= Len(a)
        /\ \A v \in Fitting[a] : apply_ops[w.ops][v] \subseteq Fitting[b] \cup {Failed}
        /\ \E r \in apply_ops[w.ops][Full[a]] : r # Failed
    BY <2>1, <2>4, <2>5, <2>6, <2>7
  <2> QED BY <2>1, <2>8 DEF Sound
<1>5. CASE w.kind # 0
  <2> DEFINE p == <<"map">> \o w.ops
             rest == apply_ops[w.ops]
             Each(v) == [i \in DOMAIN v.items |-> rest[v.items[i]]]
  <2>1. Mapped(w) = Yes(w.kind, p)
    BY <1>5 DEF Mapped
  <2>2. w.ops \in Seq(Op) /\ Len(w.ops) <= Len(a) - 1 /\ Len(w.ops) <= MaxDepth /\ Len(w.ops) \in Nat
    BY <1>1, TypeGraphAssumption DEF Sound
  <2>3. "map" \in Op
    BY DEF Op
  <2>4. /\ p \in Seq(Op) /\ Len(p) = Len(w.ops) + 1
        /\ \A op : UsedIn(op, w.ops) => UsedIn(op, p)
        /\ \A v \in Value : apply_ops[p][v] = Applied("map", rest, v)
    BY <2>2, <2>3, OpBefore
  <2>5. ASSUME NEW v \in Value, v.k = "list"
        PROVE  apply_ops[p][v] = {IF \E i \in DOMAIN s : s[i] = Failed THEN Failed ELSE List(s) : s \in EachOf(Each(v))}
    <3>1. v # Failed
      BY <2>5 DEF Failed, Of
    <3>2. Applied("map", rest, v) = {IF \E i \in DOMAIN s : s[i] = Failed THEN Failed ELSE List(s) : s \in EachOf(Each(v))}
      BY <2>5, <3>1 DEF Applied
    <3> QED BY <2>4, <3>2
  <2>6. ASSUME \A v \in Fitting[Tail(a)] : rest[v] \subseteq Fitting[Tail(b)] \cup {Failed},
               NEW v \in Fitting[a]
        PROVE  apply_ops[p][v] \subseteq Fitting[b] \cup {Failed}
    <3>0. v \in Value
      BY Convertible
    <3>1. v.k = "list" /\ v.items \in Seq(Fitting[Tail(a)])
      BY <1>2 DEF Lists
    <3>2. ASSUME NEW s \in EachOf(Each(v)), ~ \E i \in DOMAIN s : s[i] = Failed
          PROVE  List(s) \in Fitting[b]
      <4> DEFINE n == Len(v.items)
      <4>1. n \in Nat /\ DOMAIN Each(v) = 1 .. n
        BY <3>1
      <4>2. DOMAIN s = 1 .. n /\ s = [i \in 1 .. n |-> s[i]] /\ \A i \in 1 .. n : s[i] \in Each(v)[i]
        BY <4>1 DEF EachOf
      <4>3. \A i \in 1 .. n : Each(v)[i] \subseteq Fitting[Tail(b)] \cup {Failed}
        BY <2>6, <3>1, <4>1
      <4>4. \A i \in 1 .. n : s[i] \in Fitting[Tail(b)]
        BY <3>2, <4>2, <4>3
      <4>5. s \in [1 .. n -> Fitting[Tail(b)]]
        BY <4>2, <4>4
      <4>6. s \in Seq(Fitting[Tail(b)])
        BY <4>1, <4>5
      <4> QED BY <1>2, <4>6 DEF Lists, List
    <3> HIDE DEF p, rest, Each
    <3> QED BY <2>5, <3>0, <3>1, <3>2
  <2>7. ASSUME NEW r \in rest[Full[Tail(a)]], r # Failed
        PROVE  \E x \in apply_ops[p][Full[a]] : x # Failed
    <3> DEFINE s == [i \in 1 .. 1 |-> r]
    <3>1. Full[a] \in Value /\ Full[a].k = "list" /\ Full[a].items = <<Full[Tail(a)]>>
      BY <1>3, Convertible DEF List
    <3>2. DOMAIN Each(Full[a]) = 1 .. 1 /\ \A i \in 1 .. 1 : Each(Full[a])[i] = rest[Full[Tail(a)]]
      BY <3>1
    <3>3. s \in EachOf(Each(Full[a]))
      <4>1. \A i \in 1 .. 1 : s[i] \in Each(Full[a])[i]
        BY <3>2
      <4> HIDE DEF Each
      <4> QED BY <3>2, <4>1 DEF EachOf
    <3>4. ~ \E i \in DOMAIN s : s[i] = Failed
      BY <2>7
    <3>5. List(s) \in apply_ops[p][Full[a]]
      <4> HIDE DEF s, p, rest, Each
      <4> QED BY <2>5, <3>1, <3>3, <3>4
    <3>6. List(s) # Failed
      BY DEF List, Failed, Of
    <3> QED BY <3>5, <3>6
  <2>8. Yes(w.kind, p).ops = p /\ Yes(w.kind, p).kind = w.kind /\ Len(p) <= Len(a)
    <3>1. Len(p) <= Len(a)
      BY <1>1, <2>2, <2>4
    <3> HIDE DEF p
    <3> QED BY <3>1 DEF Yes
  <2>9. Sound(a, b, Yes(w.kind, p))
    <3> HIDE DEF p, Each
    <3> QED BY <1>5, <2>4, <2>6, <2>7, <2>8 DEF Sound
  <2> HIDE DEF p
  <2> QED BY <2>1, <2>9
<1> QED BY <1>4, <1>5


\* A kind of a kind of file is a file.
LEMMA AncestorsOfAncestors ==
  /\ \A n : n \in ancestorsOf(n)
  /\ \A n \in Names : \A m, k : n \in ancestorsOf(m) /\ k \in ancestorsOf(n) => k \in ancestorsOf(m)
  /\ \A n, m : n \in ancestorsOf(m) /\ n # "file" => m = n
  /\ \A m : "file" \in ancestorsOf(m) => m \in {"file"} \cup Media
BY DEF ancestorsOf, Names, Scalars, Handles, Media

\* A name is neither what is absent nor what failed.
LEMMA NamesAreThere ==
  \A n \in Names : Of(n).k = n /\ Of(n) # Absent /\ Of(n) # Failed
BY DEF Of, Absent, Failed, Names, Scalars, Handles, Media

\* What the operation op makes of every kind of a name f is a t, or failed; and
\* unless it narrowed what was widened before, it makes one.
Coerces(f, t, op) ==
  /\ \/ op = "decode-json"
     \/ \A m \in Names : f \in ancestorsOf(m) => apply_one(Of(m), op) \subseteq {Of(t), Failed}
  /\ \/ op \in PENDING_OPS
     \/ \A n \in Names : f \in ancestorsOf(n) /\ ~Narrows(n, f, t) =>
          \E r \in apply_one(Of(n), op) : r # Failed

\* An operation that makes a t of the kinds f is one of, and of what is no file.
LEMMA MakesCoerces ==
  ASSUME NEW f \in Names \ {"file"}, NEW t \in Names, NEW op, NEW kinds, NEW results,
         f \in kinds, t \in results, results \subseteq {t, "failed"},
         op # "unwrap-option", converted(Of(f), op) = Makes(kinds, results, Of(f))
  PROVE  Coerces(f, t, op)
<1>1. \A m \in Names : f \in ancestorsOf(m) => m = f
  BY AncestorsOfAncestors
<1>2. apply_one(Of(f), op) = {Of(r) : r \in results}
  BY NamesAreThere DEF apply_one, Makes
<1>3. Of(t) \in apply_one(Of(f), op) /\ apply_one(Of(f), op) \subseteq {Of(t), Failed} /\ Of(t) # Failed
  BY <1>2, NamesAreThere DEF Failed
<1> QED BY <1>1, <1>3 DEF Coerces

\* An operation that may make a t of a file of any kind.
LEMMA FileCoerces ==
  ASSUME NEW t \in Names, NEW op, NEW kinds,
         op # "unwrap-option", \A v : converted(v, op) = Makes(kinds, {t, "failed"}, v),
         \A n \in {"file"} \cup Media : n \in kinds \/ Narrows(n, "file", t)
  PROVE  Coerces("file", t, op)
<1>1. \A m \in Names : apply_one(Of(m), op) = IF m \in kinds THEN {Of(t), Failed} ELSE {Failed}
  BY NamesAreThere DEF apply_one, Makes, Failed
<1>2. \A m \in Names : apply_one(Of(m), op) \subseteq {Of(t), Failed}
  BY <1>1
<1>3. ASSUME NEW n \in Names, "file" \in ancestorsOf(n), ~Narrows(n, "file", t)
      PROVE  \E r \in apply_one(Of(n), op) : r # Failed
  <2>1. n \in kinds
    BY <1>3, AncestorsOfAncestors
  <2>2. Of(t) \in apply_one(Of(n), op) /\ Of(t) # Failed
    BY <1>1, <2>1, NamesAreThere
  <2> QED BY <2>2
<1> QED BY <1>2, <1>3 DEF Coerces

\* Every row of the table says what its operation does.
LEMMA TableCoerces ==
  ASSUME NEW x \in Coercions
  PROVE  /\ x.op \in Op /\ x.op # "map" /\ x.from \in Names /\ x.to \in Names
         /\ x.kind \in 1 .. 2 /\ Coerces(x.from, x.to, x.op)
<1>1. {"bool", "i64", "f64", "string", "json", "file", "bytes", "image", "video", "audio"} \subseteq Names
  BY DEF Names, Scalars, Handles, Media
<1>2. Coerces("i64", "f64", "int-to-float")
  <2>1. converted(Of("i64"), "int-to-float") = Makes({"i64"}, {"f64", "failed"}, Of("i64"))
    BY DEF converted
  <2> QED BY <1>1, <2>1, MakesCoerces
<1>3. Coerces("bool", "i64", "bool-to-int")
  <2>1. converted(Of("bool"), "bool-to-int") = Makes({"bool"}, {"i64"}, Of("bool"))
    BY DEF converted
  <2> QED BY <1>1, <2>1, MakesCoerces
<1>4. Coerces("i64", "bool", "int-to-bool")
  <2>1. converted(Of("i64"), "int-to-bool") = Makes({"i64"}, {"bool"}, Of("i64"))
    BY DEF converted
  <2> QED BY <1>1, <2>1, MakesCoerces
<1>5. Coerces("f64", "i64", "round")
  <2>1. converted(Of("f64"), "round") = Makes({"f64"}, {"i64", "failed"}, Of("f64"))
    BY DEF converted
  <2> QED BY <1>1, <2>1, MakesCoerces
<1>6. Coerces("string", "i64", "parse-int")
  <2>1. converted(Of("string"), "parse-int") = Makes({"string"}, {"i64", "failed"}, Of("string"))
    BY DEF converted
  <2> QED BY <1>1, <2>1, MakesCoerces
<1>7. Coerces("string", "f64", "parse-float")
  <2>1. converted(Of("string"), "parse-float") = Makes({"string"}, {"f64", "failed"}, Of("string"))
    BY DEF converted
  <2> QED BY <1>1, <2>1, MakesCoerces
<1>8. Coerces("string", "bool", "parse-bool")
  <2>1. converted(Of("string"), "parse-bool") = Makes({"string"}, {"bool", "failed"}, Of("string"))
    BY DEF converted
  <2> QED BY <1>1, <2>1, MakesCoerces
<1>9. Coerces("string", "json", "parse-json")
  <2>1. converted(Of("string"), "parse-json") = Makes({"string"}, {"json", "failed"}, Of("string"))
    BY DEF converted
  <2> QED BY <1>1, <2>1, MakesCoerces
<1>10. Coerces("json", "string", "stringify-json")
  <2>1. converted(Of("json"), "stringify-json") = Makes({"json"}, {"string"}, Of("json"))
    BY DEF converted
  <2> QED BY <1>1, <2>1, MakesCoerces
<1>11. Coerces("bytes", "file", "write-temp")
  <2>1. converted(Of("bytes"), "write-temp") = Makes(Handles, {"file"}, Of("bytes"))
    BY DEF converted
  <2> QED BY <1>1, <2>1, MakesCoerces DEF Handles
<1>12. \A f \in {"i64", "f64", "bool"} : Coerces(f, "string", "to-text")
  <2>1. \A v : converted(v, "to-text") = Makes({"i64", "f64", "bool", "string"}, {"string"}, v)
    BY DEF converted
  <2> QED BY <1>1, <2>1, MakesCoerces
<1>13. \A f \in {"i64", "f64", "bool"} : Coerces(f, "json", "encode-json")
  <2>1. \A v : converted(v, "encode-json") = Makes({"i64", "f64", "bool", "string"}, {"json"}, v)
    BY DEF converted
  <2> QED BY <1>1, <2>1, MakesCoerces
<1>14. \A t \in {"i64", "f64", "bool"} : Coerces("json", t, "decode-json")
  <2>1. converted(Of("json"), "decode-json") = Makes({"json"}, {"bool", "string", "i64", "f64", "failed"}, Of("json"))
    BY DEF converted
  <2>2. apply_one(Of("json"), "decode-json") = converted(Of("json"), "decode-json")
    BY <1>1, NamesAreThere DEF apply_one
  <2>3. Of("bool") \in apply_one(Of("json"), "decode-json") /\ Of("bool") # Failed
    BY <1>1, <2>1, <2>2, NamesAreThere DEF Makes
  <2>4. \A n \in Names : "json" \in ancestorsOf(n) => n = "json"
    BY AncestorsOfAncestors
  <2> QED BY <2>3, <2>4 DEF Coerces
<1>15. Coerces("file", "bytes", "read-bytes")
  <2>1. \A v : converted(v, "read-bytes") = Makes(Handles, {"bytes", "failed"}, v)
    BY DEF converted
  <2>2. \A m \in {"file"} \cup Media : m \in Handles
    BY DEF Handles
  <2> QED BY <1>1, <2>1, <2>2, FileCoerces
<1>16. Coerces("file", "image", "decode-image")
  <2>1. \A v : converted(v, "decode-image") = Makes(Handles \ (Media \ {"image"}), {"image", "failed"}, v)
    BY DEF converted
  <2>2. \A m \in {"file"} \cup Media : m \in Handles \ (Media \ {"image"}) \/ Narrows(m, "file", "image")
    BY DEF Handles, Media, Narrows, ancestorsOf
  <2> QED BY <1>1, <2>1, <2>2, FileCoerces
<1>17. \A op \in {"probe-video", "probe-audio"} : \A t : Coerces("file", t, op)
  <2>1. \A op \in {"probe-video", "probe-audio"} : \A v : converted(v, op) = {Failed}
    BY DEF converted
  <2>2. \A op \in {"probe-video", "probe-audio"} : \A m \in Names : apply_one(Of(m), op) = {Failed}
    BY <2>1, NamesAreThere DEF apply_one
  <2> QED BY <2>2 DEF Coerces, PENDING_OPS
<1>18. Coerces(x.from, x.to, x.op)
  BY <1>2, <1>3, <1>4, <1>5, <1>6, <1>7, <1>8, <1>9, <1>10, <1>11, <1>12, <1>13, <1>14, <1>15, <1>16, <1>17 DEF Coercions, Coercion
<1>19. /\ x.op \in Op /\ x.op # "map" /\ x.from \in Names /\ x.to \in Names /\ x.kind \in 1 .. 2
  BY <1>1 DEF Op, Coercions, Coercion
<1> QED BY <1>18, <1>19


\* What may be decided.
Verdict == {No} \cup [ok : {TRUE}, kind : 0 .. 2, ops : Seq(Op)]

\* Of the ways from a name to a name the shortest is taken, if there is one.
LEMMA ShortestWay ==
  ASSUME NEW n, NEW target
  PROVE  /\ Ways(n, target) \subseteq Verdict
         /\ resolveNamed(n, target) \in Ways(n, target) \cup {No}
<1>1. ASSUME NEW v \in Ways(n, target)
      PROVE  v.kind \in 0 .. 2 /\ v \in Verdict
  <2>1. PICK k \in 0 .. 2, ops \in Seq(Op) : v = Yes(k, ops)
    <3>1. <<>> \in Seq(Op) /\ 0 \in 0 .. 2
      OBVIOUS
    <3>2. \A x \in Coercions : x.kind \in 0 .. 2 /\ <<x.op>> \in Seq(Op)
      BY TableCoerces
    <3> QED BY <3>1, <3>2 DEF Ways
  <2> QED BY <2>1 DEF Yes, Verdict
<1>2. ASSUME Ways(n, target) # {}
      PROVE  \E v \in Ways(n, target) : \A u \in Ways(n, target) : v.kind <= u.kind
  <2>1. CASE \E v \in Ways(n, target) : v.kind = 0
    BY <1>1, <2>1
  <2>2. CASE ~ (\E v \in Ways(n, target) : v.kind = 0) /\ \E v \in Ways(n, target) : v.kind = 1
    BY <1>1, <2>2
  <2>3. CASE \A v \in Ways(n, target) : v.kind = 2
    BY <1>1, <1>2, <2>3
  <2> QED BY <1>1, <2>1, <2>2, <2>3
<1> QED BY <1>1, <1>2 DEF resolveNamed

\* Each way from a name to a name is sound.
LEMMA NamedSound ==
  ASSUME NEW a \in TypeExpr, NEW b \in TypeExpr, Outer(a) = "named", Outer(b) = "named",
         NEW w \in Ways(a[1], b[1])
  PROVE  Sound(a, b, w)
<1> DEFINE n == a[1]
           target == b[1]
<1>1. n \in Names /\ target \in Names /\ Len(a) = 1
  BY TypeShape DEF Generic
<1>2. /\ Fitting[a] = {Of(m) : m \in {m \in Names : n \in ancestorsOf(m)}}
      /\ Fitting[b] = {Of(m) : m \in {m \in Names : target \in ancestorsOf(m)}}
      /\ Full[a] = Of(n)
  BY FittingStep, FullStep DEF FittingOf, FullOf
<1>5. CASE w \in {Yes(0, <<>>) : k \in ancestorsOf(n) \cap {target}}
  <2>1. w = Yes(0, <<>>) /\ target \in ancestorsOf(n)
    BY <1>5
  <2>2. Fitting[a] \subseteq Fitting[b]
    BY <1>1, <1>2, <2>1, AncestorsOfAncestors
  <2>3. Sound(a, a, Yes(0, <<>>))
    BY SameSound
  <2>4. \A op : ~UsedIn(op, <<>>)
    BY DEF UsedIn
  <2>5. Yes(0, <<>>).ops = <<>>
    BY DEF Yes
  <2>6. \A v \in Fitting[a] : apply_ops[<<>>][v] \subseteq Fitting[b] \cup {Failed}
    BY <2>2, <2>3, <2>4, <2>5 DEF Sound
  <2>7. Sound(a, b, Yes(0, <<>>))
    BY <2>3, <2>5, <2>6 DEF Sound
  <2> QED BY <2>1, <2>7
<1>6. CASE \E x \in Coercions : /\ w = Yes(x.kind, <<x.op>>)
                                /\ x.from \in ancestorsOf(n) /\ x.to = target /\ ~Narrows(n, x.from, target)
  <2>1. PICK x \in Coercions : /\ w = Yes(x.kind, <<x.op>>)
                               /\ x.from \in ancestorsOf(n) /\ x.to = target /\ ~Narrows(n, x.from, target)
    BY <1>6
  <2>2. /\ x.op \in Op /\ x.op # "map" /\ x.from \in Names /\ x.to \in Names
        /\ x.kind \in 1 .. 2 /\ Coerces(x.from, x.to, x.op)
    BY TableCoerces
  <2>3. w.ops = <<x.op>> /\ w.kind # 0 /\ w.ops \in Seq(Op) /\ Len(w.ops) = 1 /\ UsedIn(x.op, w.ops)
    BY <2>1, <2>2 DEF Yes, UsedIn
  <2>4. ASSUME NEW m \in Names
        PROVE  apply_ops[w.ops][Of(m)] = apply_one(Of(m), x.op)
    <3>1. <<x.op>> \o <<>> = <<x.op>> /\ <<>> \in Seq(Op) /\ Len(<<>>) <= MaxDepth
      BY <2>2, TypeGraphAssumption
    <3>2. Of(m) \in Value /\ Simple \subseteq Value
      BY Convertible DEF Simple
    <3>3. apply_ops[<<x.op>>][Of(m)] = Applied(x.op, apply_ops[<<>>], Of(m))
      BY <2>2, <3>1, <3>2, OpBefore
    <3>4. \A r \in apply_one(Of(m), x.op) : apply_ops[<<>>][r] = {r}
      BY <3>2, ConvertedSimple, NoOps
    <3>5. Applied(x.op, apply_ops[<<>>], Of(m)) = UNION {apply_ops[<<>>][r] : r \in apply_one(Of(m), x.op)}
      BY <2>2, NamesAreThere DEF Applied
    <3>6. UNION {apply_ops[<<>>][r] : r \in apply_one(Of(m), x.op)} = apply_one(Of(m), x.op)
      BY <3>4
    <3> QED BY <2>3, <3>3, <3>5, <3>6
  <2>5. UsedIn("decode-json", w.ops) \/ \A v \in Fitting[a] : apply_ops[w.ops][v] \subseteq Fitting[b] \cup {Failed}
    <3>1. CASE x.op = "decode-json"
      BY <2>3, <3>1
    <3>2. CASE x.op # "decode-json"
      <4>1. ASSUME NEW m \in Names, n \in ancestorsOf(m)
            PROVE  apply_ops[w.ops][Of(m)] \subseteq Fitting[b] \cup {Failed}
        <5>1. x.from \in ancestorsOf(m)
          BY <1>1, <2>1, <4>1, AncestorsOfAncestors
        <5>2. apply_one(Of(m), x.op) \subseteq {Of(target), Failed}
          BY <2>1, <2>2, <3>2, <5>1 DEF Coerces
        <5>3. Of(target) \in Fitting[b]
          BY <1>1, <1>2, AncestorsOfAncestors
        <5> QED BY <2>4, <5>2, <5>3
      <4> QED BY <1>2, <4>1
    <3> QED BY <3>1, <3>2
  <2>6. (\E op \in PENDING_OPS : UsedIn(op, w.ops)) \/ \E r \in apply_ops[w.ops][Full[a]] : r # Failed
    <3>1. apply_ops[w.ops][Full[a]] = apply_one(Of(n), x.op)
      BY <1>1, <1>2, <2>4
    <3> HIDE DEF n, target
    <3> QED BY <1>1, <2>1, <2>2, <2>3, <3>1 DEF Coerces
  <2>7. Sound(a, b, w)
    BY <1>1, <2>3, <2>5, <2>6 DEF Sound
  <2> QED BY <2>7
<1> QED BY <1>5, <1>6 DEF Ways


\* What is decided of two types is sound when what was decided of the types
\* within is.
LEMMA DecidedSound ==
  ASSUME NEW f \in [TypeExpr \X TypeExpr -> Verdict],
         \A u \in TypeExpr, v \in TypeExpr : f[<<u, v>>].ok => Sound(u, v, f[<<u, v>>]),
         NEW a \in TypeExpr, NEW b \in TypeExpr
  PROVE  /\ Decided(f, a, b) \in Verdict
         /\ Decided(f, a, b).ok => Sound(a, b, Decided(f, a, b))
<1> SUFFICES ASSUME NEW w, w = Decided(f, a, b)
             PROVE  w \in Verdict /\ (w.ok => Sound(a, b, w))
  OBVIOUS
<1>1. ASSUME NEW u, NEW v, NEW x, x \in Verdict, x.ok, Sound(u, v, x)
      PROVE  x.ops \in Seq(Op) /\ x = Yes(x.kind, x.ops) /\ x.kind \in 0 .. 2
  <2>1. x # No
    BY <1>1 DEF No
  <2> QED BY <1>1, <2>1 DEF Verdict, Yes
<1>2. \A k \in 0 .. 2, ops \in Seq(Op) : Yes(k, ops) \in Verdict /\ Yes(k, ops).ok
  BY DEF Verdict, Yes
<1>3. No \in Verdict /\ ~No.ok
  BY DEF Verdict, No
<1>4. /\ Outer(a) \in {"named", "option", "list"} /\ Outer(b) \in {"named", "option", "list"}
      /\ Outer(a) # "named" => Tail(a) \in TypeExpr
      /\ Outer(b) # "named" => Tail(b) \in TypeExpr
  BY TypeShape DEF Generic
<1>5. CASE a = b
  <2>1. w = Yes(0, <<>>)
    BY <1>5 DEF Decided
  <2>2. <<>> \in Seq(Op)
    OBVIOUS
  <2>3. w \in Verdict
    BY <2>1, <2>2 DEF Verdict, Yes
  <2>4. Sound(a, b, w)
    BY <1>5, <2>1, SameSound, Zenon
  <2> QED BY <2>3, <2>4
<1>6. CASE a # b /\ Outer(a) # "option" /\ Outer(b) = "option"
  <2>1. w = f[<<a, Tail(b)>>] /\ Tail(b) \in TypeExpr
    BY <1>4, <1>6 DEF Decided
  <2>2. w \in Verdict /\ (w.ok => Sound(a, Tail(b), w))
    BY <2>1
  <2>3. w.ok => Sound(a, b, w)
    BY <1>6, <2>2, ToOptionSound, Zenon
  <2> QED BY <2>2, <2>3
<1>7. CASE a # b /\ Outer(a) = "option" /\ Outer(b) # "option"
  <2> DEFINE x == f[<<Tail(a), b>>]
  <2>1. w = Unwrapped(x) /\ Tail(a) \in TypeExpr
    BY <1>4, <1>7 DEF Decided
  <2>2. x \in Verdict /\ (x.ok => Sound(Tail(a), b, x))
    BY <2>1
  <2> HIDE DEF x
  <2>3. CASE x.ok
    <3>1. w = Yes(2, <<"unwrap-option">> \o x.ops)
      BY <2>1, <2>3 DEF Unwrapped
    <3>2. <<"unwrap-option">> \o x.ops \in Seq(Op)
      <4>1. "unwrap-option" \in Op /\ x.ops \in Seq(Op)
        BY <2>2, <2>3 DEF Op, Sound
      <4> QED BY <4>1
    <3>3. w \in Verdict
      BY <3>1, <3>2 DEF Verdict, Yes
    <3>4. Sound(a, b, w)
      BY <1>7, <2>2, <2>3, <3>1, UnwrapSound, Zenon
    <3> QED BY <3>3, <3>4
  <2>4. CASE ~x.ok
    BY <1>3, <2>1, <2>4 DEF Unwrapped
  <2> QED BY <2>3, <2>4
<1>8. CASE a # b /\ Outer(a) = "option" /\ Outer(b) = "option"
  <2>1. w = f[<<Tail(a), Tail(b)>>] /\ Tail(a) \in TypeExpr /\ Tail(b) \in TypeExpr
    BY <1>4, <1>8 DEF Decided
  <2>2. w \in Verdict /\ (w.ok => Sound(Tail(a), Tail(b), w))
    BY <2>1
  <2>3. w.ok => Sound(a, b, w)
    BY <1>8, <2>2, OptionSound, Zenon
  <2> QED BY <2>2, <2>3
<1>9. CASE a # b /\ Outer(a) = "list" /\ Outer(b) = "list"
  <2> DEFINE x == f[<<Tail(a), Tail(b)>>]
  <2>1. w = Mapped(x) /\ Tail(a) \in TypeExpr /\ Tail(b) \in TypeExpr
    BY <1>4, <1>9 DEF Decided
  <2>2. x \in Verdict /\ (x.ok => Sound(Tail(a), Tail(b), x))
    BY <2>1
  <2> HIDE DEF x
  <2>3. CASE x.ok
    <3>1. Sound(a, b, Mapped(x))
      BY <1>9, <2>2, <2>3, ListSound
    <3>2. x.ops \in Seq(Op) /\ x.kind \in 0 .. 2
      BY <1>1, <2>2, <2>3
    <3>3. <<"map">> \o x.ops \in Seq(Op)
      <4>1. "map" \in Op
        BY DEF Op
      <4> QED BY <3>2, <4>1
    <3>4. Mapped(x) \in Verdict
      BY <1>2, <2>2, <3>2, <3>3 DEF Mapped
    <3> QED BY <2>1, <3>1, <3>4
  <2>4. CASE ~x.ok
    BY <2>1, <2>2, <2>4 DEF Mapped
  <2> QED BY <2>3, <2>4
<1>10. CASE a # b /\ Outer(a) = "named" /\ Outer(b) = "named"
  <2>1. w = resolveNamed(a[1], b[1])
    BY <1>10 DEF Decided
  <2>2. w \in Ways(a[1], b[1]) \cup {No} /\ Ways(a[1], b[1]) \subseteq Verdict
    BY <2>1, ShortestWay
  <2> QED BY <1>3, <1>10, <2>2, NamedSound
<1>11. CASE a # b /\ ((Outer(a) = "list" /\ Outer(b) = "named") \/ (Outer(a) = "named" /\ Outer(b) = "list"))
  <2>1. w = No
    BY <1>11 DEF Decided
  <2> QED BY <1>3, <2>1
<1>12. \/ a = b
       \/ a # b /\ Outer(a) # "option" /\ Outer(b) = "option"
       \/ a # b /\ Outer(a) = "option" /\ Outer(b) # "option"
       \/ a # b /\ Outer(a) = "option" /\ Outer(b) = "option"
       \/ a # b /\ Outer(a) = "list" /\ Outer(b) = "list"
       \/ a # b /\ Outer(a) = "named" /\ Outer(b) = "named"
       \/ a # b /\ ((Outer(a) = "list" /\ Outer(b) = "named") \/ (Outer(a) = "named" /\ Outer(b) = "list"))
  BY <1>4
<1> QED BY <1>5, <1>6, <1>7, <1>8, <1>9, <1>10, <1>11, <1>12, Zenon


\* Every legal connection is sound.
THEOREM CheckSound ==
  \A a \in TypeExpr, b \in TypeExpr :
    /\ check[<<a, b>>] \in Verdict
    /\ check[<<a, b>>].ok => Sound(a, b, check[<<a, b>>])
<1> DEFINE D == TypeExpr \X TypeExpr
           X == {f \in [D -> Verdict] :
                   \A u \in TypeExpr, v \in TypeExpr : f[<<u, v>>].ok => Sound(u, v, f[<<u, v>>])}
           F == [f \in X \cup {check} |-> [p \in D |-> Decided(f, p[1], p[2])]]
           size == [p \in D |-> Len(p[1]) + Len(p[2])]
           N == (MaxDepth + 1) + (MaxDepth + 1)
<1>1. N \in Nat /\ size \in [D -> 0 .. N]
  <2>1. \A t \in TypeExpr : Len(t) \in Nat /\ Len(t) <= MaxDepth + 1
    BY TypeShape, TypeGraphAssumption
  <2>2. \A p \in D : Len(p[1]) + Len(p[2]) \in 0 .. N
    BY <2>1, TypeGraphAssumption
  <2>3. N \in Nat
    BY TypeGraphAssumption
  <2> HIDE DEF N, D
  <2> QED BY <2>2, <2>3
<1>2. X # {}
  <2>1. No \in Verdict /\ ~No.ok
    BY DEF Verdict, No
  <2>2. [p \in D |-> No] \in X
    BY <2>1
  <2> QED BY <2>2
<1>3. ASSUME NEW f \in X
      PROVE  F[f] \in X /\ f = [p \in D |-> f[p]]
  <2>1. F[f] = [p \in D |-> Decided(f, p[1], p[2])]
    OBVIOUS
  <2>2. \A u \in TypeExpr, v \in TypeExpr :
          /\ Decided(f, u, v) \in Verdict
          /\ Decided(f, u, v).ok => Sound(u, v, Decided(f, u, v))
    BY DecidedSound
  <2>3. F[f] \in [D -> Verdict] /\ \A u \in TypeExpr, v \in TypeExpr : F[f][<<u, v>>] = Decided(f, u, v)
    BY <2>1, <2>2
  <2> QED BY <2>2, <2>3
<1>4. F[check] = [p \in D |-> F[check][p]]
  OBVIOUS
<1>5. ASSUME NEW f \in X, NEW g \in X \cup {check}, NEW p \in D,
             \A q \in D : size[q] < size[p] => f[q] = g[q]
      PROVE  F[f][p] = F[g][p]
  <2>1. PICK a \in TypeExpr, b \in TypeExpr : p = <<a, b>>
    OBVIOUS
  <2>2. F[f][p] = Decided(f, a, b) /\ F[g][p] = Decided(g, a, b)
    BY <2>1
  <2>3. ASSUME NEW u \in TypeExpr, NEW v \in TypeExpr, Len(u) + Len(v) < Len(a) + Len(b)
        PROVE  f[<<u, v>>] = g[<<u, v>>]
    <3>1. size[<<u, v>>] = Len(u) + Len(v) /\ size[p] = Len(a) + Len(b)
      BY <2>1
    <3> HIDE DEF size
    <3> QED BY <1>5, <2>3, <3>1
  <2>4. \A t \in TypeExpr : Outer(t) # "named" => Tail(t) \in TypeExpr /\ Len(Tail(t)) = Len(t) - 1
    BY TypeShape
  <2>5. \A t \in TypeExpr : Len(t) \in Nat
    BY TypeShape
  <2>6. /\ Outer(b) # "named" => f[<<a, Tail(b)>>] = g[<<a, Tail(b)>>]
        /\ Outer(a) # "named" => f[<<Tail(a), b>>] = g[<<Tail(a), b>>]
        /\ Outer(a) # "named" /\ Outer(b) # "named" => f[<<Tail(a), Tail(b)>>] = g[<<Tail(a), Tail(b)>>]
    <3>1. Len(a) \in Nat /\ Len(b) \in Nat
      BY <2>5
    <3>2. \A m \in Nat, n \in Nat : \A j, k : j = m - 1 /\ k = n - 1 =>
            m + k < m + n /\ j + n < m + n /\ j + k < m + n
      OBVIOUS
    <3>3. ASSUME Outer(b) # "named" PROVE f[<<a, Tail(b)>>] = g[<<a, Tail(b)>>]
      <4>1. Tail(b) \in TypeExpr /\ Len(Tail(b)) = Len(b) - 1
        BY <2>4, <3>3
      <4>2. Len(a) + Len(Tail(b)) < Len(a) + Len(b)
        BY <3>1, <3>2, <4>1, Zenon
      <4> QED BY <2>3, <4>1, <4>2
    <3>4. ASSUME Outer(a) # "named" PROVE f[<<Tail(a), b>>] = g[<<Tail(a), b>>]
      <4>1. Tail(a) \in TypeExpr /\ Len(Tail(a)) = Len(a) - 1
        BY <2>4, <3>4
      <4>2. Len(Tail(a)) + Len(b) < Len(a) + Len(b)
        BY <3>1, <3>2, <4>1, Zenon
      <4> QED BY <2>3, <4>1, <4>2
    <3>5. ASSUME Outer(a) # "named", Outer(b) # "named"
          PROVE  f[<<Tail(a), Tail(b)>>] = g[<<Tail(a), Tail(b)>>]
      <4>1. /\ Tail(a) \in TypeExpr /\ Len(Tail(a)) = Len(a) - 1
            /\ Tail(b) \in TypeExpr /\ Len(Tail(b)) = Len(b) - 1
        BY <2>4, <3>5
      <4>2. Len(Tail(a)) + Len(Tail(b)) < Len(a) + Len(b)
        BY <3>1, <3>2, <4>1, Zenon
      <4> QED BY <2>3, <4>1, <4>2
    <3> QED BY <3>3, <3>4, <3>5
  <2>7. Decided(f, a, b) = Decided(g, a, b)
    BY <2>6 DEF Decided
  <2> QED BY <2>2, <2>7
<1>6. (\E f \in X : f = F[f]) => check = F[check]
  <2> DEFINE G(f) == [p \in D |-> Decided(f, p[1], p[2])]
  <2>1. check = CHOOSE f : f = G(f)
    BY DEF check
  <2>2. \A f \in X \cup {check} : F[f] = G(f)
    OBVIOUS
  <2> HIDE DEF F, G, X
  <2> QED BY <2>1, <2>2
<1>7. check \in X
  <2>1. Computes(D, N, size, X, check, F)
    <3> HIDE DEF D, F, N, X, size
    <3> QED BY <1>1, <1>2, <1>3, <1>4, <1>5, <1>6 DEF Computes
  <2> HIDE DEF D, F, N, X, size
  <2> QED BY <2>1, Recursion
<1> QED BY <1>7

---------------------------------------------------------------------------
(***************************************************************************)
(* The theorems.                                                           *)
(***************************************************************************)
\* What was decided and what was delivered are what the two functions say.
Connection ==
  /\ from \in TypeExpr /\ to \in TypeExpr /\ value \in Fitting[from]
  /\ verdict = Undecided \/ verdict = check[<<from, to>>]
  /\ result # Undecided => verdict.ok /\ result \in apply_ops[verdict.ops][value]

LEMMA ConnectionHolds == Spec => []Connection
<1>1. Init => Connection
  BY ValuesFit DEF Init, Connection
<1>2. Connection /\ [Next]_vars => Connection'
  <2> SUFFICES ASSUME Connection, [Next]_vars PROVE Connection'
    OBVIOUS
  <2>1. CASE Draw
    <3>1. ~verdict.ok
      BY <2>1 DEF Draw, Undecided
    <3>2. result = Undecided /\ result' = Undecided
      BY <2>1, <3>1 DEF Draw, Connection
    <3> QED BY <2>1, <3>2 DEF Draw, Connection
  <2>2. CASE Convert
    BY <2>2 DEF Convert, Connection
  <2>3. CASE UNCHANGED vars
    BY <2>3 DEF vars, Connection
  <2> QED BY <2>1, <2>2, <2>3 DEF Next
<1> QED BY <1>1, <1>2, PTL DEF Spec

\* What a legal connection delivers is of the input's type, or failed, or came
\* out of JSON, for types of any depth and lists of any length.
THEOREM WhatIsDeliveredFits == Spec => []DeliveredFits
<1>1. Connection => DeliveredFits
  <2> SUFFICES ASSUME Connection, verdict.ok, result # Undecided, result # Failed, ~Uses("decode-json")
               PROVE  result \in Fitting[to]
    BY DEF DeliveredFits
  <2>1. verdict = check[<<from, to>>] /\ from \in TypeExpr /\ to \in TypeExpr
    BY DEF Connection, Undecided
  <2>2. Sound(from, to, verdict)
    BY <2>1, CheckSound
  <2>3. ~UsedIn("decode-json", verdict.ops)
    BY DEF Uses, UsedIn
  <2>4. apply_ops[verdict.ops][value] \subseteq Fitting[to] \cup {Failed}
    BY <2>2, <2>3 DEF Sound, Connection
  <2> QED BY <2>4 DEF Connection
<1> QED BY <1>1, ConnectionHolds, PTL

\* No legal connection fails for every full value, but for the conversions
\* that wait for a component.
THEOREM LegalConnectionsCanSucceed == Spec => []LegalCanSucceed
<1>1. Connection => LegalCanSucceed
  <2> SUFFICES ASSUME Connection, verdict.ok, \A op \in PENDING_OPS : ~Uses(op)
               PROVE  apply_ops[verdict.ops][Full[from]] # {Failed}
    BY DEF LegalCanSucceed
  <2>1. verdict = check[<<from, to>>] /\ from \in TypeExpr /\ to \in TypeExpr
    BY DEF Connection, Undecided
  <2>2. Sound(from, to, verdict)
    BY <2>1, CheckSound
  <2>3. \A op \in PENDING_OPS : ~UsedIn(op, verdict.ops)
    BY DEF Uses, UsedIn
  <2> QED BY <2>2, <2>3 DEF Sound
<1> QED BY <1>1, ConnectionHolds, PTL
=============================================================================
