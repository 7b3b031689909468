------------------------------ MODULE TypeGraph ------------------------------
(***************************************************************************)
(* Which connections are legal (type-graph.ts, decided from the table in   *)
(* type-graph.json), and what the conversions they name make of a value    *)
(* (convert.rs).                                                           *)
(*                                                                         *)
(* A type expression is a sequence: generics, outermost first, and a name  *)
(* at the end. A value is known by its kind alone; a list has its items.   *)
(* What a parser makes of a text, or a probe of a file whose content       *)
(* nobody knows, is any of the outcomes it can have.                       *)
(***************************************************************************)
EXTENDS Naturals, Sequences

CONSTANTS
  MaxDepth, \* bound: generics a name is wrapped in
  MaxItems  \* bound: items in a list

ASSUME TypeGraphAssumption == MaxDepth \in Nat /\ MaxItems \in Nat

VARIABLES
  from,    \* the type of the output a connection leaves from
  to,      \* the type of the input it arrives at
  value,   \* what the output holds
  verdict, \* what was decided when the connection was drawn, or Undecided
  result   \* what the input was given, or Undecided

vars == <<from, to, value, verdict, result>>

---------------------------------------------------------------------------
\* type-graph.json.

Scalars == {"bool", "i64", "f64", "string", "json"}
Media   == {"image", "video", "audio"}
Handles == {"file", "dir", "bytes"} \cup Media
Names   == Scalars \cup Handles

Generic == {"list", "option"}
TypeExpr == {Append(g, n) : g \in UNION {[1 .. d -> Generic] : d \in 0 .. MaxDepth}, n \in Names}

Coercion(f, t, kind, op) == [from |-> f, to |-> t, kind |-> kind, op |-> op]
Coercions ==
  {Coercion("i64", "f64", 1, "int-to-float"), Coercion("bool", "i64", 1, "bool-to-int"),
   Coercion("i64", "bool", 2, "int-to-bool"), Coercion("f64", "i64", 2, "round"),
   Coercion("string", "i64", 2, "parse-int"), Coercion("string", "f64", 2, "parse-float"),
   Coercion("string", "bool", 2, "parse-bool"), Coercion("string", "json", 2, "parse-json"),
   Coercion("json", "string", 2, "stringify-json"), Coercion("file", "bytes", 2, "read-bytes"),
   Coercion("bytes", "file", 2, "write-temp"), Coercion("file", "image", 2, "decode-image"),
   Coercion("file", "video", 2, "probe-video"), Coercion("file", "audio", 2, "probe-audio")}
  \cup {Coercion(f, "string", 1, "to-text") : f \in {"i64", "f64", "bool"}}
  \cup {Coercion(f, "json", 2, "encode-json") : f \in {"i64", "f64", "bool"}}
  \cup {Coercion("json", t, 2, "decode-json") : t \in {"i64", "f64", "bool"}}

ancestorsOf(n) == IF n \in Media THEN {n, "file"} ELSE {n}

---------------------------------------------------------------------------
\* The decision. A kind is its STRENGTH: 0 direct, 1 implicit, 2 explicit.

Yes(kind, ops) == [ok |-> TRUE, kind |-> kind, ops |-> ops]
No == [ok |-> FALSE]
Undecided == [ok |-> FALSE, k |-> "undecided"]

NarrowsNothing(n, ancestor, target) == FALSE \* mutant: widening may be followed by narrowing
\* To widen and then to narrow again lands on a sibling.
Narrows(n, ancestor, target) == ancestor # n /\ target # ancestor /\ ancestor \in ancestorsOf(target)

Ways(n, target) ==
  {Yes(0, <<>>) : a \in ancestorsOf(n) \cap {target}}
  \cup {Yes(x.kind, <<x.op>>) :
          x \in {y \in Coercions : /\ y.from \in ancestorsOf(n) /\ y.to = target
                                   /\ ~Narrows(n, y.from, target)}}
resolveNamed(n, target) ==
  IF Ways(n, target) = {} THEN No
  ELSE CHOOSE w \in Ways(n, target) : \A v \in Ways(n, target) : w.kind <= v.kind

Outer(t) == IF Len(t) = 1 THEN "named" ELSE Head(t)

UnwrappedFreely(inner) == inner \* mutant: the absent case is not handled
Unwrapped(inner) == IF inner.ok THEN Yes(2, <<"unwrap-option">> \o inner.ops) ELSE No
Mapped(inner) == IF inner.ok /\ inner.kind # 0 THEN Yes(inner.kind, <<"map">> \o inner.ops) ELSE inner

\* The decision on two types, when f has decided on the types within.
Decided(f, a, b) ==
  IF a = b THEN Yes(0, <<>>)
  ELSE CASE Outer(a) # "option" /\ Outer(b) = "option" -> f[<<a, Tail(b)>>]
         [] Outer(a) = "option" /\ Outer(b) # "option" -> Unwrapped(f[<<Tail(a), b>>])
         [] Outer(a) = "option" /\ Outer(b) = "option" -> f[<<Tail(a), Tail(b)>>]
         [] Outer(a) = "list" /\ Outer(b) = "list"     -> Mapped(f[<<Tail(a), Tail(b)>>])
         [] Outer(a) = "named" /\ Outer(b) = "named"   -> resolveNamed(a[1], b[1])
         [] OTHER -> No
check[p \in TypeExpr \X TypeExpr] == Decided(check, p[1], p[2])

---------------------------------------------------------------------------
\* The conversion.

Of(kind)    == [k |-> kind]
Absent      == Of("absent")
Failed      == Of("failed")
List(items) == [k |-> "list", items |-> items]

\* What can be converted: lists within lists as deep as a type goes.
Simple   == {Of(n) : n \in Names} \cup {Absent, Failed}
Lists(S) == [k : {"list"}, items : Seq(S)]
Nested[d \in 0 .. MaxDepth] ==
  IF d = 0 THEN Simple ELSE Nested[d - 1] \cup Lists(Nested[d - 1])
Value == Nested[MaxDepth]
Op  == {x.op : x \in Coercions} \cup {"unwrap-option", "map"}
Ops == UNION {[1 .. n -> Op] : n \in 0 .. MaxDepth + 1}

PENDING_OPS == {"probe-video", "probe-audio"}

Makes(kinds, results, v) == IF v.k \in kinds THEN {Of(r) : r \in results} ELSE {Failed}
converted(v, op) ==
  CASE op = "unwrap-option"  -> {IF v = Absent THEN Failed ELSE v}
    [] op = "to-text"        -> Makes({"i64", "f64", "bool", "string"}, {"string"}, v)
    [] op = "int-to-float"   -> Makes({"i64"}, {"f64", "failed"}, v)
    [] op = "bool-to-int"    -> Makes({"bool"}, {"i64"}, v)
    [] op = "int-to-bool"    -> Makes({"i64"}, {"bool"}, v)
    [] op = "round"          -> Makes({"f64"}, {"i64", "failed"}, v)
    [] op = "parse-int"      -> Makes({"string"}, {"i64", "failed"}, v)
    [] op = "parse-float"    -> Makes({"string"}, {"f64", "failed"}, v)
    [] op = "parse-bool"     -> Makes({"string"}, {"bool", "failed"}, v)
    [] op = "parse-json"     -> Makes({"string"}, {"json", "failed"}, v)
    [] op = "stringify-json" -> Makes({"json"}, {"string"}, v)
    [] op = "encode-json"    -> Makes({"i64", "f64", "bool", "string"}, {"json"}, v)
    [] op = "decode-json"    -> Makes({"json"}, {"bool", "string", "i64", "f64", "failed"}, v)
    [] op = "read-bytes"     -> Makes(Handles, {"bytes", "failed"}, v)
    [] op = "write-temp"     -> Makes(Handles, {"file"}, v)
    [] op = "decode-image"   -> Makes(Handles \ (Media \ {"image"}), {"image", "failed"}, v)
    [] OTHER                 -> {Failed}

\* Absence survives every conversion but the one that removes it.
apply_one(v, op) == IF v = Absent /\ op # "unwrap-option" THEN {Absent} ELSE converted(v, op)

EachOf(R) == {s \in [DOMAIN R -> UNION {R[i] : i \in DOMAIN R}] : \A i \in DOMAIN R : s[i] \in R[i]}

\* What one operation makes of v, when rest says what the others make of a value.
Applied(op, rest, v) ==
  IF v = Failed THEN {v}
  ELSE IF op # "map" THEN UNION {rest[w] : w \in apply_one(v, op)}
  ELSE IF v.k # "list" THEN {Failed}
  ELSE {IF \E i \in DOMAIN s : s[i] = Failed THEN Failed ELSE List(s) :
          s \in EachOf([i \in DOMAIN v.items |-> rest[v.items[i]]])}
apply_ops[ops \in Ops] ==
  [v \in Value |-> IF ops = <<>> THEN {v} ELSE Applied(Head(ops), apply_ops[Tail(ops)], v)]

---------------------------------------------------------------------------
\* Values of a type, as an output may hold them.
Values[t \in TypeExpr] ==
  IF Outer(t) = "named" THEN {Of(t[1])}
  ELSE IF Outer(t) = "option" THEN Values[Tail(t)] \cup {Absent}
  ELSE {List(s) : s \in UNION {[1 .. n -> Values[Tail(t)]] : n \in 0 .. MaxItems}}

\* A full one, in which nothing is missing.
Full[t \in TypeExpr] ==
  IF Outer(t) = "named" THEN Of(t[1])
  ELSE IF Outer(t) = "option" THEN Full[Tail(t)]
  ELSE List(<<Full[Tail(t)]>>)

\* All that fits a type: a kind of file is a file, and a list is of any length.
Fitting[t \in TypeExpr] ==
  IF Outer(t) = "named" THEN {Of(n) : n \in {n \in Names : t[1] \in ancestorsOf(n)}}
  ELSE IF Outer(t) = "option" THEN Fitting[Tail(t)] \cup {Absent}
  ELSE Lists(Fitting[Tail(t)])

Init ==
  /\ from \in TypeExpr /\ to \in TypeExpr
  /\ value \in Values[from]
  /\ verdict = Undecided /\ result = Undecided

\* Editor and validation ask the same question of the table.
Draw ==
  /\ verdict = Undecided
  /\ verdict' = check[<<from, to>>]
  /\ UNCHANGED <<from, to, value, result>>

\* The executor hands over what the verdict's operations make of the value.
Convert ==
  /\ verdict.ok /\ result = Undecided
  /\ \E r \in apply_ops[verdict.ops][value] : result' = r
  /\ UNCHANGED <<from, to, value, verdict>>

Next == Draw \/ Convert

Spec == Init /\ [][Next]_vars

---------------------------------------------------------------------------
Uses(op) == \E i \in DOMAIN verdict.ops : verdict.ops[i] = op

\* What an input is given is of its type, however deep the option or the list
\* a conversion has to reach into; only what JSON held is not looked at again
\* (check, apply_ops; convert.rs "decode-json").
DeliveredFits ==
  verdict.ok /\ result # Undecided /\ result # Failed => result \in Fitting[to] \/ Uses("decode-json")

\* A legal connection can carry something: no verdict admits one that fails for
\* every full value (resolveNamed, "statically-knowable impossibility"), but
\* for the conversions that wait for a component.
LegalCanSucceed ==
  verdict.ok =>
    \/ \E op \in PENDING_OPS : Uses(op)
    \/ apply_ops[verdict.ops][Full[from]] # {Failed}
=============================================================================
