-------------------------------- MODULE Lower --------------------------------
(***************************************************************************)
(* Lowering (lower.rs): the walk that turns the resolved surface tree of a *)
(* command into the intermediate language.  What the checker recorded for  *)
(* a name or a spine is in the node (c), and the walk replays it.          *)
(*                                                                         *)
(*   formula  block(fs) cmp(op,neg,l,r) not(e) test(test,e) bin(op,l,r)    *)
(*            temporal(e)                                                  *)
(*   relation this const(c) str(s) rbin(op,l,r) restrict(dom,l,r)          *)
(*            arrow(l,lm,rm,r) un(op,e) marker(op,e) seqof(e)              *)
(*            comp(decls,body)                                             *)
(*   integer  num(n) card(e) intof(e) iop(op,l,r)                          *)
(*   any      name(name,c) box(target,args,c) join(l,r,c) ite(c,t,e)       *)
(*            let(bs,body) quant(q,decls,body)                             *)
(*            meta(fold,var,bound,bindings)                                *)
(*   choice c var sig(s) field(f,this) call(f,args,this) empty(n) spine    *)
(*            macro(params,args,callables,body) builtin(op)                *)
(*                                                                         *)
(* The context x holds the binders in scope (env, innermost last), the     *)
(* functions being inlined (stack), the polarity (pos) and whether it may  *)
(* still skolemize (blocked), the declared bound of each variable (vb) and *)
(* the place in the tree (at), by which two copies of a variable differ.   *)
(* A command fails if an error is left anywhere in its goal.               *)
(***************************************************************************)
EXTENDS Ir

CONSTANTS TopLevelSigs,   \* the signatures under univ, in declaration order
          SigDenote,      \* signature -> its relational expression
          FieldDenote,    \* field -> its relation
          FieldArity,     \* field -> the arity of its type
          Funcs,          \* function -> [pred, params, body, int, decls]
          StringDenote,   \* string literal -> its relation
          IntNext,        \* the successor relation of the integers
          IntZero,        \* the relation that holds the integer 0
          SeqInt          \* the indices of a sequence

(*---------------------------------- nodes ----------------------------------*)
Error(why)       == [k |-> "error", why |-> why]
Join(l, r)       == [k |-> "bin", op |-> "join", l |-> l, r |-> r]
Product(l, r)    == [k |-> "bin", op |-> "product", l |-> l, r |-> r]
UnionOf(l, r)    == [k |-> "bin", op |-> "union", l |-> l, r |-> r]
Both(l, r)       == [k |-> "bin", op |-> "intersect", l |-> l, r |-> r]
Cast(i)          == [k |-> "cast", i |-> i]
Var(v)           == [k |-> "var", v |-> v]
TestOf(test, e)  == [k |-> "mult", test |-> test, e |-> e]
InSet(l, r)      == [k |-> "rcmp", op |-> "in", l |-> l, r |-> r]
Same(l, r)       == [k |-> "rcmp", op |-> "eq", l |-> l, r |-> r]
Not(f)           == [k |-> "not", f |-> f]
And(fs)          == [k |-> "and", fs |-> fs]
Implied(a, b)    == [k |-> "imp", a |-> a, b |-> b]
Truth(b)         == [k |-> "bool", b |-> b]
Univ             == [k |-> "univ"]
None             == [k |-> "none"]
Quantified(kind, vars, body) ==      \* one node per variable, the first outermost
  FoldRight(LAMBDA v, acc : [k |-> kind, v |-> v.v, b |-> v.b, body |-> acc], vars, body)
Conjoin(fs) == IF Len(fs) = 1 THEN fs[1] ELSE IF fs = <<>> THEN Truth(TRUE) ELSE And(fs)
RECURSIVE Failed(_)
Failed(n)   == n.k = "error" \/ \E i \in DOMAIN Parts(n) : Failed(Parts(n)[i])

RECURSIVE Arity(_)
Arity(n) ==
  CASE n.k = "rel" -> n.r.n
    [] n.k = "var" -> n.v.n
    [] n.k = "bin" -> CASE n.op = "join"    -> Arity(n.l) + Arity(n.r) - 2
                        [] n.op = "product" -> Arity(n.l) + Arity(n.r)
                        [] OTHER            -> Arity(n.l)
    [] n.k \in {"un", "iden"} -> 2
    [] n.k = "rite" -> Arity(n.t)
    [] n.k = "comp" -> FoldLeft(LAMBDA acc, d : acc + d.v.n, 0, n.decls)
    [] OTHER        -> 1
NoneOfArity(n) == FoldLeft(LAMBDA acc, i : Product(acc, None), None, [i \in 1..(n - 1) |-> i])
Columns(n)     == FoldLeft(LAMBDA acc, i : Product(acc, Univ), Univ, [i \in 1..(n - 1) |-> i])
FirstColumn(e, n) == FoldLeft(LAMBDA acc, i : Join(acc, Univ), e, [i \in 1..(n - 1) |-> i])

(*--------------------------------- the context ---------------------------------*)
Down(x, i)        == [x EXCEPT !.at = Append(@, i)]
NotBlocked(x) == x

Blocked(x)        == [x EXCEPT !.blocked = TRUE]
NeverBlocked(x, c) == x

BlockedIf(x, c)   == [x EXCEPT !.blocked = @ \/ c]
Flipped(x)        == [x EXCEPT !.pos = ~@]
Push(x, name, b)  == [x EXCEPT !.env = Append(@, [name |-> name, b |-> b])]
FreshVar(x, name, n) == [at |-> x.at, name |-> name, n |-> n]
BoundVar(v)       == [b |-> "var", v |-> v]
Coerced(e)        == [b |-> "expr", v |-> e, raw |-> "rel"]
Substituted(e, raw) == [b |-> "expr", v |-> e, raw |-> raw]

Binders(x, name) == {i \in DOMAIN x.env : x.env[i].name = name}
Binder(x, name)  == x.env[Max(Binders(x, name))].b
IsBound(x, name) == Binders(x, name) # {}

(* The relation a name is bound to. *)
LookupBinder(x, name) ==
  IF ~IsBound(x, name) THEN Error("unbound variable")
  ELSE LET b == Binder(x, name)
       IN  CASE b.b = "var"  -> Var(b.v)
             [] b.b = "expr" -> b.v
             [] OTHER        -> Error("no relational value")

(* The innermost callable of that name, whatever is bound nearer. *)
LookupCallable(x, name) ==
  LET is == {i \in Binders(x, name) : x.env[i].b.b = "callable"}
  IN  IF is = {} THEN <<>> ELSE <<x.env[Max(is)].b.f>>
CallableHead(n, x) ==
  CASE n.k = "name" -> LookupCallable(x, n.name)
    [] n.k = "box" /\ n.target.k = "name" -> LookupCallable(x, n.target.name)
    [] OTHER -> <<>>
ArgsOf(n) == IF n.k = "box" THEN n.args ELSE <<>>

(*---------------------------------- the universe ----------------------------------*)
UnionRel(parts) == FoldLeft(UnionOf, Head(parts), Tail(parts))
LiveUniv == UnionRel([i \in 1..Len(TopLevelSigs) |-> SigDenote[TopLevelSigs[i]]])
LiveIden == Both([k |-> "iden"], Product(LiveUniv, LiveUniv))

(*---------------------------------- sorts ----------------------------------*)
(* "0 - (max + 1)", and no other difference, is the least integer. *)
MinusFoldsToMin(n) ==
  /\ n.op = "diff" /\ n.l.k = "num" /\ n.r.k = "num"
  /\ n.l.n = 0 /\ n.r.n = IntMax(Bitwidth) + 1

FuncSort(f) == IF Funcs[f].pred THEN "formula" ELSE IF Funcs[f].int THEN "int" ELSE "rel"

RECURSIVE SortOf(_, _), VisitSort(_, _, _)

ChoiceSort(c, x) ==
  CASE c.c = "call"    -> FuncSort(c.f)
    [] c.c = "macro"   -> SortOf(c.body, x)
    [] c.c = "builtin" -> CASE c.op = "IntCast" -> "int"
                            [] c.op \in {"Disj", "TotalOrder"} -> "formula"
                            [] OTHER -> "rel"
    [] OTHER -> "rel"

(* The sort by which a position coerces an expression inside another. *)
SortOf(n, x) ==
  CASE n.k \in {"num", "card", "intof", "iop"} -> "int"
    [] n.k \in {"cmp", "not", "test", "bin", "temporal"} -> "formula"
    [] n.k \in {"un", "marker", "seqof"}  -> SortOf(n.e, x)
    [] n.k = "rbin"  -> IF MinusFoldsToMin(n) THEN "int" ELSE "rel"
    [] n.k \in {"name", "box", "join"} -> ChoiceSort(n.c, x)
    [] n.k = "ite"   -> VisitSort(n.t, x, <<>>)
    [] n.k = "quant" -> IF n.q = "sum" THEN "int" ELSE "formula"
    [] n.k = "meta"  -> IF n.fold = "comp" THEN "rel" ELSE "formula"
    [] n.k = "let"   -> SortOf(n.body, x)
    [] n.k = "block" -> IF Len(n.fs) = 1 THEN SortOf(n.fs[1], x) ELSE "formula"
    [] OTHER -> "rel"

BinderSort(x, name) ==
  IF ~IsBound(x, name) THEN "rel"
  ELSE LET b == Binder(x, name)
       IN  CASE b.b = "expr" -> b.raw [] b.b = "formula" -> "formula" [] OTHER -> "rel"

VisitNameSort(name, x, lets) ==
  LET is == {i \in DOMAIN lets : lets[i].name = name}
      i  == Max(is)
  IN  IF is = {} THEN BinderSort(x, name)
      ELSE VisitSort(lets[i].value, x, SubSeq(lets, 1, i - 1))

(* The sort an expression has once it is translated, by which an            *)
(* if-then-else coerces its else branch; lets are the bindings passed.      *)
VisitSort(n, x, lets) ==
  CASE n.k \in {"num", "intof"} -> "rel"
    [] n.k \in {"un", "marker", "seqof"} -> VisitSort(n.e, x, lets)
    [] n.k \in {"name", "box", "join"} ->
         CASE n.c.c = "macro" -> VisitSort(n.c.body, x, <<>>)
           [] n.c.c = "var"   -> VisitNameSort(n.name, x, lets)
           [] n.c.c = "builtin" -> CASE n.c.op = "IntCast" -> "rel"
                                     [] n.c.op = "IntAtom" -> VisitSort(n.args[1], x, lets)
                                     [] OTHER -> ChoiceSort(n.c, x)
           [] OTHER -> ChoiceSort(n.c, x)
    [] n.k = "ite"   -> VisitSort(n.t, x, lets)
    [] n.k = "let"   -> VisitSort(n.body, x, lets \o n.bs)
    [] n.k = "block" /\ Len(n.fs) = 1 -> VisitSort(n.fs[1], x, lets)
    [] OTHER -> SortOf(n, x)

(*----------------------------- upper bounds -----------------------------*)
TupleJoin(a, b) ==
  {SubSeq(p[1], 1, Len(p[1]) - 1) \o SubSeq(p[2], 2, Len(p[2])) :
     p \in {q \in a \X b : q[1][Len(q[1])] = q[2][1]}}
TupleProduct(a, b) == {p[1] \o p[2] : p \in a \X b}
TupleTranspose(a)  == {<<t[2], t[1]>> : t \in a}
RECURSIVE TupleClosure(_, _)
TupleClosure(out, a) ==
  LET step == TupleJoin(out, a) IN IF step \subseteq out THEN out ELSE TupleClosure(out \cup step, a)
AllIdentical == {<<a, a>> : a \in Atoms}

(* <<the tuples an expression can have at most>>, or <<>> if that is not    *)
(* known without a state: then nothing is skolemized.                       *)
RECURSIVE AbstractUpper(_, _)
AbstractUpper(n, vb) ==
  CASE n.k = "rel"  -> <<UpperOf(n.r)>>
    [] n.k = "none" -> <<{}>>
    [] n.k = "univ" -> <<{<<a>> : a \in Atoms}>>
    [] n.k = "iden" -> <<AllIdentical>>
    [] n.k = "var"  -> IF n.v \in DOMAIN vb THEN AbstractUpper(vb[n.v], vb) ELSE <<>>
    [] n.k = "bin"  ->
         LET a == AbstractUpper(n.l, vb)
             b == AbstractUpper(n.r, vb)
         IN  CASE a = <<>> \/ n.op = "diff" -> a
               [] n.op = "intersect" -> IF b = <<>> THEN a ELSE <<a[1] \cap b[1]>>
               [] b = <<>>           -> b
               [] n.op = "product"   -> <<TupleProduct(a[1], b[1])>>
               [] n.op = "join"      -> <<TupleJoin(a[1], b[1])>>
               [] OTHER              -> <<a[1] \cup b[1]>>        \* union, override
    [] n.k = "un"   ->
         LET a == AbstractUpper(n.e, vb)
         IN  (CASE a = <<>>           -> a
                [] n.op = "transpose" -> <<TupleTranspose(a[1])>>
                [] n.op = "closure"   -> <<TupleClosure(a[1], a[1])>>
                [] n.op = "rclosure"  -> <<TupleClosure(a[1], a[1]) \cup AllIdentical>>)
    [] OTHER -> <<>>

(*------------------------------ the walk: calls ------------------------------*)
RECURSIVE LowerFormula(_, _), LowerRel(_, _), VisitInt(_, _), ArrowConstraints(_, _, _)

LowerAll(ns, x) == [i \in 1..Len(ns) |-> LowerRel(ns[i], Down(x, i))]

(* The context of the body of f: its parameters hold the arguments, lowered *)
(* by the caller, and the caller's this if the receiver is not among them.  *)
Inlined(f, args, implicit, x) ==
  LET params == Funcs[f].params
      this   == IF implicit /\ params # <<>> /\ params[1] = "this"
                THEN <<LookupBinder(x, "this")>> ELSE <<>>
      values == this \o LowerAll(args, x)
      bound  == 1..Min({Len(params), Len(values)})
  IN  [ok |-> /\ f \notin Range(x.stack)
              /\ Len(values) >= Len(params)
              /\ \A i \in DOMAIN values : ~Failed(values[i]),
       x  |-> [Down(x, 0) EXCEPT
                 !.stack = Append(@, f),
                 !.env = @ \o [i \in bound |-> [name |-> params[i], b |-> Coerced(values[i])]]]]

(* The context of a macro's body: an argument keeps the sort it had, and a  *)
(* parameter that is applied holds the function the checker recorded.       *)
Expanded(c, x) ==
  LET binding(i) == IF i \in DOMAIN c.callables THEN [b |-> "callable", f |-> c.callables[i]]
                    ELSE Substituted(LowerRel(c.args[i], Down(x, i)),
                                     VisitSort(c.args[i], x, <<>>))
      bound == [i \in 1..Len(c.params) |-> [name |-> c.params[i], b |-> binding(i)]]
  IN  [ok |-> /\ Len(c.args) = Len(c.params)
              /\ \A i \in DOMAIN bound : bound[i].b.b = "callable" \/ ~Failed(bound[i].b.v),
       x  |-> [Down(x, 0) EXCEPT !.env = @ \o bound]]

(* Each value is lowered under the bindings before it; a formula is kept    *)
(* unlowered, with the depth of the binders it may see.                     *)
BindLet(y, b) ==
  LET isFormula == \/ SortOf(b.value, y) = "formula"
                   \/ /\ b.value.k = "name" /\ b.value.c.c = "var"
                      /\ BinderSort(y, b.value.name) = "formula" /\ IsBound(y, b.value.name)
  IN  Push(Down(y, 1), b.name,
           IF isFormula THEN [b |-> "formula", e |-> b.value, depth |-> Len(y.env)]
           ELSE Substituted(LowerRel(b.value, y), VisitSort(b.value, y, <<>>)))
LetContext(n, x) ==
  LET y == FoldLeft(BindLet, x, n.bs)
      bound == {y.env[i].b : i \in (Len(x.env) + 1)..Len(y.env)}
  IN  [ok |-> \A b \in bound : b.b = "expr" => ~Failed(b.v), x |-> y]

(* The body of a let, a function or a macro, lowered by the walk that met it. *)
InLet(n, x, Walk(_, _)) ==
  LET y == LetContext(n, x) IN IF y.ok THEN Walk(n.body, y.x) ELSE Error("let")
InCall(f, args, implicit, x, Walk(_, _)) ==
  LET y == Inlined(f, args, implicit, x) IN IF y.ok THEN Walk(Funcs[f].body, y.x) ELSE Error("call")
InMacro(c, x, Walk(_, _)) ==
  LET y == Expanded(c, x) IN IF y.ok THEN Walk(c.body, y.x) ELSE Error("macro")


(* A formula that is bound by let is lowered at each use, with the polarity *)
(* of the use and the binders of the let.                                   *)
FormulaBound(name, x) ==
  IF ~IsBound(x, name) THEN Error("unbound variable")
  ELSE LET b == Binder(x, name)
       IN  IF b.b # "formula" THEN Error("not a formula")
           ELSE LowerFormula(b.e, [x EXCEPT !.env = SubSeq(@, 1, b.depth)])

Staged(rels) ==      \* no (a & b), no ((a + b) & c), ...
  [i \in 1..(Len(rels) - 1) |-> TestOf("no", Both(UnionRel(SubSeq(rels, 1, i)), rels[i + 1]))]

TotalOrderFormula(elem, first, next, x) ==
  LET e == FreshVar(Down(x, 1), "totalOrder_e", 1)
      p == FreshVar(Down(x, 2), "totalOrder_p", 1)
      each(v, rel) == Quantified("all", <<[v |-> v, b |-> elem]>>, TestOf("lone", rel))
  IN  And(<<TestOf("one", first), TestOf("no", Join(next, first)),
            each(e, Join(Var(e), next)), each(p, Join(next, Var(p))),
            InSet(elem, Join(first, [k |-> "un", op |-> "rclosure", e |-> next]))>>)

LowerBuiltinFormula(n, x) ==
  LET rels == LowerAll(n.args, x)
  IN  CASE n.c.op = "Disj" -> Conjoin(Staged(rels))
        [] n.c.op = "TotalOrder" /\ Len(rels) = 3 -> TotalOrderFormula(rels[1], rels[2], rels[3], x)
        [] OTHER -> Error("cast in a formula position")

LowerCallFormula(n, x) ==
  LET callable == CallableHead(n, x)
  IN  IF n.c.c = "var" THEN FormulaBound(n.name, x)
      ELSE IF callable # <<>>
      THEN IF Funcs[callable[1]].pred THEN InCall(callable[1], ArgsOf(n), FALSE, x, LowerFormula)
           ELSE Error("function in a formula position")
      ELSE CASE n.c.c = "call"    -> InCall(n.c.f, n.c.args, n.c.this, x, LowerFormula)
             [] n.c.c = "macro"   -> InMacro(n.c, x, LowerFormula)
             [] n.c.c = "builtin" -> LowerBuiltinFormula(n, x)
             [] OTHER             -> Error("formula position")

(*----------------------------- declared bounds -----------------------------*)
Markers == {"set", "some", "lone", "one", "exactly"}
TestOfMarker(op, e) == IF op \in {"some", "lone", "one"} THEN <<TestOf(op, e)>> ELSE <<>>

RECURSIVE HigherOrderBound(_)
HigherOrderBound(n) ==      \* an arrow with a mark anywhere
  n.k = "arrow" /\ (\/ n.lm # "" \/ n.rm # "" \/ HigherOrderBound(n.l) \/ HigherOrderBound(n.r))
MarkedIsHigherOrder(n) == n.k = "marker" \/ HigherOrderBound(n)

HigherOrderDecl(n) == (n.k = "marker" /\ n.op # "one") \/ HigherOrderBound(n)

RECURSIVE LowerStripped(_, _)
LowerStripped(n, x) ==      \* an arrow without its marks
  IF n.k = "arrow" THEN Product(LowerStripped(n.l, Down(x, 1)), LowerStripped(n.r, Down(x, 2)))
  ELSE LowerRel(n, x)
LowerBoundSet(n, x) == LowerStripped(IF n.k = "marker" THEN n.e ELSE n, x)

RECURSIVE ArrowLeaves(_, _)
ArrowLeaves(n, x) ==        \* a fresh variable for each leaf, and their tuple
  IF n.k = "arrow"
  THEN LET l == ArrowLeaves(n.l, Down(x, 1))
           r == ArrowLeaves(n.r, Down(x, 2))
       IN  [vs |-> l.vs \o r.vs, tuple |-> Product(l.tuple, r.tuple)]
  ELSE LET v == Var(FreshVar(x, "_c", Arity(LowerRel(n, x)))) IN [vs |-> <<v>>, tuple |-> v]
JoinLeaves(value, vs, fromLeft) ==
  IF fromLeft THEN FoldLeft(LAMBDA acc, v : Join(v, acc), value, vs)
  ELSE FoldLeft(Join, value, Reverse(vs))

(* What the values left of one side's tuples must satisfy on the other side. *)
ArrowCheck(joined, other, mark, x) ==
  TestOfMarker(mark, joined)
    \o IF other.k = "arrow" THEN ArrowConstraints(joined, other, x) ELSE <<>>

ArrowColumn(value, iter, fromLeft, other, mark, x) ==
  LET leaves == ArrowLeaves(iter, Down(x, 1))
      check  == ArrowCheck(JoinLeaves(value, leaves.vs, fromLeft), other, mark, Down(x, 2))
      over(b, body) == <<Quantified("all", [i \in 1..Len(leaves.vs) |->
                                              [v |-> leaves.vs[i].v, b |-> b]], body)>>
  IN  IF check = <<>> THEN <<>>
      ELSE IF iter.k = "arrow"
      THEN over(Univ, Implied(Conjoin(ArrowConstraints(leaves.tuple, iter, Down(x, 3))),
                              Conjoin(check)))
      ELSE over(LowerRel(iter, Down(x, 1)), Conjoin(check))

(* value in l lm -> rm r, at any depth of nesting. *)
ArrowConstraints(value, n, x) ==
  <<InSet(value, Product(LowerStripped(n.l, Down(x, 1)), LowerStripped(n.r, Down(x, 2))))>>
    \o ArrowColumn(value, n.l, TRUE, n.r, n.rm, Down(x, 3))
    \o ArrowColumn(value, n.r, FALSE, n.l, n.lm, Down(x, 4))

(*------------------------------- declarations -------------------------------*)
PairwiseDisjoint(group) ==
  FlattenSeq([i \in 1..Len(group) |->
    [j \in 1..(Len(group) - i) |-> TestOf("no", Both(group[i], group[i + j]))]])

Skolem(x, name, n, upper) ==
  [k |-> "rel", r |-> [at |-> x.at, name |-> name, n |-> n, upper |-> upper]]

FirstOrderConstraints(e, bound) == <<InSet(e, bound), TestOf("one", e)>>

SkolemConstraints(e, bound, x) ==
  CASE bound.k = "marker" -> IF bound.op = "exactly" THEN <<Error("higher-order")>>
                             ELSE <<InSet(e, LowerRel(bound.e, x))>> \o TestOfMarker(bound.op, e)
    [] bound.k = "arrow"  -> ArrowConstraints(e, bound, x)
    [] OTHER              -> <<InSet(e, LowerRel(bound, x))>>

(* The declarations of a binder, in order: fo are the variables that stay   *)
(* quantified, disj their disjointness, sk what the skolems must satisfy.   *)
BindDecl(s, d, allowed) ==
  LET x      == s.x
      higher == HigherOrderDecl(d.bound)
      bound  == LowerBoundSet(d.bound, x)
      upper  == AbstractUpper(bound, x.vb)
      skolem == allowed /\ upper # <<>>
      n      == Arity(bound)
      place(i) == Down(Down(x, Len(s.fo) + Len(x.env)), i)
      names  == 1..Len(d.names)
      group  == [i \in names |-> IF skolem THEN Skolem(place(i), d.names[i], n, upper[1])
                                 ELSE Var(FreshVar(place(i), d.names[i], n))]
      given  == FlattenSeq([i \in names |->
                  IF higher THEN SkolemConstraints(group[i], d.bound, place(i))
                  ELSE FirstOrderConstraints(group[i], bound)])
      apart  == IF d.disj THEN PairwiseDisjoint(group) ELSE <<>>
      after(y) == [y EXCEPT !.env = @ \o [i \in names |->
                     [name |-> d.names[i],
                      b |-> IF skolem THEN Coerced(group[i]) ELSE BoundVar(group[i].v)]]]
  IN  IF d.bdisj \/ Failed(bound) \/ (higher /\ ~skolem) THEN [s EXCEPT !.ok = FALSE]
      ELSE IF skolem THEN [s EXCEPT !.x = after(x), !.sk = @ \o given \o apart]
      ELSE [s EXCEPT !.x  = [after(x) EXCEPT !.vb = [v \in {g.v : g \in Range(group)} |-> bound] @@ @],
                     !.fo = @ \o [i \in names |-> [v |-> group[i].v, b |-> bound]],
                     !.disj = @ \o apart]
BindDecls(decls, x, allowed) ==
  LET bind(s, d) == IF s.ok THEN BindDecl(s, d, allowed) ELSE s
  IN  FoldLeft(bind, [ok |-> TRUE, x |-> x, fo |-> <<>>, disj |-> <<>>, sk |-> <<>>], decls)

(*--------------------------------- quantifiers ---------------------------------*)
LowerComprehension(n, x) ==
  LET s    == BindDecls(n.decls, Blocked(x), FALSE)
      body == LowerFormula(n.body, Down(s.x, 0))
  IN  IF ~s.ok THEN Error("higher-order")
      ELSE [k |-> "comp", decls |-> s.fo,
            body |-> IF s.disj = <<>> THEN body ELSE And(<<Conjoin(s.disj), body>>)]

(* A quantifier that says there is something, where nothing above it forbids, *)
(* is replaced by constants; one that says it of everything blocks its body. *)
LowerQuant(n, x) ==
  LET exists == IF n.q = "some" THEN x.pos ELSE ~x.pos
      s      == BindDecls(n.decls, x, exists /\ ~x.blocked)
      below  == IF n.q = "no" THEN Flipped(s.x) ELSE s.x
      body   == LowerFormula(n.body, BlockedIf(Down(below, 0), ~exists))
      inner  == IF n.q = "no" THEN Not(body) ELSE body
      guards == (IF s.disj = <<>> THEN <<>> ELSE <<Conjoin(s.disj)>>) \o s.sk
      kind   == IF n.q = "some" THEN "some" ELSE "all"
  IN  IF n.q \in {"one", "lone"} THEN TestOf(n.q, LowerComprehension(n, x))
      ELSE IF ~s.ok THEN Error("higher-order")
      ELSE Quantified(kind, s.fo,
             CASE guards = <<>>    -> inner
               [] guards # <<>> /\ n.q = "some" -> And(guards \o <<inner>>)
               [] OTHER            -> Implied(Conjoin(guards), inner))

(* A binder over the atoms of the metamodel is a fold of its body over them. *)
LowerMeta(n, x) ==
  LET bound   == LowerBoundSet(n.bound, x)
      chained == Len(n.bindings) >= 2
      y       == BlockedIf(x, \/ n.fold = "comp" \/ chained
                              \/ IF n.fold = "all" THEN x.pos ELSE ~x.pos)
      atom(i) == SigDenote[n.bindings[i].atom]
      guard(i) == InSet(atom(i), bound)
      body(i) == LowerFormula(n.bindings[i].body, Push(Down(y, i), n.var, Coerced(atom(i))))
      term(i) == CASE n.fold = "all"  -> Implied(guard(i), body(i))
                   [] n.fold = "some" -> And(<<guard(i), body(i)>>)
                   [] n.fold = "comp" -> [k |-> "rite", c |-> And(<<guard(i), body(i)>>),
                                          t |-> atom(i), e |-> None]
      add(acc, i) == CASE n.fold = "all"  -> And(<<term(i), acc>>)
                       [] n.fold = "some" -> [k |-> "or", fs |-> <<term(i), acc>>]
                       [] n.fold = "comp" -> UnionOf(term(i), acc)
  IN  IF n.bindings = <<>> THEN IF n.fold = "comp" THEN None ELSE Truth(n.fold = "all")
      ELSE FoldLeft(add, term(1), [i \in 1..(Len(n.bindings) - 1) |-> i + 1])

(*---------------------------------- formulas ----------------------------------*)
(* A cast that is counted or summed is the number inside it. *)
ToInt(i) == IF i.k \in {"card", "int"} /\ i.e.k = "cast" THEN i.e.i ELSE i
LowerInt(n, x) == ToInt(VisitInt(n, x))

(* A number that is compared as a set: of =, as it stands; of in, unwrapped. *)
LowerRelPromote(n, x, unwrap) ==
  IF SortOf(n, x) # "int" THEN LowerRel(n, x)
  ELSE Cast(IF unwrap THEN LowerInt(n, x) ELSE VisitInt(n, x))

LowerCompare(n, x) ==
  LET l == LowerRelPromote(n.l, Down(x, 1), n.op = "in")
      r == LowerRelPromote(n.r, Down(x, 2), n.op = "in")
  IN  CASE n.op \in {"lt", "gt", "le", "ge"} ->
             [k |-> "icmp", op |-> n.op, l |-> LowerInt(n.l, Down(x, 1)), r |-> LowerInt(n.r, Down(x, 2))]
        [] n.op = "in" /\ HigherOrderBound(n.r) -> And(ArrowConstraints(l, n.r, Down(x, 2)))
        [] n.op = "eq" /\ l.k = "cast" /\ r.k = "cast" ->
             [k |-> "icmp", op |-> "eq", l |-> l.i, r |-> r.i]
        [] OTHER -> [k |-> "rcmp", op |-> n.op, l |-> l, r |-> r]

(* Where a connective is a disjunction nothing below it may be skolemized. *)
LowerBinaryFormula(n, x) ==
  LET y == BlockedIf(x, CASE n.op = "and" -> ~x.pos [] n.op = "iff" -> TRUE [] OTHER -> x.pos)
      l == LowerFormula(n.l, Down(IF n.op = "imp" THEN Flipped(y) ELSE y, 1))
      r == LowerFormula(n.r, Down(y, 2))
  IN  CASE n.op = "and" -> And(<<l, r>>)
        [] n.op = "or"  -> [k |-> "or", fs |-> <<l, r>>]
        [] n.op = "imp" -> Implied(l, r)
        [] n.op = "iff" -> [k |-> "iff", a |-> l, b |-> r]

LowerFormula(n, x) ==
  CASE n.k = "block" ->
         LET y == BlockedIf(x, ~x.pos /\ Len(n.fs) >= 2)
         IN  Conjoin([i \in 1..Len(n.fs) |-> LowerFormula(n.fs[i], Down(y, i))])
    [] n.k = "cmp"   -> IF n.neg THEN Not(LowerCompare(n, x)) ELSE LowerCompare(n, x)
    [] n.k = "not"   -> Not(LowerFormula(n.e, Flipped(Down(x, 1))))
    [] n.k = "test"  -> TestOf(n.test, LowerRel(n.e, Down(x, 1)))
    [] n.k = "bin"   -> LowerBinaryFormula(n, x)
    [] n.k = "quant" /\ n.q # "sum"  -> LowerQuant(n, x)
    [] n.k = "meta" /\ n.fold # "comp" -> LowerMeta(n, x)
    [] n.k = "ite"   -> LET c == LowerFormula(n.c, Blocked(Down(x, 1)))
                        IN  [k |-> "or",
                             fs |-> <<And(<<c, LowerFormula(n.t, Blocked(Down(x, 2)))>>),
                                      And(<<Not(c), LowerFormula(n.e, Blocked(Down(x, 3)))>>)>>]
    [] n.k = "let"   -> InLet(n, x, LowerFormula)
    [] n.k \in {"name", "box", "join"} -> LowerCallFormula(n, x)
    [] OTHER         -> Error("formula position")    \* temporal operators too

(*---------------------------------- relations ----------------------------------*)
LowerBuiltinValue(op) ==
  CASE op = "IntMin"  -> Cast([k |-> "const", n |-> IntMin(Bitwidth)])
    [] op = "IntMax"  -> Cast([k |-> "const", n |-> IntMax(Bitwidth)])
    [] Bitwidth = 0   -> Error("no integer atoms")
    [] op = "IntNext" -> IntNext
    [] op = "IntPrev" -> [k |-> "un", op |-> "transpose", e |-> IntNext]

LowerNameChoice(name, c, x) ==
  CASE c.c = "var"     -> LookupBinder(x, name)
    [] c.c = "sig"     -> SigDenote[c.s]
    [] c.c = "field"   -> IF c.this THEN Join(LookupBinder(x, "this"), FieldDenote[c.f])
                          ELSE FieldDenote[c.f]
    [] c.c = "call"    -> InCall(c.f, c.args, c.this, x, LowerRel)
    [] c.c = "builtin" -> LowerBuiltinValue(c.op)
    [] c.c = "macro"   -> InMacro(c, x, LowerRel)
    [] c.c = "empty"   -> NoneOfArity(c.n)

LowerJoinStructural(n, x) ==
  IF n.k = "join" THEN Join(LowerRel(n.l, Down(x, 1)), LowerRel(n.r, Down(x, 2)))
  ELSE LET args == LowerAll(n.args, Down(x, 2))
       IN  FoldLeft(LAMBDA acc, a : Join(a, acc), LowerRel(n.target, Down(x, 1)), args)

LowerSpineRel(n, x) ==
  LET callable == CallableHead(n, x)
  IN  IF callable # <<>>
      THEN IF Funcs[callable[1]].pred THEN Error("predicate in a relation position")
           ELSE InCall(callable[1], ArgsOf(n), FALSE, x, LowerRel)
      ELSE CASE n.c.c = "spine" -> LowerJoinStructural(n, x)
             [] n.c.c = "call"  -> InCall(n.c.f, n.c.args, n.c.this, x, LowerRel)
             [] n.c.c = "macro" -> InMacro(n.c, x, LowerRel)
             [] n.c.c = "empty" -> NoneOfArity(n.c.n)
             [] n.c.c = "builtin" /\ n.c.op = "IntAtom" -> LowerRel(n.args[1], Down(x, 1))
             [] OTHER -> Error("spine")

(* A <: r and r :> A keep the tuples of r whose first, or last, column is in A. *)
LowerRestrict(n, x) ==
  LET l   == LowerRel(n.l, Down(x, 1))
      r   == LowerRel(n.r, Down(x, 2))
      rel == IF n.dom THEN r ELSE l
      set == IF n.dom THEN l ELSE r
      pad == Columns(Arity(rel) - 1)
  IN  Both(rel, CASE Arity(rel) < 2 -> set
                  [] n.dom          -> Product(set, pad)
                  [] OTHER          -> Product(pad, set))

LowerRel(n, x) ==
  CASE SortOf(n, x) = "int" -> Cast(VisitInt(n, x))
    [] n.k = "const" -> (CASE n.c = "none" -> None [] n.c = "univ" -> LiveUniv [] n.c = "iden" -> LiveIden)
    [] n.k = "this"  -> LookupBinder(x, "this")
    [] n.k = "str"   -> IF n.s \in DOMAIN StringDenote THEN StringDenote[n.s] ELSE Error("string literal")
    [] n.k = "name"  -> LowerNameChoice(n.name, n.c, x)
    [] n.k \in {"box", "join"} -> LowerSpineRel(n, x)
    [] n.k = "rbin"  -> [k |-> "bin", op |-> n.op, l |-> LowerRel(n.l, Down(x, 1)),
                         r |-> LowerRel(n.r, Down(x, 2))]
    [] n.k = "restrict" -> LowerRestrict(n, x)
    [] n.k = "arrow" -> IF HigherOrderBound(n) THEN Error("marked arrow")
                        ELSE Product(LowerRel(n.l, Down(x, 1)), LowerRel(n.r, Down(x, 2)))
    [] n.k = "un"    -> [k |-> "un", op |-> n.op, e |-> LowerRel(n.e, Down(x, 1))]
    [] n.k = "marker" -> LowerRel(n.e, Down(x, 1))
    [] n.k = "ite"   -> [k |-> "rite", c |-> LowerFormula(n.c, Blocked(Down(x, 1))),
                         t |-> LowerRel(n.t, Down(x, 2)), e |-> LowerRel(n.e, Down(x, 3))]
    [] n.k = "comp"  -> LowerComprehension(n, x)
    [] n.k = "meta" /\ n.fold = "comp" -> LowerMeta(n, x)
    [] n.k = "let"   -> InLet(n, x, LowerRel)
    [] n.k = "block" /\ Len(n.fs) = 1 -> LowerRel(n.fs[1], Down(x, 1))
    [] OTHER         -> Error("relation position")   \* seq and prime too

(*---------------------------------- integers ----------------------------------*)
(* The sum over every variable's bound; nothing in a sum is skolemized. *)
LowerSum(n, x) ==
  LET bind(s, d) ==
        LET bound == LowerBoundSet(d.bound, s.x)
            place(i) == Down(Down(s.x, Len(s.vs)), i)
            vs == [i \in 1..Len(d.names) |-> [v |-> FreshVar(place(i), d.names[i], 1), b |-> bound]]
        IN  [ok |-> s.ok /\ ~d.bdisj, vs |-> s.vs \o vs,
             x  |-> FoldLeft(LAMBDA y, i : Push(y, d.names[i], BoundVar(vs[i].v)),
                             s.x, [i \in 1..Len(vs) |-> i])]
      s == FoldLeft(bind, [ok |-> TRUE, vs |-> <<>>, x |-> x], n.decls)
  IN  IF ~s.ok THEN Error("disj bound")
      ELSE Quantified("isum", s.vs, LowerInt(n.body, Blocked(Down(s.x, 0))))

(* What the sum of a set of integers is read from. *)
Summed(n, x) ==
  IF SortOf(n, x) = "int" THEN LowerInt(n, x) ELSE [k |-> "int", e |-> LowerRel(n, x)]

(* An expression in a position that wants a number, as the walk leaves it: the *)
(* then branch of a choice as it stands, its else branch unwrapped.            *)
VisitInt(n, x) ==
  IF SortOf(n, x) = "rel"
  THEN LET r == LowerRel(n, x) IN IF r.k = "cast" THEN r.i ELSE [k |-> "int", e |-> r]
  ELSE CASE n.k = "num"   -> [k |-> "const", n |-> n.n]
         [] n.k = "card"  -> [k |-> "card", e |-> LowerRel(n.e, Down(x, 1))]
         [] n.k = "intof" -> Summed(n.e, Down(x, 1))
         [] n.k = "rbin" /\ MinusFoldsToMin(n) -> [k |-> "const", n |-> IntMin(Bitwidth)]
         [] n.k = "iop"   -> [k |-> "ibin", op |-> n.op, l |-> LowerInt(n.l, Down(x, 1)),
                              r |-> LowerInt(n.r, Down(x, 2))]
         [] n.k \in {"name", "box"} /\ n.c.c = "call"  -> InCall(n.c.f, n.c.args, n.c.this, x, VisitInt)
         [] n.k \in {"name", "box"} /\ n.c.c = "macro" -> InMacro(n.c, x, VisitInt)
         [] n.k = "box" /\ n.c.c = "builtin" /\ n.c.op = "IntCast" -> Summed(n.args[1], Down(x, 1))
         [] n.k = "quant" /\ n.q = "sum" -> LowerSum(n, x)
         [] n.k = "ite"   -> [k |-> "iite", c |-> LowerFormula(n.c, Blocked(Down(x, 1))),
                              t |-> VisitInt(n.t, Down(x, 2)), e |-> LowerInt(n.e, Down(x, 3))]
         [] n.k = "let"   -> InLet(n, x, VisitInt)
         [] n.k = "block" /\ Len(n.fs) = 1 -> VisitInt(n.fs[1], Down(x, 1))
         [] OTHER         -> Error("integer position")

----------------------------------------------------------------------------
(* The goal of a command (lower.rs, Lowerer::lower): the conjunction of    *)
(* what the bounds could not say, the facts, the declarations of the       *)
(* fields, the facts appended to signatures and the command itself, each   *)
(* lowered in turn; and the fragments that the evaluator lowers against a  *)
(* command already solved.                                                 *)
(*                                                                         *)
(* A world w is what the checker leaves:                                   *)
(*   [bounds, facts, empty, fields, groups, appended, cmd]                 *)
(*   bounds    formulas of the universe's builder, already lowered         *)
(*   facts     formulas; empty: signatures of the metamodel that are none  *)
(*   fields    [f, owner, bound, defined, meta, bdisj]                     *)
(*   groups    sequences of fields that one declaration makes disjoint     *)
(*   appended  [sig, body]                                                 *)
(*   cmd       [kind, target, body, func, globals] of kind run, check,     *)
(*             evaluator or value                                          *)

CONSTANT Worlds          \* the worlds to lower, in a sequence

(* What the walk starts from: nothing in scope, asserted, free to skolemize. *)
Start(at) == [env |-> <<>>, stack |-> <<>>, pos |-> TRUE, blocked |-> FALSE,
              vb |-> <<>>, at |-> at]
WithThis(x, this) == Push(x, "this", BoundVar(this))

(*----------------------------- declared fields -----------------------------*)
(* The arity of a bound that is a name or a constant; 0 of any other. *)
RelArity(n) ==
  CASE n.k = "name" /\ n.c.c = "sig"   -> 1
    [] n.k = "name" /\ n.c.c = "field" -> FieldArity[n.c.f] - (IF n.c.this THEN 1 ELSE 0)
    [] n.k = "const" -> IF n.c = "iden" THEN 2 ELSE 1
    [] OTHER         -> 0

SeqArrowConstraints(value, e, x) ==
  LET i == FreshVar(Down(x, 1), "_c", 1)
  IN  <<InSet(value, Product(SeqInt, LowerRel(e, x))),
        Quantified("all", <<[v |-> i, b |-> SeqInt]>>, TestOf("lone", Join(Var(i), value)))>>

(* The indices that are used are the first ones. *)
SeqContiguity(value) ==
  LET dom == FirstColumn(value, Arity(value))
  IN  IF Bitwidth = 0 THEN <<>>
      ELSE <<InSet([k |-> "bin", op |-> "diff", l |-> dom, r |-> Join(dom, IntNext)], IntZero)>>

(* What a declared bound says of the value of one atom. *)
FieldMultConstraint(value, bound, x) ==
  CASE bound.k = "marker" -> <<InSet(value, LowerRel(bound.e, x))>> \o TestOfMarker(bound.op, value)
    [] bound.k = "seqof"  -> SeqArrowConstraints(value, bound.e, x)
    [] bound.k = "arrow"  -> ArrowConstraints(value, bound, x)
    [] OTHER              -> <<InSet(value, LowerRel(bound, x))>>
                               \o IF RelArity(bound) = 1 THEN <<TestOf("one", value)>> ELSE <<>>

(* The value of a field that is defined: an expression, or what an atom of  *)
(* the metamodel stands for.                                                *)
MetaDefDenote(m) ==
  CASE m.m = "sig"   -> SigDenote[m.s]
    [] m.m = "field" -> FieldDenote[m.f]
    [] m.m = "sigs"  -> IF m.ss = <<>> THEN None
                        ELSE UnionRel([i \in 1..Len(m.ss) |-> SigDenote[m.ss[i]]])
DefinedFieldValue(d, x) ==
  CASE d.meta # <<>>         -> MetaDefDenote(d.meta[1])
    [] d.bound.k = "marker"  -> LowerRel(d.bound.e, x)
    [] OTHER                 -> Error("malformed bound")

(* No two owners share a value. *)
BoundDisjFact(d, x) ==
  LET this == FreshVar(Down(x, 1), "this", 1)
      that == FreshVar(Down(x, 2), "that", 1)
      f    == FieldDenote[d.f]
      over(v) == [v |-> v, b |-> SigDenote[d.owner]]
  IN  Quantified("all", <<over(this), over(that)>>,
        Implied(Not(Same(Var(this), Var(that))),
                TestOf("no", Both(Join(Var(this), f), Join(Var(that), f)))))

LowerFieldFacts(d, at) ==
  LET x     == Blocked(Start(at))
      f     == FieldDenote[d.f]
      owner == SigDenote[d.owner]
      this  == FreshVar(x, "this", 1)
      value == Join(Var(this), f)
      y     == WithThis(x, this)
      says  == IF d.defined THEN <<Same(value, DefinedFieldValue(d, y))>>
               ELSE FieldMultConstraint(value, d.bound, y)
                      \o IF d.bound.k = "seqof" THEN SeqContiguity(value) ELSE <<>>
      each  == <<Quantified("all", <<[v |-> this, b |-> owner]>>, Conjoin(says))>>
      domain == IF FieldArity[d.f] < 2 THEN <<>>
                ELSE <<InSet(FirstColumn(f, FieldArity[d.f]), owner)>>
  IN  Conjoin(each \o domain \o IF d.bdisj THEN <<BoundDisjFact(d, x)>> ELSE <<>>)

LowerFieldDisjGroup(group) == Conjoin(Staged([i \in 1..Len(group) |-> FieldDenote[group[i]]]))

LowerAppendedFact(a, at) ==
  LET x    == Blocked(Start(at))
      this == FreshVar(x, "this", 1)
  IN  Quantified("all", <<[v |-> this, b |-> SigDenote[a.sig]]>>,
                 LowerFormula(a.body, WithThis(x, this)))

(*--------------------------------- the command ---------------------------------*)
(* One declared parameter of a predicate that is run, or its receiver. *)
RunParam(s, d) ==
  LET bound  == LowerBoundSet(d.bound, s.x)
      n      == Arity(bound)
      upper  == AbstractUpper(bound, s.x.vb)
      higher == n >= 2 \/ HigherOrderDecl(d.bound)
      skolem == upper # <<>>
      place(i) == Down(Down(s.x, Len(s.x.env)), i)
      names  == 1..Len(d.names)
      group  == [i \in names |-> IF skolem THEN Skolem(place(i), d.names[i], n, upper[1])
                                 ELSE Var(FreshVar(place(i), d.names[i], 1))]
      given  == FlattenSeq([i \in names |->
                  IF higher THEN SkolemConstraints(group[i], d.bound, place(i))
                  ELSE FirstOrderConstraints(group[i], bound)])
      bind   == [i \in names |-> [name |-> d.names[i],
                                  b |-> IF skolem THEN Coerced(group[i]) ELSE BoundVar(group[i].v)]]
      y      == [s.x EXCEPT !.env = @ \o bind]
  IN  IF d.bdisj \/ (higher /\ ~skolem) THEN [s EXCEPT !.ok = FALSE]
      ELSE IF skolem THEN [s EXCEPT !.x = y, !.sk = @ \o given]
      ELSE [s EXCEPT !.x  = [y EXCEPT !.vb = [v \in {g.v : g \in Range(group)} |-> bound] @@ @],
                     !.fo = @ \o [i \in names |-> [v |-> group[i].v, b |-> bound]]]

(* A function that is run says only that its arguments exist. *)
RunPred(f, x) ==
  LET step(s, d) == IF s.ok THEN RunParam(s, d) ELSE s
      s    == FoldLeft(step, [ok |-> TRUE, x |-> x, fo |-> <<>>, sk |-> <<>>], Funcs[f].decls)
      body == IF Funcs[f].pred THEN LowerFormula(Funcs[f].body, Down(s.x, 0)) ELSE Truth(TRUE)
  IN  IF ~s.ok THEN Error("higher-order")
      ELSE Quantified("some", s.fo, IF s.sk = <<>> THEN body ELSE And(s.sk \o <<body>>))

LowerCommandFormula(cmd, at) ==
  LET check == cmd.kind = "check"
      f     == LowerFormula(cmd.body, [Start(at) EXCEPT !.pos = ~check])
  IN  IF cmd.target = "named" THEN IF check THEN Error("check on a named predicate")
                                   ELSE RunPred(cmd.func, Start(at))
      ELSE IF check THEN Not(f) ELSE f

(*---------------------------------- a fragment ----------------------------------*)
(* Against an instance that is fixed nothing is skolemized. *)
LowerFragment(cmd) ==
  LET x == [Blocked(Start(<<"fragment">>)) EXCEPT
              !.env = [i \in 1..Len(cmd.globals) |-> [name |-> cmd.globals[i].name,
                                                      b |-> Coerced(cmd.globals[i].v)]]]
      sort == IF cmd.kind = "evaluator" THEN VisitSort(cmd.body, x, <<>>) ELSE SortOf(cmd.body, x)
  IN  CASE sort = "formula" -> [sort |-> sort, n |-> LowerFormula(cmd.body, x)]
        [] sort = "int"     -> [sort |-> sort, n |-> VisitInt(cmd.body, x)]
        [] sort = "rel"     -> [sort |-> sort, n |-> LowerRel(cmd.body, x)]

(*--------------------------------- the conjuncts ---------------------------------*)
EachOf(s, ds, Of(_, _)) == [i \in 1..Len(ds) |-> Of(ds[i], <<s, i>>)]

(* The goal of a command: it has none if a conjunct was deferred. *)
Conjuncts(w) ==
  w.bounds
  \o EachOf("facts", w.facts, LAMBDA f, at : LowerFormula(f, Start(at)))
  \o EachOf("empty", w.empty, LAMBDA s, at : TestOf("no", SigDenote[s]))
  \o EachOf("fields", w.fields, LowerFieldFacts)
  \o EachOf("groups", w.groups, LAMBDA g, at : LowerFieldDisjGroup(g))
  \o EachOf("appended", w.appended, LowerAppendedFact)
  \o EachOf("command", <<w.cmd>>, LowerCommandFormula)
Goal(w) == Conjoin(Conjuncts(w))

IsCommand(w) == w.cmd.kind \in {"run", "check"}

VARIABLES world,      \* the world that is being lowered
          stage       \* whether it is
vars == <<world, stage>>

Init == /\ \E i \in DOMAIN Worlds : world = Worlds[i]
        /\ stage = "resolved"

(* Lowering keeps nothing between one command, or one fragment, and the     *)
(* next: `Goal` and `LowerFragment` are all it computes.                    *)
Command  == /\ stage = "resolved" /\ IsCommand(world)
            /\ stage' = "command" /\ UNCHANGED world
Fragment == /\ stage = "resolved" /\ ~IsCommand(world)
            /\ stage' = "fragment" /\ UNCHANGED world

Next == Command \/ Fragment
Spec == Init /\ [][Next]_vars
=============================================================================
