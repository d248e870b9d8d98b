------------------------------- MODULE Meaning -------------------------------
(***************************************************************************)
(* What a surface tree means, said directly: sets of tuples, numbers that  *)
(* wrap, and environments.  Nothing here is lowered: a quantifier over     *)
(* relations ranges over relations, a call is evaluated in the scope of    *)
(* its definition, a let is its value.  The goal of a command is compared  *)
(* with it on every instance.                                              *)
(*                                                                         *)
(* An environment maps a name to a set (set), an expression with its own   *)
(* environment (closure) or a function (fun).                              *)
(***************************************************************************)
EXTENDS Lower, Evaluator

Sets(v)  == [b |-> "set", v |-> v]
Nothing  == [x \in {} |-> 0]
RelOf(n, inst) == EvalRel(n, [env |-> Nothing, inst |-> inst, allow |-> TRUE], Nothing).v
Summation(v) == SumOf(IntsOf(v))[1]
Wrapped(i) == WrapSigned(i, Bitwidth)

RECURSIVE ArityOf(_)
ArityOf(n) ==
  CASE n.k = "name"  -> IF n.c.c = "field" THEN RelArity(n) ELSE 1
    [] n.k = "arrow" -> ArityOf(n.l) + ArityOf(n.r)
    [] n.k = "join"  -> ArityOf(n.l) + ArityOf(n.r) - 2
    [] n.k \in {"rbin", "restrict"} -> ArityOf(n.l)
    [] n.k = "un"    -> 2
    [] n.k = "marker" -> ArityOf(n.e)
    [] n.k = "const" -> IF n.c = "iden" THEN 2 ELSE 1
    [] OTHER -> 1

RECURSIVE Holds(_, _, _), Val(_, _, _), Num(_, _, _), SortIn(_, _), Fits(_, _, _, _)

(*-------------------------------- environments --------------------------------*)
Given(params, values) == [p \in Range(params) |->
  Sets(values[Max({i \in DOMAIN params : params[i] = p})])]
CallEnv(c, e, inst) ==
  LET this == IF c.this /\ Funcs[c.f].params # <<>> /\ Funcs[c.f].params[1] = "this"
              THEN <<e["this"].v>> ELSE <<>>
  IN  Given(Funcs[c.f].params, this \o [i \in 1..Len(c.args) |-> Val(c.args[i], e, inst)])
MacroEnv(c, e) ==
  [p \in Range(c.params) |->
     LET i == CHOOSE j \in DOMAIN c.params : c.params[j] = p
     IN  IF i \in DOMAIN c.callables THEN [b |-> "fun", f |-> c.callables[i]]
         ELSE [b |-> "closure", n |-> c.args[i], e |-> e]]
LetEnv(bs, e) ==
  FoldLeft(LAMBDA y, b : (b.name :> [b |-> "closure", n |-> b.value, e |-> y]) @@ y, e, bs)
Applied(n, e) ==      \* the call that an applied parameter stands for
  LET name == IF n.k = "box" THEN n.target ELSE n
  IN  IF name.k = "name" /\ name.name \in DOMAIN e /\ e[name.name].b = "fun"
      THEN [c |-> "call", f |-> e[name.name].f, args |-> ArgsOf(n), this |-> FALSE]
      ELSE n.c

SortIn(n, e) ==
  CASE n.k \in {"num", "card", "intof", "iop"} -> "int"
    [] n.k \in {"cmp", "not", "test", "bin"}   -> "formula"
    [] n.k = "marker" -> SortIn(n.e, e)
    [] n.k = "rbin"   -> IF MinusFoldsToMin(n) THEN "int" ELSE "rel"
    [] n.k = "ite"    -> SortIn(n.t, e)
    [] n.k = "quant"  -> IF n.q = "sum" THEN "int" ELSE "formula"
    [] n.k = "meta"   -> IF n.fold = "comp" THEN "rel" ELSE "formula"
    [] n.k = "let"    -> SortIn(n.body, LetEnv(n.bs, e))
    [] n.k = "block"  -> IF Len(n.fs) = 1 THEN SortIn(n.fs[1], e) ELSE "formula"
    [] n.k \in {"name", "box", "join"} ->
         LET c == Applied(n, e)
         IN  CASE c.c = "call"  -> FuncSort(c.f)
               [] c.c = "macro" -> SortIn(c.body, MacroEnv(c, e))
               [] c.c = "builtin" -> IF c.op = "IntCast" THEN "int"
                                     ELSE IF c.op \in {"Disj", "TotalOrder"} THEN "formula" ELSE "rel"
               [] c.c = "var" /\ e[n.name].b = "closure" -> SortIn(e[n.name].n, e[n.name].e)
               [] OTHER -> "rel"
    [] OTHER -> "rel"

(*-------------------------------- declarations --------------------------------*)
RECURSIVE Stripped(_, _, _)
Stripped(n, e, inst) ==
  CASE n.k = "arrow"  -> SetBinary("product", Stripped(n.l, e, inst), Stripped(n.r, e, inst))
    [] n.k = "marker" -> Stripped(n.e, e, inst)
    [] OTHER          -> Val(n, e, inst)

Sized(mark, v) == mark \in {"some", "lone", "one"} => Tested(mark, v)
After1(v, t) == {SubSeq(u, Len(t) + 1, Len(u)) : u \in {w \in v : SubSeq(w, 1, Len(t)) = t}}
Before1(v, t) ==
  {SubSeq(u, 1, Len(u) - Len(t)) : u \in {w \in v : SubSeq(w, Len(w) - Len(t) + 1, Len(w)) = t}}

(* Whether a set is a value of a bound: of an arrow l lm -> rm r, whether   *)
(* every tuple of l leaves one of r, of rm's size, and every tuple of r one *)
(* of l, of lm's size.                                                      *)
Fits(v, n, e, inst) ==
  LET Side(m) == {t \in Stripped(m, e, inst) : m.k = "arrow" => Fits({t}, m, e, inst)}
      Good(w, m, mark) == Sized(mark, w) /\ (m.k = "arrow" => Fits(w, m, e, inst))
  IN  CASE n.k = "marker" -> v \subseteq Stripped(n, e, inst) /\ Sized(n.op, v)
        [] n.k = "arrow"  -> /\ v \subseteq Stripped(n, e, inst)
                             /\ \A t \in Side(n.l) : Good(After1(v, t), n.r, n.rm)
                             /\ \A t \in Side(n.r) : Good(Before1(v, t), n.l, n.lm)
        [] OTHER          -> v \subseteq Val(n, e, inst)
FitsSeq(v, n, e, inst) ==
  LET used == {t[1] : t \in v}
  IN  /\ v \subseteq SetBinary("product", RelOf(SeqInt, inst), Val(n.e, e, inst))
      /\ \A i \in used : Cardinality(After1(v, <<i>>)) = 1
      /\ \A i \in used : \A j \in IntAtoms : 0 <= AtomIntValue(j) /\ j <= i => j \in used

(* The environments that declarations allow. *)
Options(d, e, inst, whole) ==
  LET v == Stripped(d.bound, e, inst)
  IN  IF HigherOrderDecl(d.bound) \/ (whole /\ ArityOf(d.bound) >= 2)
      THEN {w \in SUBSET v : Fits(w, d.bound, e, inst)}
      ELSE {{t} : t \in v}
Assigned(decls, e, inst, whole) ==
  LET names(d) == Range(d.names)
      choices(d, y) ==
        {c \in [names(d) -> Options(d, y, inst, whole)] :
           d.disj => \A p \in names(d), q \in names(d) : p # q => c[p] \cap c[q] = {}}
      step(ys, d) == UNION {{[p \in names(d) |-> Sets(c[p])] @@ y : c \in choices(d, y)} : y \in ys}
  IN  FoldLeft(step, {e}, decls)
NamedTuple(decls, e) ==
  FoldLeft(LAMBDA acc, d : FoldLeft(LAMBDA t, p : t \o CHOOSE u \in e[p].v : TRUE, acc, d.names),
           <<>>, decls)

(*--------------------------------- the meaning ---------------------------------*)
MetaAtoms(n, e, inst, Sort(_, _)) ==
  {i \in DOMAIN n.bindings :
     LET v == RelOf(SigDenote[n.bindings[i].atom], inst)
     IN  v \subseteq Stripped(n.bound, e, inst) /\ Sort(i, (n.var :> Sets(v)) @@ e)}

Holds(n, e, inst) ==
  CASE n.k = "block" -> \A i \in DOMAIN n.fs : Holds(n.fs[i], e, inst)
    [] n.k = "not"   -> ~Holds(n.e, e, inst)
    [] n.k = "test"  -> Tested(n.test, Val(n.e, e, inst))
    [] n.k = "cmp"   ->
         n.neg # CASE n.op = "eq" -> Val(n.l, e, inst) = Val(n.r, e, inst)
                   [] n.op = "in" -> IF HigherOrderBound(n.r) THEN Fits(Val(n.l, e, inst), n.r, e, inst)
                                     ELSE Val(n.l, e, inst) \subseteq Val(n.r, e, inst)
                   [] OTHER -> CompareValues(n.op, Num(n.l, e, inst), Num(n.r, e, inst))
    [] n.k = "bin"   ->
        (CASE n.op = "and" -> Holds(n.l, e, inst) /\ Holds(n.r, e, inst)
           [] n.op = "or"  -> Holds(n.l, e, inst) \/ Holds(n.r, e, inst)
           [] n.op = "imp" -> Holds(n.l, e, inst) => Holds(n.r, e, inst)
           [] n.op = "iff" -> Holds(n.l, e, inst) = Holds(n.r, e, inst))
    [] n.k = "quant" ->
         LET all  == Assigned(n.decls, e, inst, FALSE)
             good == {y \in all : Holds(n.body, y, inst)}
         IN  CASE n.q = "all" -> good = all [] n.q = "no" -> good = {} [] OTHER -> Tested(n.q, good)
    [] n.k = "meta"  ->
         LET in == MetaAtoms(n, e, inst, LAMBDA i, y : TRUE)
             ok == MetaAtoms(n, e, inst, LAMBDA i, y : Holds(n.bindings[i].body, y, inst))
         IN  IF n.fold = "all" THEN in = ok ELSE ok # {}
    [] n.k = "ite"   -> IF Holds(n.c, e, inst) THEN Holds(n.t, e, inst) ELSE Holds(n.e, e, inst)
    [] n.k = "let"   -> Holds(n.body, LetEnv(n.bs, e), inst)
    [] OTHER ->
         LET c == Applied(n, e)
         IN  CASE c.c = "var"   -> Holds(e[n.name].n, e[n.name].e, inst)
               [] c.c = "call"  -> Holds(Funcs[c.f].body, CallEnv(c, e, inst), inst)
               [] c.c = "macro" -> Holds(c.body, MacroEnv(c, e), inst)
               [] c.c = "builtin" /\ c.op = "Disj" ->
                    \A i, j \in DOMAIN n.args :
                      i < j => Val(n.args[i], e, inst) \cap Val(n.args[j], e, inst) = {}
               [] c.c = "builtin" /\ c.op = "TotalOrder" ->
                    \E s \in SetToSeqs(Val(n.args[1], e, inst)) :
                      /\ Len(s) >= 1 /\ Val(n.args[2], e, inst) = {s[1]}
                      /\ Val(n.args[3], e, inst) = {s[i] \o s[i + 1] : i \in 1..(Len(s) - 1)}

Val(n, e, inst) ==
  IF SortIn(n, e) = "int" THEN AtomOf(Num(n, e, inst)) ELSE
  CASE n.k = "const" -> RelOf(IF n.c = "none" THEN None ELSE IF n.c = "univ" THEN LiveUniv ELSE LiveIden, inst)
    [] n.k = "this"  -> e["this"].v
    [] n.k = "str"   -> RelOf(StringDenote[n.s], inst)
    [] n.k = "rbin"  -> SetBinary(n.op, Val(n.l, e, inst), Val(n.r, e, inst))
    [] n.k = "restrict" -> IF n.dom THEN {t \in Val(n.r, e, inst) : <<t[1]>> \in Val(n.l, e, inst)}
                           ELSE {t \in Val(n.l, e, inst) : <<t[Len(t)]>> \in Val(n.r, e, inst)}
    [] n.k = "arrow" -> SetBinary("product", Val(n.l, e, inst), Val(n.r, e, inst))
    [] n.k = "un"    -> SetUnary(n.op, Val(n.e, e, inst))
    [] n.k = "marker" -> Val(n.e, e, inst)
    [] n.k = "comp"  -> {NamedTuple(n.decls, y) :
                           y \in {z \in Assigned(n.decls, e, inst, FALSE) : Holds(n.body, z, inst)}}
    [] n.k = "meta"  -> UNION {RelOf(SigDenote[n.bindings[i].atom], inst) :
                          i \in MetaAtoms(n, e, inst, LAMBDA i, y : Holds(n.bindings[i].body, y, inst))}
    [] n.k = "ite"   -> IF Holds(n.c, e, inst) THEN Val(n.t, e, inst) ELSE Val(n.e, e, inst)
    [] n.k = "let"   -> Val(n.body, LetEnv(n.bs, e), inst)
    [] n.k = "block" -> Val(n.fs[1], e, inst)
    [] OTHER ->
         LET c == Applied(n, e)
         IN  CASE c.c = "var"   -> IF e[n.name].b = "set" THEN e[n.name].v
                                   ELSE Val(e[n.name].n, e[n.name].e, inst)
               [] c.c = "sig"   -> RelOf(SigDenote[c.s], inst)
               [] c.c = "field" -> LET f == RelOf(FieldDenote[c.f], inst)
                                   IN  IF c.this THEN SetJoin(e["this"].v, f) ELSE f
               [] c.c = "call"  -> Val(Funcs[c.f].body, CallEnv(c, e, inst), inst)
               [] c.c = "macro" -> Val(c.body, MacroEnv(c, e), inst)
               [] c.c = "empty" -> {}
               [] c.c = "spine" -> IF n.k = "join" THEN SetJoin(Val(n.l, e, inst), Val(n.r, e, inst))
                                   ELSE FoldLeft(LAMBDA acc, a : SetJoin(Val(a, e, inst), acc),
                                                 Val(n.target, e, inst), n.args)
               [] c.op = "IntAtom" -> Val(n.args[1], e, inst)
               [] c.op = "IntMin"  -> AtomOf(IntMin(Bitwidth))
               [] c.op = "IntMax"  -> AtomOf(IntMax(Bitwidth))
               [] c.op = "IntNext" -> {<<a, a + 1>> : a \in {b \in IntAtoms : b + 1 \in IntAtoms}}
               [] c.op = "IntPrev" -> {<<a + 1, a>> : a \in {b \in IntAtoms : b + 1 \in IntAtoms}}

Num(n, e, inst) ==
  IF SortIn(n, e) = "rel" THEN Summation(Val(n, e, inst)) ELSE
  CASE n.k = "num"   -> Wrapped(n.n)
    [] n.k = "card"  -> Wrapped(Cardinality(Val(n.e, e, inst)))
    [] n.k = "intof" -> Summation(Val(n.e, e, inst))
    [] n.k = "rbin"  -> IntMin(Bitwidth)
    [] n.k = "iop"   -> IntBinopValue(n.op, Num(n.l, e, inst), Num(n.r, e, inst), Bitwidth)[1]
    [] n.k = "quant" -> LET all == SetToSeq(Assigned(n.decls, e, inst, FALSE))
                        IN  FoldLeft(LAMBDA acc, y : Wrapped(acc + Num(n.body, y, inst)), 0, all)
    [] n.k = "ite"   -> IF Holds(n.c, e, inst) THEN Num(n.t, e, inst) ELSE Num(n.e, e, inst)
    [] n.k = "let"   -> Num(n.body, LetEnv(n.bs, e), inst)
    [] n.k = "block" -> Num(n.fs[1], e, inst)
    [] OTHER ->
         LET c == Applied(n, e)
         IN  CASE c.c = "var"   -> Num(e[n.name].n, e[n.name].e, inst)
               [] c.c = "call"  -> Num(Funcs[c.f].body, CallEnv(c, e, inst), inst)
               [] c.c = "macro" -> Num(c.body, MacroEnv(c, e), inst)
               [] c.op = "IntCast" -> Summation(Val(n.args[1], e, inst))

(*---------------------------------- a command ----------------------------------*)
FieldHolds(d, inst) ==
  LET f     == RelOf(FieldDenote[d.f], inst)
      owner == RelOf(SigDenote[d.owner], inst)
      env(t) == "this" :> Sets({t})
      Of(t) == After1(f, t)
      Value(t) == CASE d.meta # <<>> -> RelOf(MetaDefDenote(d.meta[1]), inst)
                    [] OTHER -> Val(d.bound.e, env(t), inst)
  IN  /\ FieldArity[d.f] >= 2 => \A u \in f : <<u[1]>> \in owner
      /\ d.bdisj => \A s, t \in owner : s # t => Of(s) \cap Of(t) = {}
      /\ \A t \in owner :
           CASE d.defined          -> Of(t) = Value(t)
             [] d.bound.k = "seqof" -> FitsSeq(Of(t), d.bound, env(t), inst)
             [] OTHER -> /\ Fits(Of(t), d.bound, env(t), inst)
                         /\ d.bound.k \notin {"marker", "arrow"} /\ ArityOf(d.bound) = 1
                              => Cardinality(Of(t)) = 1

CommandHolds(cmd, inst) ==
  IF cmd.target = "named"
  THEN \E y \in Assigned(Funcs[cmd.func].decls, Nothing, inst, TRUE) :
         Funcs[cmd.func].pred => Holds(Funcs[cmd.func].body, y, inst)
  ELSE Holds(cmd.body, Nothing, inst) = (cmd.kind = "run")

WorldHolds(w, inst) ==
  /\ \A i \in DOMAIN w.bounds : EvalFormula(w.bounds[i], [env |-> Nothing, inst |-> inst, allow |-> TRUE,
                                   armed |-> FALSE, frames |-> <<>>, pos |-> TRUE], Nothing).v
  /\ \A i \in DOMAIN w.facts : Holds(w.facts[i], Nothing, inst)
  /\ \A i \in DOMAIN w.empty : RelOf(SigDenote[w.empty[i]], inst) = {}
  /\ \A i \in DOMAIN w.fields : FieldHolds(w.fields[i], inst)
  /\ \A i \in DOMAIN w.groups :
       \A p, q \in DOMAIN w.groups[i] :
         p < q => RelOf(FieldDenote[w.groups[i][p]], inst) \cap RelOf(FieldDenote[w.groups[i][q]], inst) = {}
  /\ \A i \in DOMAIN w.appended :
       \A t \in RelOf(SigDenote[w.appended[i].sig], inst) :
         Holds(w.appended[i].body, "this" :> Sets({t}), inst)
  /\ CommandHolds(w.cmd, inst)

(*------------------------------ what is not kept ------------------------------*)
DeclParts(ds) == [i \in 1..Len(ds) |-> ds[i].bound]
SurfaceParts(n) ==
  CASE n.k = "block" -> n.fs
    [] n.k \in {"cmp", "bin", "rbin", "restrict", "arrow", "iop", "join"} -> <<n.l, n.r>>
    [] n.k \in {"not", "test", "un", "marker", "seqof", "card", "intof", "temporal"} -> <<n.e>>
    [] n.k \in {"comp", "quant"} -> DeclParts(n.decls) \o <<n.body>>
    [] n.k = "box"   -> n.args
    [] n.k = "ite"   -> <<n.c, n.t, n.e>>
    [] n.k = "let"   -> [i \in 1..Len(n.bs) |-> n.bs[i].value] \o <<n.body>>
    [] n.k = "meta"  -> <<n.bound>> \o [i \in 1..Len(n.bindings) |-> n.bindings[i].body]
    [] OTHER         -> <<>>
RECURSIVE SurfaceNodes(_)
SurfaceNodes(n) ==
  <<n>> \o FlattenSeq([i \in 1..Len(SurfaceParts(n)) |-> SurfaceNodes(SurfaceParts(n)[i])])
Roots(w) ==
  w.facts \o [i \in 1..Len(w.appended) |-> w.appended[i].body]
    \o [i \in 1..Len(w.fields) |-> w.fields[i].bound]
    \o IF w.cmd.target = "named" THEN <<Funcs[w.cmd.func].body>> ELSE <<w.cmd.body>>
Said(w, Is(_)) ==
  \E i \in DOMAIN Roots(w) : \E j \in DOMAIN SurfaceNodes(Roots(w)[i]) : Is(SurfaceNodes(Roots(w)[i])[j])

Grouped(decls) == \E i \in DOMAIN decls : decls[i].disj /\ Len(decls[i].names) >= 2

(* A sum, or a predicate that is run, whose names are declared disjoint. *)
SumsGroup(n) == n.k = "quant" /\ n.q = "sum" /\ Grouped(n.decls)
RunsGroup(w) == w.cmd.target = "named" /\ Grouped(Funcs[w.cmd.func].decls)

(* A field of one column whose bound has no mark and is not a name. *)
BareCompound(d) ==
  /\ ~d.defined /\ d.bound.k \notin {"marker", "arrow", "seqof", "name", "const"}
  /\ ArityOf(d.bound) = 1

(* A marked arrow, one side of which is a relation that is not an arrow. *)
PairColumn(n) ==
  LET over(m, mark, other) == /\ m.k # "arrow" /\ ArityOf(m) >= 2
                              /\ mark \in {"some", "lone", "one"} \/ other.k = "arrow"
  IN  n.k = "arrow" /\ (over(n.l, n.rm, n.r) \/ over(n.r, n.lm, n.l))

(* An applied parameter of a macro whose body calls what applies that name. *)
Captures(n) ==
  /\ n.k \in {"name", "box"} /\ n.c.c = "macro"
  /\ \E i \in DOMAIN n.c.callables :
       \E m \in Range(SurfaceNodes(n.c.body)) :
         /\ m.k \in {"name", "box"} /\ m.c.c = "call"
         /\ \E k \in Range(SurfaceNodes(Funcs[m.c.f].body)) :
              k.k = "box" /\ k.target.k = "name" /\ k.target.name = n.c.params[i]

Departs(w) ==
  \/ Said(w, SumsGroup) \/ RunsGroup(w) \/ Said(w, PairColumn) \/ Said(w, Captures)
  \/ \E i \in DOMAIN w.fields : BareCompound(w.fields[i])

(*---------------------------------- the goal ----------------------------------*)
Instances(w) == SUBSET {p \in {<<r, t>> : r \in w.uses, t \in UNION {RelUpper[r] : r \in w.uses}} :
                          p[2] \in RelUpper[p[1]] \ RelLower[p[1]]}
Skolems(n) == {m.r : m \in {l \in Nodes(n) : l.k = "rel" /\ l.r \notin Relations}}
Free(n)    == UNION {{<<r, t>> : t \in r.upper} : r \in Skolems(n)}
Against(inst) == [env |-> Nothing, inst |-> inst, allow |-> TRUE, armed |-> FALSE,
                  frames |-> <<>>, pos |-> TRUE]
GoalHolds(goal, free, inst) ==
  \E s \in SUBSET free : EvalFormula(goal, Against(inst \cup s), Nothing).v

FragmentKept(r, cmd, inst) ==
  LET e == [x \in {g.name : g \in Range(cmd.globals)} |->
              Sets(RelOf((CHOOSE g \in Range(cmd.globals) : g.name = x).v, inst))]
  IN  CASE r.sort = "formula" -> EvalFormula(r.n, Against(inst), Nothing).v = Holds(cmd.body, e, inst)
        [] r.sort = "int" -> EvalInt(r.n, Against(inst), Nothing).v[1] = Num(cmd.body, e, inst)
        [] r.sort = "rel" -> EvalRel(r.n, Against(inst), Nothing).v = Val(cmd.body, e, inst)
CommandKept(goal, free, w, inst) == GoalHolds(goal, free, inst) = WorldHolds(w, inst)


(* A fragment that is evaluated against a solved instance has no constant  *)
(* that the instance says nothing about (lower.rs:328).                    *)
FragmentsMintNothing ==
  [][Fragment => LET r == LowerFragment(world.cmd) IN Failed(r.n) \/ Free(r.n) = {}]_vars

(* A command is refused only for a declaration over relations, a marked    *)
(* arrow where no declaration is, time, or recursion; never for the order  *)
(* or the depth of what can be said (lower.rs:1-14).                       *)
Inexpressible(n) ==
  \/ n.k \in {"temporal", "seqof"} \/ (n.k = "arrow" /\ {n.lm, n.rm} # {""})
  \/ n.k \in {"quant", "comp"} /\ \E i \in DOMAIN n.decls :
       n.decls[i].bound.k = "marker" /\ n.decls[i].bound.op \in {"set", "some", "lone", "exactly"}
Recursive(w) == \E f \in DOMAIN Funcs : Funcs[f].recursive /\ Said(w, LAMBDA n :
                   n.k \in {"name", "box"} /\ n.c.c = "call" /\ n.c.f = f)
RefusesOnlyTheInexpressible ==
  [][Failed(IF Command THEN Goal(world) ELSE LowerFragment(world.cmd).n)
     => Said(world, Inexpressible) \/ Recursive(world)]_vars
=============================================================================
