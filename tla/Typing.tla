------------------------------- MODULE Typing -------------------------------
(***************************************************************************)
(* How an expression is typed and its names chosen (als-types: resolve/    *)
(* expr.rs). First `infer` gives it the type it may have, an overloaded    *)
(* name having that of all its candidates; then `resolve` goes down with   *)
(* the type that is relevant where it stands, which is what a candidate is *)
(* chosen by. A join with a name is a choice among readings, each name's   *)
(* candidate joined, or called with the arguments it wants.                *)
(*                                                                         *)
(* What is resolved is returned `as` it was read, every name in it chosen; *)
(* that is what is lowered. A context cx is [w, m, root, env, bound,       *)
(* nocalls]: the world, the module, the sig whose fact or field this is    *)
(* (<<>> for none), the variables, and what a field's bound may not name.  *)
(* Macros, quantifiers, the evaluator's atoms and the positions of errors  *)
(* within one expression are left out.                                     *)
(***************************************************************************)
EXTENDS ModuleGraph, Types

----------------------------------------------------------------------------
(* Names.                                                                  *)

strip_this(segs) == IF Len(segs) > 1 /\ segs[1] = "this" THEN Tail(segs) ELSE segs

\* The module an alias leads to; a private one leads nobody else anywhere.
follow_alias(m, alias, querying) ==
  {e.target : e \in {o \in Range(modules[m].opens) :
                       o.alias = alias /\ (o.private => querying = m)}}

RECURSIVE walk_prefix(_, _, _)
\* As far as the aliases lead: where to, and what is left.
walk_prefix(m, segs, querying) ==
  IF segs = <<>> \/ follow_alias(m, segs[1], querying) = {} THEN [module |-> m, rest |-> segs]
  ELSE walk_prefix(CHOOSE t \in follow_alias(m, segs[1], querying) : TRUE, Tail(segs), querying)

\* The one module a qualified name is looked for in.
Landing(m, segs) ==
  LET walk == walk_prefix(m, segs, m)
  IN  IF Len(walk.rest) = 1 /\ Len(segs) > 1 THEN {walk.module} ELSE {}

Builtin == ("Int" :> int_sig) @@ ("String" :> string_sig) @@ ("univ" :> univ) @@ ("none" :> none_sig)

SigIn(w, m, name) ==
  LET here == {s \in DOMAIN w.sigs :
                 ~w.sigs[s].builtin /\ w.sigs[s].module = m /\ w.sigs[s].name = name}
  IN  IF here # {} THEN {Min(here)}
      ELSE IF name \in DOMAIN w.params[m] THEN {w.params[m][name]} ELSE {}
FuncsIn(w, m, name) == {f \in DOMAIN w.funcs : w.funcs[f].module = m /\ w.funcs[f].name = name}

\* The signature a name denotes: the first there is, the module's own before
\* those it can reach.
lookup_sig_from(w, m, raw) ==
  LET segs == strip_this(raw)
      having == {i \in DOMAIN w.reachable[m] : SigIn(w, w.reachable[m][i], Last(segs)) # {}}
  IN  IF Len(segs) = 1 /\ segs[1] \in DOMAIN Builtin THEN {Builtin[segs[1]]}
      ELSE IF segs = <<"seq", "Int">> THEN {seq_int}
      ELSE IF Len(segs) > 1 THEN UNION {SigIn(w, l, Last(segs)) : l \in Landing(m, segs)}
      ELSE IF having = {} THEN {} ELSE SigIn(w, w.reachable[m][Min(having)], Last(segs))

\* The functions it may denote: all there are.
lookup_funcs(w, m, raw) ==
  LET segs == strip_this(raw)
      in == IF Len(segs) > 1 THEN Landing(m, segs) ELSE Range(w.reachable[m])
  IN  UNION {FuncsIn(w, l, Last(segs)) : l \in in}

RECURSIVE sig_is_same_or_descendent(_, _, _)
\* Whether an atom of one is an atom of the other, through subsets too.
sig_is_same_or_descendent(w, sub, sup) ==
  sub = sup \/ \E p \in Range(w.sigs[sub].kind.parents) : sig_is_same_or_descendent(w, p, sup)

----------------------------------------------------------------------------
(* Candidates.                                                             *)

Leaf(ty, weight, what) == [fin |-> "Leaf", ty |-> ty, weight |-> weight, what |-> what]
Chosen(what) == [k |-> "Chosen", what |-> what]
NoName == [k |-> "None"]

Within(cx, f) == cx.root # <<>> /\ sig_is_same_or_descendent(cx.w, cx.root[1], cx.w.fields[f].owner)

\* This atom's own field is typed as the whole relation.
FieldTypedWhole(cx, at, f) ==
  LET field == cx.w.fields[f]
      this == Within(cx, f) /\ ~at
      what == [k |-> "Field", id |-> f, this |-> this]
  IN  IF cx.bound /\ ~Within(cx, f) THEN {}
      ELSE {Leaf(field.ty, IF cx.root = <<>> \/ Within(cx, f) THEN 0 ELSE 1, what)}

\* A field named within its sig is this atom's; a field of an unrelated sig
\* weighs more there, and a bound does not see it at all.
push_field_cand(cx, at, f) ==
  LET field == cx.w.fields[f]
      this == Within(cx, f) /\ ~at
      what == [k |-> "Field", id |-> f, this |-> this]
  IN  IF cx.bound /\ ~Within(cx, f) THEN {}
      ELSE IF this THEN {Leaf(join(cx.w, cx.w.sigs[cx.root[1]].ty, field.ty), 0, what)}
      ELSE {Leaf(field.ty, IF cx.root = <<>> \/ Within(cx, f) THEN 0 ELSE 1, what)}

SigCand(w, s) == Leaf(w.sigs[s].ty, 0, [k |-> "Sig", id |-> s])
CallCand(w, f) ==
  Leaf(IF w.funcs[f].pred THEN FormulaType ELSE w.funcs[f].ret, 0, [k |-> "Call", id |-> f])
NoParams(w, fs) == {f \in fs : w.funcs[f].params = <<>>}

value_candidates(cx, at, segs) ==
  LET w == cx.w
      seen == {f \in DOMAIN w.fields : Len(segs) = 1 /\ w.fields[f].name = segs[1]
                 /\ w.sigs[w.fields[f].owner].module \in Range(w.reachable[cx.m])}
  IN  {SigCand(w, s) : s \in lookup_sig_from(w, cx.m, segs)}
      \cup {CallCand(w, f) : f \in NoParams(w, lookup_funcs(w, cx.m, segs))}
      \cup UNION {push_field_cand(cx, at, f) : f \in seen}

\* What `this/name` denotes, as long as the module itself declares it.
own_candidates(cx, at, name) ==
  LET w == cx.w
      own == {f \in DOMAIN w.fields : w.fields[f].name = name
                /\ w.sigs[w.fields[f].owner].module = cx.m}
  IN  {SigCand(w, s) : s \in SigIn(w, cx.m, name)}
      \cup {CallCand(w, f) : f \in NoParams(w, FuncsIn(w, cx.m, name))}
      \cup UNION {push_field_cand(cx, at, f) : f \in own}

Owned(cx, e) ==
  IF Len(e.segs) = 2 /\ e.segs[1] = "this" THEN own_candidates(cx, e.k = "AtName", e.segs[2]) ELSE {}
Candidates(cx, e) ==
  IF Owned(cx, e) # {} THEN Owned(cx, e)
  ELSE value_candidates(cx, e.k = "AtName", strip_this(e.segs))
Variable(cx, e) ==
  e.k = "Name" /\ Len(strip_this(e.segs)) = 1 /\ strip_this(e.segs)[1] \in DOMAIN cx.env

Merged(w, cands) ==
  LET Add(c, t) == merge(w, t, c.ty) IN FoldSet(Add, IllTyped, cands)

----------------------------------------------------------------------------
(* The ladder: those whose type meets the relevant one, else those that    *)
(* share its arity; of them the lightest; of several, all empty and of one *)
(* arity, the empty relation.                                              *)

first_pass_pool(w, cands, p) ==
  LET exact == {c \in cands : (p.bool /\ c.ty.bool) \/ intersects(w, p, c.ty)}
      legal == {c \in cands : has_common_arity(c.ty, p)}
      fit == IF exact # {} THEN exact ELSE legal
  IN  {c \in fit : \A d \in fit : c.weight <= d.weight}

Collapsing(pool, n) ==
  \A c \in pool : /\ ~c.ty.bool /\ ~c.ty.small /\ ~is_int(c.ty) /\ ~has_tuple(c.ty)
                  /\ c.ty.entries # <<>> /\ \A e \in Range(c.ty.entries) : Len(e) = n

resolve_helper(w, cands, p) ==
  LET pool == first_pass_pool(w, cands, p)
  IN  IF pool = {} THEN [k |-> "NoIntersect", of |-> cands, arity |-> 0]
      ELSE IF Cardinality(pool) = 1 THEN [k |-> "One", of |-> pool, arity |-> 0]
      ELSE IF \E n \in 1..4 : Collapsing(pool, n)
           THEN [k |-> "NoneArity", of |-> {}, arity |-> CHOOSE n \in 1..4 : Collapsing(pool, n)]
      ELSE [k |-> "Ambiguous", of |-> pool, arity |-> 0]

none_of_arity(n) == ProductType(Hollow(n))

----------------------------------------------------------------------------
(* From below: the type an expression may have.                            *)

RECURSIVE infer(_, _), build_readings(_, _), process_readings(_, _, _)

Everything2 == <<univ, univ>>
infer_unary(w, op, t) ==
  CASE op \in {"Not", "No", "Some", "Lone", "One"} -> FormulaType
    [] op \in {"SetOf", "ExactlyOf"} -> remove_bool_and_int(t)
    [] op \in {"SomeOf", "LoneOf", "OneOf"} -> extract(w, t, 1)
    [] op = "SeqOf" -> product(w, UnaryType(seq_int), t)
    [] op = "Transpose" -> transpose(w, t)
    [] op = "Closure" -> closure(w, t)
    [] op = "ReflexiveClosure" -> union(w, ProductType(Everything2), closure(w, t))
    [] op \in {"Card", "IntOf"} -> SmallInt
    [] op = "Prime" -> t

infer_binary(w, op, l, r) ==
  CASE op \in {"And", "Or"} -> FormulaType
    [] op \in {"Union", "Override"} -> union_with_common_arity(w, l, r)
    [] op = "Intersect" -> intersect(w, l, r)
    [] op = "Diff" -> pick_common_arity(w, l, r)
    [] op = "DomRestrict" -> domain_restrict(w, r, l)
    [] op = "RanRestrict" -> range_restrict(w, l, r)
    [] op = "IntAdd" -> SmallInt

infer_name(cx, e) ==
  IF Variable(cx, e) THEN cx.env[strip_this(e.segs)[1]]
  ELSE IF Candidates(cx, e) = {} THEN UnaryType(univ) ELSE Merged(cx.w, Candidates(cx, e))

const_type(of) ==
  CASE of = "none" -> UnaryType(none_sig) [] of = "univ" -> UnaryType(univ)
    [] of = "iden" -> ProductType(Everything2)

\* A binder's and a let's own names are not yet known down here: what they
\* stand for is looked for outside.
infer_comprehension(cx, decls) ==
  LET Bound(d) == remove_bool_and_int(infer(cx, d.bound))
      Times(t, d) == product(cx.w, t, Bound(d))
  IN  FoldLeft(Times, Bound(Head(decls)), Tail(decls))
infer_binder(cx, e) ==
  CASE e.op = "Comprehension" -> infer_comprehension(cx, e.decls)
    [] e.op = "Sum" -> SmallInt
    [] OTHER -> FormulaType

infer(cx, e) ==
  CASE e.k = "Num" -> SmallInt
    [] e.k = "Const" -> const_type(e.of)
    [] e.k = "This" -> IF "this" \in DOMAIN cx.env THEN cx.env["this"] ELSE UnaryType(univ)
    [] e.k \in {"Name", "AtName"} -> infer_name(cx, e)
    [] e.k = "Unary" -> infer_unary(cx.w, e.op, infer(cx, e.e))
    [] e.k = "Binary" -> infer_binary(cx.w, e.op, infer(cx, e.l), infer(cx, e.r))
    [] e.k \in {"Join", "Box"} -> Merged(cx.w, build_readings(cx, e))
    [] e.k = "Arrow" -> product(cx.w, infer(cx, e.l), infer(cx, e.r))
    [] e.k \in {"Compare", "TotalOrder"} -> FormulaType
    [] e.k = "Ite" -> LET t == infer(cx, e.l) u == infer(cx, e.r)
                      IN  IF t.bool \/ u.bool THEN FormulaType ELSE union(cx.w, t, u)
    [] e.k = "Block" -> IF Len(e.args) = 1 THEN infer(cx, e.args[1]) ELSE FormulaType
    [] e.k = "Binder" -> infer_binder(cx, e)
    [] e.k = "Let" -> infer(cx, e.body)

----------------------------------------------------------------------------
(* The readings of a join with a name. A function waits for its arguments, *)
(* and one within a sig may take this atom for the first.                  *)

Pending(f, weight, this, args) ==
  [fin |-> "BadCall", ty |-> IllTyped, weight |-> weight, func |-> f, this |-> this, args |-> args]
Sub(cx, e) == [fin |-> "Sub", ty |-> infer(cx, e), weight |-> 0, e |-> e]
Unknown == [fin |-> "Unknown", ty |-> UnaryType(univ), weight |-> 0]

ThisType(cx) == IF cx.root = <<>> THEN IllTyped ELSE cx.w.sigs[cx.root[1]].ty
PendingCalls(cx, f) ==
  LET params == cx.w.funcs[f].params
      takes == cx.root # <<>> /\ has_arity(ThisType(cx), 1)
                 /\ intersects(cx.w, params[1].ty, ThisType(cx))
  IN  IF params = <<>> THEN {}
      ELSE {Pending(f, 0, FALSE, <<>>)} \cup (IF takes THEN {Pending(f, 1, TRUE, <<>>)} ELSE {})

spine_head(cx, e) ==
  LET segs == strip_this(e.segs)
      all == value_candidates(cx, FALSE, segs)
               \cup UNION {PendingCalls(cx, f) : f \in lookup_funcs(cx.w, cx.m, segs)}
  IN  IF Variable(cx, e)
      THEN {Leaf(cx.env[segs[1]], 0, [k |-> "Var", name |-> segs[1]])}
      ELSE IF all = {} THEN {Unknown} ELSE all

args_applicable(cx, params, given) ==
  /\ Len(params) <= Len(given)
  /\ \A i \in DOMAIN params :
       LET p == params[i].ty a == given[i]
       IN  \/ is_error(a) \/ is_error(p)
           \/ /\ has_common_arity(a, p)
              /\ has_tuple(a) /\ has_tuple(p) => intersects(cx.w, a, p)

arity_of(t) == IF t.entries = <<>> THEN 0
               ELSE IF \A c \in Range(t.entries) : Len(c) = Len(t.entries[1]) THEN Len(t.entries[1]) ELSE 0

\* A call has the function's declared type, unless that is imprecise: then
\* what the declaration says of the arguments given.
specialize_ret(cx, func, given) ==
  LET Arity(i) == IF arity_of(func.params[i].ty) = 0 THEN 1 ELSE arity_of(func.params[i].ty)
      names == {func.params[i].name : i \in DOMAIN func.params}
      At1(name) == CHOOSE i \in DOMAIN given : func.params[i].name = name
                     /\ \A j \in DOMAIN given : func.params[j].name = name => j <= i
      sub == [cx EXCEPT !.m = func.module, !.root = <<>>, !.bound = FALSE, !.nocalls = FALSE,
                        !.env = [name \in names |-> extract(cx.w, given[At1(name)], Arity(At1(name)))]]
      t == remove_bool_and_int(infer(sub, func.returns))
  IN  IF func.pred THEN FormulaType
      ELSE IF \A c \in Range(func.ret.entries) : univ \notin Range(c) THEN func.ret
      ELSE IF Len(given) # Len(func.params) \/ is_error(t) \/ is_int(t) \/ arity_of(t) # arity_of(func.ret)
           THEN func.ret ELSE t

apply_arg(cx, cand, arg) ==
  LET func == cx.w.funcs[cand.func]
      args == Append(cand.args, arg)
      given == (IF cand.this THEN <<ThisType(cx)>> ELSE <<>>) \o [i \in DOMAIN args |-> infer(cx, args[i])]
  IN  IF args_applicable(cx, func.params, given)
      THEN [cand EXCEPT !.fin = "Call", !.args = args,
                        !.ty = specialize_ret(cx, func, given)]
      ELSE [cand EXCEPT !.args = args]

Wanting(cx, cand) ==
  cand.fin = "BadCall" /\ Len(cand.args) + (IF cand.this THEN 1 ELSE 0)
                            < Len(cx.w.funcs[cand.func].params)
join_cand(cx, arg, cand) ==
  [fin |-> "Join", ty |-> join(cx.w, infer(cx, arg), cand.ty), weight |-> cand.weight,
   l |-> arg, base |-> cand]
process_readings(cx, base, arg) ==
  {IF Wanting(cx, c) THEN apply_arg(cx, c, arg)
   ELSE IF c.fin = "Unknown" THEN c ELSE join_cand(cx, arg, c) : c \in base}

readings_of(cx, e) ==
  CASE e.k = "Name" -> spine_head(cx, e)
    [] e.k \in {"Join", "Box"} -> build_readings(cx, e)
    [] OTHER -> {Sub(cx, e)}

build_readings(cx, e) ==
  IF e.k = "Join" THEN process_readings(cx, readings_of(cx, e.r), e.l)
  ELSE LET Next1(rs, arg) == process_readings(cx, rs, arg)
       IN  FoldLeft(Next1, readings_of(cx, e.l), e.args)

----------------------------------------------------------------------------
(* What is relevant of each operand, of all that the whole is relevant to. *)

Sides(w, pairs) ==
  <<Reduced(w, [i \in DOMAIN pairs |-> pairs[i][1]]), Reduced(w, [i \in DOMAIN pairs |-> pairs[i][2]])>>
Ample(sides) == ~is_error(sides[1]) /\ ~is_error(sides[2])
NotHollow(c) == ~IsHollow(c)
Cut(w, p, cols) == SelectSeq(intersect(w, p, ProductType(cols)).entries, NotHollow)
Halves(w, l, r, Fit(_, _), Of(_, _)) == Sides(w, FlattenSeq(Paired(l, r, Fit, Of)))

join_slices(w, l, r, p) ==
  LET Near(a, b) == has_arity(p, Len(a) + Len(b) - 2)
      Meeting(a, b) == Near(a, b) /\ col_meet(w, Last(a), b[1]) # none_sig
      Whole(a, b) == << <<a, b>> >>
      Split1(a, b) ==
        LET cuts == Cut(w, p, join_products(w, a, b))
            Between(c) == SubSeq(c, 1, Len(a) - 1) \o <<col_meet(w, Last(a), b[1])>>
                            \o SubSeq(c, Len(a), Len(c))
        IN  [i \in DOMAIN cuts |-> <<SubSeq(Between(cuts[i]), 1, Len(a)),
                                     SubSeq(Between(cuts[i]), Len(a), Len(a) + Len(b) - 1)>>]
      exact == Halves(w, l, r, Meeting, Split1)
      meeting == Halves(w, l, r, Meeting, Whole)
  IN  IF Ample(exact) THEN exact ELSE IF Ample(meeting) THEN meeting
      ELSE Halves(w, l, r, Near, Whole)

arrow_slices(w, l, r, p) ==
  LET Full(a, b) == ~IsHollow(a) /\ ~IsHollow(b)
      Split1(a, b) ==
        LET cuts == Cut(w, p, a \o b)
        IN  [i \in DOMAIN cuts |-> <<SubSeq(cuts[i], 1, Len(a)),
                                     SubSeq(cuts[i], Len(a) + 1, Len(cuts[i]))>>]
      exact == Halves(w, l, r, Full, Split1)
  IN  IF Ample(exact) THEN exact ELSE <<l, r>>

Else(t, u) == IF has_entries(t) THEN t ELSE u
\* Of `d <: r`, d unary; and of `r :> d`, by the last column.
domain_slices(w, dom, rel, p) ==
  LET Fit(a, b) == Len(a) = 1 /\ has_arity(p, Len(b))
      Split1(a, b) == LET cuts == Cut(w, p, column_restrict(w, b, a[1], 1))
                      IN  [i \in DOMAIN cuts |-> <<<<cuts[i][1]>>, cuts[i]>>]
      exact == Halves(w, dom, rel, Fit, Split1)
  IN  IF Ample(exact) THEN exact
      ELSE <<Else(extract(w, dom, 1), dom), Else(pick_common_arity(w, rel, p), rel)>>
range_slices(w, rel, ran, p) ==
  LET Fit(a, b) == Len(a) = 1 /\ has_arity(p, Len(b))
      Split1(a, b) == LET cuts == Cut(w, p, column_restrict(w, b, a[1], Len(b)))
                      IN  [i \in DOMAIN cuts |-> <<cuts[i], <<Last(cuts[i])>>>>]
      exact == Halves(w, ran, rel, Fit, Split1)
  IN  IF Ample(exact) THEN exact
      ELSE <<Else(pick_common_arity(w, rel, p), rel), Else(extract(w, ran, 1), ran)>>

RECURSIVE Reached(_, _)
Reached(edges, from) ==
  LET more == from \cup {e[2] : e \in {d \in edges : d[1] \in from}}
  IN  IF more = from THEN from ELSE Reached(edges, more)

\* The steps that lie on a way through the columns of what is relevant.
resolve_closure(w, p, t) ==
  LET Binary2(c) == Len(c) = 2
      steps == SelectSeq(t.entries, Binary2)
      ends == SelectSeq(p.entries, Binary2)
      nodes == UNION {Range(c) : c \in Range(steps \o ends)}
      edges == Range(steps) \cup {e \in nodes \X nodes : col_meet(w, e[1], e[2]) # none_sig}
      OnTheWay(c) == \E e \in Range(ends) : c[1] \in Reached(edges, {e[1]}) /\ e[2] \in Reached(edges, {c[2]})
  IN  Reduced(w, SelectSeq(steps, OnTheWay))

----------------------------------------------------------------------------
(* From above. A result has a type, whether an error lies in it, what was  *)
(* reported, and how it was read.                                          *)

\* as is marked with its type
Typed(as, ty) == ("ty" :> ty) @@ as
Result(ty, as) == [ty |-> ty, err |-> FALSE, errors |-> <<>>, warns |-> <<>>, as |-> Typed(as, ty)]
Node(subs, ty, as) ==
  [ty |-> ty, err |-> \E i \in DOMAIN subs : subs[i].err,
   errors |-> FlattenSeq([i \in DOMAIN subs |-> subs[i].errors]),
   warns |-> FlattenSeq([i \in DOMAIN subs |-> subs[i].warns]), as |-> Typed(as, ty)]
Failed(r, kind) == [r EXCEPT !.err = TRUE, !.errors = Append(@, kind)]
Bad(r, kind) == [Failed(r, kind) EXCEPT !.ty = IllTyped]
Unless(r, ok, kind) == IF r.err \/ ok THEN r ELSE Bad(r, kind)
Warned(r, when, kind) == IF when /\ ~r.err THEN [r EXCEPT !.warns = Append(@, kind)] ELSE r

\* Whether an expression carries a multiplicity, which few places take.
RECURSIVE mult_of(_)
mult_of(e) ==
  CASE e.k = "Unary" -> e.op \in {"SetOf", "SeqOf", "SomeOf", "LoneOf", "OneOf", "ExactlyOf"}
    [] e.k = "Arrow" -> e.mult \/ mult_of(e.l) \/ mult_of(e.r)
    [] OTHER -> FALSE

typecheck_as_set_sorted(r) == IF ~r.err /\ r.ty.bool THEN Failed(r, "NotSet") ELSE r
typecheck_sorted(r, p) ==
  CASE r.err -> r
    [] ~r.err /\ p.bool -> IF r.ty.bool THEN r ELSE Failed(r, "NotFormula")
    [] ~r.err /\ ~p.bool /\ p.small ->
         IF r.ty.small \/ is_int(r.ty) THEN r ELSE Failed(r, "NotInt")
    [] OTHER -> typecheck_as_set_sorted(r)
typecheck(r, p, e) ==
  IF mult_of(e) THEN Failed(r, "MultiplicityNotAllowed") ELSE typecheck_sorted(r, p)
typecheck_as_set(r, e) ==
  IF mult_of(e) THEN Failed(r, "MultiplicityNotAllowed") ELSE typecheck_as_set_sorted(r)

RECURSIVE resolve(_, _, _), finalize_reading(_, _, _)

resolve_checked(cx, e, p) == typecheck(resolve(cx, e, p), p, e)
resolve_checked_consuming_mult(cx, e, p) == typecheck_sorted(resolve(cx, e, p), p)
\* An operand that is a set, whatever it may be used for.
SetOperand(cx, e, p) == typecheck_as_set(resolve(cx, e, p), e)
Plain(cx, e) == SetOperand(cx, e, remove_bool_and_int(infer(cx, e)))

\* What a pick is without being one candidate.
Unpicked(pick) ==
  LET error == CASE pick.k = "NoIntersect" -> "NameNotRelevant" [] OTHER -> "AmbiguousName"
  IN  IF pick.k = "NoneArity"
      THEN Result(none_of_arity(pick.arity), Chosen([k |-> "Empty", arity |-> pick.arity]))
      ELSE Bad(Result(IllTyped, NoName), error)
The(set) == CHOOSE c \in set : TRUE

pick_name(cx, cands, p) ==
  LET pick == resolve_helper(cx.w, cands, p)
      one == IF Cardinality(cands) = 1 THEN cands ELSE IF pick.k = "One" THEN pick.of ELSE {}
  IN  IF one # {} THEN Result(The(one).ty, Chosen(The(one).what)) ELSE Unpicked(pick)

resolve_name(cx, e, p) ==
  LET segs == strip_this(e.segs)
      wanted == IF lookup_funcs(cx.w, cx.m, segs) # {} THEN "BadCall" ELSE "UnknownName"
  IN  IF Variable(cx, e) THEN Result(cx.env[segs[1]], Chosen([k |-> "Var", name |-> segs[1]]))
      ELSE IF Candidates(cx, e) = {} THEN Bad(Result(IllTyped, NoName), wanted)
      ELSE pick_name(cx, Candidates(cx, e), p)

\* A field that is this atom's own, joined: taken whole where what is joined
\* to it fits its first column.
field_base_uses_raw(cx, what, receiver) ==
  has_tuple(join(cx.w, infer(cx, receiver), cx.w.fields[what.id].ty))
record_leaf(cx, cand, receiver) ==
  IF cand.what.k = "Field" /\ cand.what.this /\ receiver # <<>>
       /\ field_base_uses_raw(cx, cand.what, receiver[1])
  THEN Chosen([cand.what EXCEPT !.this = FALSE]) ELSE Chosen(cand.what)

\* The reading that was picked, its operands resolved by what is relevant of
\* them; receiver is what it is joined to.
finalize_reading(cx, cand, t) ==
  LET p == t.p
      Joined ==
        LET lt == infer(cx, cand.l)
            sides == join_slices(cx.w, lt, cand.base.ty, p)
            l == SetOperand(cx, cand.l, sides[1])
            r == finalize_reading(cx, cand.base, [p |-> sides[2], receiver |-> <<cand.l>>])
            ty == join(cx.w, lt, cand.base.ty)
            whole == Unless(Node(<<l, r>>, ty, [k |-> "Join", l |-> l.as, r |-> r.as]),
                            ~is_error(ty), "IllegalJoin")
        IN  Warned(whole, has_no_tuple(ty), "JoinEmpty")
      Called ==
        LET func == cx.w.funcs[cand.func]
            offset == IF cand.this THEN 1 ELSE 0
            Arg(k) == SetOperand(cx, cand.args[k],
                                 IF offset + k > Len(func.params) THEN IllTyped
                                 ELSE func.params[offset + k].ty)
            given == [k \in DOMAIN cand.args |-> Arg(k)]
            call == Node(given, cand.ty, [k |-> "Called", func |-> cand.func, this |-> cand.this,
                                          args |-> [k \in DOMAIN given |-> given[k].as]])
        IN  \* the call's own type stands, and its error is not the operand's
            IF cx.nocalls THEN [call EXCEPT !.errors = <<"FieldBoundHasCall">> \o @] ELSE call
  IN  CASE cand.fin = "Leaf" -> Result(cand.ty, record_leaf(cx, cand, t.receiver))
        [] cand.fin = "Sub" -> resolve(cx, cand.e, p)
        [] cand.fin = "Unknown" -> Bad(Result(IllTyped, NoName), "UnknownName")
        [] cand.fin = "Join" -> Joined
        [] cand.fin = "Call" -> Called
        [] cand.fin = "BadCall" -> Bad(Result(IllTyped, NoName), "BadCall")

\* Of several readings that are as good, those that resolve are compared by
\* what they resolve to.
trial_reading(cx, cand, t) ==
  LET r == finalize_reading(cx, cand, t)
  IN  [cand |-> cand, weight |-> cand.weight,
       ty |-> IF r.err \/ r.errors # <<>> THEN IllTyped ELSE r.ty]
pick_reading(cx, readings, p) ==
  LET t == [p |-> p, receiver |-> <<>>]
      pool == first_pass_pool(cx.w, readings, p)
      trials == {trial_reading(cx, c, t) : c \in pool}
      first == resolve_helper(cx.w, readings, p)
      retry == resolve_helper(cx.w, trials, p)
      pick == IF Cardinality(pool) > 1 THEN retry ELSE first
      tied == IF Cardinality(pool) > 1 THEN {c.cand : c \in retry.of} ELSE first.of
      calls == {c \in tied : c.fin = "BadCall"}
      badly == CASE pick.k = "Ambiguous" -> calls = tied
                 [] pick.k = "NoIntersect" -> calls # {}
                 [] OTHER -> FALSE
  IN  IF Cardinality(readings) = 1 THEN finalize_reading(cx, The(readings), t)
      ELSE IF pick.k = "One" THEN finalize_reading(cx, The(tied), t)
      ELSE IF badly THEN Bad(Result(IllTyped, NoName), "BadCall") ELSE Unpicked(pick)

----------------------------------------------------------------------------
(* The operators, each telling its operands what of them is relevant.      *)

\* The whole is as ill as its operands, or ill of its own.
Formula1(subs, as) == Node(subs, FormulaType, as)

unary_r(cx, e, p) ==
  LET w == cx.w
      below == infer(cx, e.e)
      as(r) == [k |-> "Unary", op |-> e.op, e |-> r.as]
      Of(r, ty) == Node(<<r>>, ty, as(r))
      \* what is left of the operand, and whether nothing of it counts
      turned == transpose(w, intersect(w, transpose(w, below), p))
      onTheWay == resolve_closure(w, p, below)
      idle(slice) == is_error(slice) /\ has_tuple(p)
  IN  CASE e.op = "Not" ->
             LET r == resolve_checked(cx, e.e, FormulaType) IN Of(r, FormulaType)
        [] e.op \in {"No", "Some", "Lone", "One"} ->
             LET r == Plain(cx, e.e) IN Of(r, FormulaType)
        [] e.op \in {"SetOf", "ExactlyOf", "SomeOf", "LoneOf", "OneOf"} ->
             LET r == Plain(cx, e.e)
                 ty == IF e.op \in {"SetOf", "ExactlyOf"} THEN remove_bool_and_int(r.ty)
                       ELSE extract(w, r.ty, 1)
             IN  Unless(Of(r, ty), ~is_error(ty), "NotSet")
        [] e.op = "SeqOf" ->
             LET r == Plain(cx, e.e) IN Of(r, product(w, UnaryType(seq_int), r.ty))
        [] e.op = "Transpose" ->
             LET r == SetOperand(cx, e.e, Else(turned, below))
                 ty == transpose(w, r.ty)
             IN  Warned(Unless(Of(r, ty), ~is_error(ty), "UnaryNotBinary"),
                        idle(turned), "DoesNotContribute")
        [] e.op \in {"Closure", "ReflexiveClosure"} ->
             LET r == SetOperand(cx, e.e, Else(onTheWay, below))
                 closed == closure(w, r.ty)
                 ty == IF e.op = "Closure" THEN closed ELSE ProductType(Everything2)
                 own == closure(w, below)
                 once == e.op = "Closure" /\ has_entries(own) /\ has_no_tuple(join(w, own, own))
                 whole == Unless(Of(r, ty), ~is_error(closed), "UnaryNotBinary")
             IN  Warned(Warned(whole, once, "ClosureRedundant"), idle(onTheWay), "DoesNotContribute")
        [] e.op = "Card" -> LET r == Plain(cx, e.e) IN Of(r, SmallInt)
        [] e.op = "IntOf" ->
             LET ints == intersect(w, below, UnaryType(int_sig))
                 r == SetOperand(cx, e.e, ints)
             IN  Warned(Of(r, SmallInt), has_no_tuple(ints), "IntAtoms")
        [] e.op = "Prime" -> LET r == resolve(cx, e.e, p) IN Of(r, r.ty)

\* Union, override, intersection and difference: of one arity at least.
set_binary(cx, e, p) ==
  LET w == cx.w
      lt == infer(cx, e.l)  rt == infer(cx, e.r)
      ty == infer_binary(w, e.op, lt, rt)
      ap == IF e.op = "Diff" THEN p ELSE intersect(w, lt, p)
      bp == IF e.op = "Diff" THEN intersect(w, p, rt) ELSE intersect(w, rt, p)
      l == resolve_checked(cx, e.l, ap)
      r == resolve_checked(cx, e.r, bp)
      whole == Unless(Node(<<l, r>>, ty, [k |-> "Binary", op |-> e.op, l |-> l.as, r |-> r.as]),
                      has_entries(ty), "ArityMismatch")
  IN  CASE e.op = "Intersect" -> Warned(whole, has_no_tuple(ty), "IntersectIrrelevant")
        [] e.op = "Diff" -> Warned(whole, has_no_tuple(ty) \/ has_no_tuple(bp), "MinusIrrelevant")
        [] OTHER -> Warned(whole, is_error(ap) \/ is_error(bp), "PlusIrrelevant")

\* A restriction: one side is a set, the other of any arity.
restriction(cx, e, p) ==
  LET w == cx.w
      lt == infer(cx, e.l)  rt == infer(cx, e.r)
      dom == e.op = "DomRestrict"
      ty == infer_binary(w, e.op, lt, rt)
      sides == IF dom THEN domain_slices(w, lt, rt, p) ELSE range_slices(w, lt, rt, p)
      l == resolve_checked(cx, e.l, sides[1])
      r == resolve_checked(cx, e.r, sides[2])
      whole == Node(<<l, r>>, ty, [k |-> "Binary", op |-> e.op, l |-> l.as, r |-> r.as])
  IN  Warned(Unless(whole, ~is_error(ty), "NotUnarySet"), has_no_tuple(ty),
             IF dom THEN "DomainIrrelevant" ELSE "RangeIrrelevant")

binary(cx, e, p) ==
  LET Both(q, ty) ==
        LET l == resolve_checked(cx, e.l, q)
            r == resolve_checked(cx, e.r, q)
        IN  Node(<<l, r>>, ty, [k |-> "Binary", op |-> e.op, l |-> l.as, r |-> r.as])
  IN  CASE e.op \in {"And", "Or"} -> Both(FormulaType, FormulaType)
        [] e.op = "IntAdd" -> Both(SmallInt, SmallInt)
        [] e.op \in {"Union", "Override", "Intersect", "Diff"} -> set_binary(cx, e, p)
        [] e.op \in {"DomRestrict", "RanRestrict"} -> restriction(cx, e, p)

\* An arrow may carry multiplicities, and so may its operands.
arrow(cx, e, p) ==
  LET lt == infer(cx, e.l)  rt == infer(cx, e.r)
      sides == arrow_slices(cx.w, lt, rt, p)
      Side(x, q) == typecheck_as_set_sorted(resolve_checked_consuming_mult(cx, x, q))
      l == Side(e.l, sides[1])
      r == Side(e.r, sides[2])
  IN  Warned(Node(<<l, r>>, product(cx.w, lt, rt), [k |-> "Arrow", l |-> l.as, r |-> r.as]),
             has_tuple(lt) # has_tuple(rt), "ArrowIrrelevant")

compare(cx, e) ==
  LET w == cx.w
      lt == infer(cx, e.l)  rt == infer(cx, e.r)
      both == intersect(w, lt, rt)
      left == pick_common_arity(w, lt, rt)
      right == pick_common_arity(w, rt, lt)
      within == intersect(w, rt, left)
      As(l, r) == Node(<<l, r>>, FormulaType,
                       [k |-> "Compare", op |-> e.op, neg |-> e.neg, l |-> l.as, r |-> r.as])
      \* their arities meet, or both are integers
      fit == has_common_arity(lt, rt) \/ (e.op = "Eq" /\ is_int(lt) /\ is_int(rt))
      apart == has_tuple(lt) /\ has_tuple(rt) /\ ~intersects(w, lt, rt)
      vain == has_no_tuple(lt) \/ has_no_tuple(rt) \/ has_no_tuple(within)
  IN  CASE e.op = "Lt" -> As(resolve_checked(cx, e.l, SmallInt), resolve_checked(cx, e.r, SmallInt))
        [] e.op = "Eq" ->
             LET l == resolve_checked(cx, e.l, IF has_tuple(both) THEN both ELSE left)
                 r == resolve_checked(cx, e.r, IF has_tuple(both) THEN both ELSE right)
             IN  Warned(Unless(As(l, r), fit, "ArityMismatch"), apart, "EqRedundant")
        [] e.op = "In" ->
             \* what is plainly `in` something may carry a multiplicity
             LET l == resolve_checked(cx, e.l, left)
                 r == IF e.neg THEN resolve_checked(cx, e.r, within)
                      ELSE resolve_checked_consuming_mult(cx, e.r, within)
             IN  Warned(Unless(As(l, r), fit, "ArityMismatch"), vain, "SubsetRedundant")

if_then_else(cx, e, p) ==
  LET w == cx.w
      Slice(x) == CASE p.bool -> FormulaType
                    [] ~p.bool /\ (has_entries(p) \/ p.small) -> intersect(w, infer(cx, x), p)
                    [] OTHER -> p
      c == resolve_checked(cx, e.c, FormulaType)
      l == resolve_checked(cx, e.l, Slice(e.l))
      r == resolve_checked(cx, e.r, Slice(e.r))
      ty == IF l.ty.bool \/ r.ty.bool THEN FormulaType ELSE union(w, l.ty, r.ty)
  IN  Node(<<c, l, r>>, ty, [k |-> "Ite", c |-> c.as, l |-> l.as, r |-> r.as])

\* The one function of the language that is given by name: a total order.
total_order(cx, e) ==
  LET t == extract(cx.w, infer(cx, e.args[1]), 1)
      given == [i \in DOMAIN e.args |->
                  SetOperand(cx, e.args[i], IF i > 2 THEN product(cx.w, t, t) ELSE t)]
  IN  Formula1(given, [k |-> "TotalOrder", args |-> [i \in DOMAIN given |-> given[i].as]])

block(cx, e, p) ==
  LET given == [i \in DOMAIN e.args |-> resolve_checked(cx, e.args[i], FormulaType)]
  IN  IF Len(e.args) = 1 THEN resolve(cx, e.args[1], p)
      ELSE Formula1(given, [k |-> "Block", args |-> [i \in DOMAIN given |-> given[i].as]])

----------------------------------------------------------------------------
(* Binders. Each bound is resolved with the names before it, its own not   *)
(* yet bound; a variable of a comprehension is one atom.                   *)

CannotBeMultOf(b, op) ==
  \/ b.k = "Unary" /\ b.op = "ExactlyOf"
  \/ op = "Comprehension" /\ b.k = "Unary" /\ b.op \in {"SetOf", "SomeOf", "LoneOf"}
OneColumn(t) == \A p \in Range(t.entries) : Len(p) = 1

decl_bound_type(cx, b, op) ==
  LET r == typecheck_as_set_sorted(resolve(cx, b, remove_bool_and_int(infer(cx, b))))
  IN  Unless(Unless(r, ~CannotBeMultOf(b, op), "CannotBeMultOf"),
             op = "Comprehension" /\ has_entries(r.ty) => OneColumn(r.ty), "NotUnarySet")

With(cx, name, t) == [cx EXCEPT !.env = (name :> t) @@ @]
\* The variables bound in turn: [cx, bounds, types].
bind_decls_typed(cx, e) ==
  LET Bind(s, d) ==
        LET r == decl_bound_type(s.cx, d.bound, e.op)
            t == remove_bool_and_int(r.ty)
        IN  [cx |-> With(s.cx, d.name, t), bounds |-> Append(s.bounds, r), types |-> Append(s.types, t)]
  IN  FoldLeft(Bind, [cx |-> cx, bounds |-> <<>>, types |-> <<>>], e.decls)

binder(cx, e) ==
  LET bound == bind_decls_typed(cx, e)
      body == resolve_checked(bound.cx, e.body, IF e.op = "Sum" THEN SmallInt ELSE FormulaType)
      Times(t, u) == product(cx.w, t, u)
      ty == CASE e.op = "Sum" -> SmallInt
              [] e.op = "Comprehension" -> FoldLeft(Times, Head(bound.types), Tail(bound.types))
              [] OTHER -> FormulaType
      subs == bound.bounds \o <<body>>
  IN  \* an error of a bound is reported, and is not the body's
      [Node(subs, ty, [k |-> "Binder", op |-> e.op, body |-> body.as,
                       decls |-> [i \in DOMAIN e.decls |->
                                    [name |-> e.decls[i].name, bound |-> bound.bounds[i].as]]])
       EXCEPT !.err = body.err]

let_expr(cx, e, p) ==
  LET value == resolve(cx, e.value, infer(cx, e.value))
      given == IF mult_of(e.value)
               THEN [value EXCEPT !.errors = <<"MultiplicityNotAllowed">> \o @] ELSE value
      body == resolve(With(cx, e.name, value.ty), e.body, p)
  IN  [Node(<<given, body>>, body.ty,
            [k |-> "Let", name |-> e.name, value |-> given.as, body |-> body.as])
       EXCEPT !.err = body.err]

----------------------------------------------------------------------------
resolve(cx, e, p) ==
  CASE e.k = "Num" -> Result(SmallInt, e)
    [] e.k = "Const" -> Result(const_type(e.of), e)
    [] e.k = "This" ->
         IF "this" \in DOMAIN cx.env \/ cx.root # <<>> THEN Result(infer(cx, e), e)
         ELSE Bad(Result(IllTyped, NoName), "UnknownName")
    [] e.k \in {"Name", "AtName"} -> resolve_name(cx, e, p)
    [] e.k = "Unary" -> unary_r(cx, e, p)
    [] e.k = "Binary" -> binary(cx, e, p)
    [] e.k \in {"Join", "Box"} -> pick_reading(cx, build_readings(cx, e), p)
    [] e.k = "TotalOrder" -> total_order(cx, e)
    [] e.k = "Arrow" -> arrow(cx, e, p)
    [] e.k = "Compare" -> compare(cx, e)
    [] e.k = "Ite" -> if_then_else(cx, e, p)
    [] e.k = "Block" -> block(cx, e, p)
    [] e.k = "Binder" -> binder(cx, e)
    [] e.k = "Let" -> let_expr(cx, e, p)

\* An expression on its own: a formula, a set, a declaration's bound.
run_formula(cx, e) == typecheck_sorted(resolve(cx, e, FormulaType), FormulaType)
run_set(cx, e) ==
  LET r == typecheck_as_set_sorted(resolve(cx, e, remove_bool_and_int(infer(cx, e))))
  IN  [r EXCEPT !.ty = remove_bool_and_int(@)]
run_bound(cx, e) == run_set(cx, e)
=============================================================================
