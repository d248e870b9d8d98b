------------------------------- MODULE Resolve -------------------------------
(***************************************************************************)
(* The resolution of a loaded graph (als-types: resolve/mod.rs, sigs.rs,   *)
(* members.rs, meta.rs): the signatures of every module are declared, the  *)
(* parameters bound to their arguments, the hierarchy built, then fields,  *)
(* functions, bodies and commands typed, one phase after the other. A      *)
(* phase that meets errors is the last, and the first of them by position  *)
(* is the answer.                                                          *)
(*                                                                         *)
(* A position is a file and a paragraph; which of the errors of one        *)
(* paragraph comes first is left open. Macros are left out.                *)
(***************************************************************************)
EXTENDS Typing

VARIABLE world      \* what has been resolved so far

resolveVars == <<loadVars, world>>

Pos(m, k) == [file |-> CHOOSE i \in DOMAIN loaded : loaded[i] = modules[m].file, para |-> k]
Error(kind, pos) == [kind |-> kind, pos |-> pos]
Raised(w, kinds, pos) == [w EXCEPT !.errors = @ \cup {Error(k, pos) : k \in kinds}]
UnlessHeld(w, ok, kind, pos) == IF ok THEN w ELSE Raised(w, {kind}, pos)

Earlier(p, q) == p.file < q.file \/ (p.file = q.file /\ p.para <= q.para)
first_by_position(errors) == {e \in errors : \A d \in errors : Earlier(e.pos, d.pos)}

\* Every paragraph of every module, in order.
Paragraphs1 ==
  FlattenSeq([m \in DOMAIN modules |->
    [k \in DOMAIN Text(modules[m].file).paras |->
       [m |-> m, pos |-> Pos(m, k), para |-> Text(modules[m].file).paras[k]]]])
Paras(kinds) == LET Is(x) == x.para.k \in kinds IN SelectSeq(Paragraphs1, Is)

----------------------------------------------------------------------------
(* Modules that can be seen, and the names of what is in them.             *)

\* In the order they are met, breadth first; a private open is its module's
\* own.
RECURSIVE Met(_, _, _)
Met(start, order, i) ==
  LET Add(o, e) == IF e.target \in Range(o) \/ (e.private /\ order[i] # start) THEN o
                   ELSE Append(o, e.target)
  IN  IF i > Len(order) THEN order
      ELSE Met(start, FoldLeft(Add, order, modules[order[i]].opens), i + 1)
compute_reachable == [m \in DOMAIN modules |-> Met(m, <<m>>, 1)]

\* The way to each module by aliases, given when it is first stacked.
RECURSIVE Ways(_, _)
Ways(todo, prefix) ==
  LET m == Last(todo)
      Add(s, e) == IF e.target \in DOMAIN s.prefix THEN s
                   ELSE [prefix |-> (e.target :> Append(prefix[m], e.alias)) @@ s.prefix,
                         todo |-> Append(s.todo, e.target)]
      s == FoldLeft(Add, [prefix |-> prefix, todo |-> Front(todo)], Reverse(modules[m].opens))
  IN  IF todo = <<>> THEN prefix ELSE Ways(s.todo, s.prefix)
module_prefixes == Ways(<<1>>, 1 :> <<>>)

\* The root's own members say so; the way starts after that.
qualified_name(m, name) ==
  (IF m = 1 THEN <<"this">> ELSE <<>>)
    \o (IF m \in DOMAIN module_prefixes THEN module_prefixes[m] ELSE <<>>) \o <<name>>

----------------------------------------------------------------------------
(* Signatures are declared.                                                *)

Kind1(k, parents, exact) == [k |-> k, parents |-> parents, exact |-> exact]
UnderUniv == Kind1("Prim", <<univ>>, FALSE)
Unplaced == Kind1("Prim", <<>>, FALSE)

Sig(name, m) ==
  [name |-> name, module |-> m, label |-> <<name>>, builtin |-> FALSE, meta |-> FALSE,
   enum |-> FALSE, abstract |-> FALSE, var |-> FALSE, mult |-> "", kind |-> Unplaced,
   ty |-> IllTyped, fields |-> <<>>, disj |-> <<>>, fact |-> <<>>]

seed_builtins ==
  LET Builtin1(name, kind, id) ==
        [Sig(name, 1) EXCEPT !.builtin = TRUE, !.kind = kind, !.ty = UnaryType(id)]
  IN  << Builtin1("univ", Unplaced, univ), Builtin1("Int", UnderUniv, int_sig),
         Builtin1("seq/Int", Kind1("Prim", <<int_sig>>, FALSE), seq_int),
         Builtin1("String", UnderUniv, string_sig), Builtin1("none", UnderUniv, none_sig) >>

NewWorld ==
  [sigs |-> seed_builtins, srcs |-> <<>>, fields |-> <<>>, funcs |-> <<>>, asserts |-> <<>>,
   params |-> [m \in DOMAIN modules |-> <<>>], reachable |-> compute_reachable,
   exact |-> {}, ordering |-> {}, commands |-> <<>>, typed |-> <<>>, warns |-> <<>>,
   meta |-> FALSE, at |-> 0, errors |-> {}]

Reserved == {"univ", "Int", "none", "iden", "String"}
Declares(w, m, name) ==
  \E s \in DOMAIN w.sigs : ~w.sigs[s].builtin /\ w.sigs[s].module = m /\ w.sigs[s].name = name

ParentTop == [k |-> "Top", of |-> <<>>, exact |-> FALSE, id |-> 0]
declare_sig(w, m, name, quals, parent, fields, pos) ==
  LET id == Len(w.sigs) + 1
      sig == [Sig(name, m) EXCEPT !.abstract = quals.abstract, !.var = quals.var, !.mult = quals.mult,
                                  !.fact = quals.fact, !.label = qualified_name(m, name)]
      src == [id |-> id, module |-> m, parent |-> parent, fields |-> fields, pos |-> pos]
  IN  UnlessHeld([w EXCEPT !.sigs = Append(@, sig), !.srcs = Append(@, src)],
                 name \notin Reserved /\ ~Declares(w, m, name), "DuplicateSig", pos)

Plain1 == [abstract |-> FALSE, var |-> FALSE, mult |-> "", fact |-> <<>>]
register_sig_decl(w, m, decl, pos) ==
  LET Add(v, name) == declare_sig(v, m, name, decl, [id |-> 0] @@ decl.parent, decl.fields, pos)
  IN  FoldLeft(Add, w, decl.names)
register_enum_decl(w, m, decl, pos) ==
  LET parent == Len(w.sigs) + 1
      base == declare_sig(w, m, decl.name, [Plain1 EXCEPT !.abstract = TRUE], ParentTop, <<>>, pos)
      Add(v, name) == declare_sig(v, m, name, [Plain1 EXCEPT !.mult = "One"],
                                  [ParentTop EXCEPT !.k = "ExtendsSig", !.id = parent], <<>>, pos)
  IN  FoldLeft(Add, [base EXCEPT !.sigs[parent].enum = TRUE], decl.variants)

\* A root file that takes parameters has them for signatures of its own.
register_root_param_sigs(w) ==
  LET Add(v, p) ==
        IF Declares(v, 1, p.name) THEN v
        ELSE [declare_sig(v, 1, p.name, Plain1, ParentTop, <<>>, Pos(1, 0))
              EXCEPT !.exact = IF p.exact THEN @ \cup {Len(v.sigs) + 1} ELSE @]
  IN  FoldLeft(Add, w, Text(modules[1].file).params)
register_sigs(w) ==
  LET Add(v, x) == IF x.para.k = "Sig" THEN register_sig_decl(v, x.m, x.para, x.pos)
                   ELSE register_enum_decl(v, x.m, x.para, x.pos)
  IN  FoldLeft(Add, register_root_param_sigs(w), Paras({"Sig", "Enum"}))

\* An argument is a signature the opener sees; what a parameter was bound to
\* first it stays bound to.
resolve_params(w) ==
  LET slots == FlattenSeq([m \in DOMAIN modules |-> FlattenSeq([j \in DOMAIN modules[m].opens |->
                 LET e == modules[m].opens[j]
                 IN  [i \in 1..Min({Len(e.args), Len(modules[e.target].params)}) |->
                        [m |-> m, target |-> e.target, arg |-> e.args[i],
                         param |-> modules[e.target].params[i].param,
                         exact |-> modules[e.target].params[i].exact]]])])
      Bind(v, x) ==
        LET found == lookup_sig_from(v, x.m, x.arg)
            bound == [v EXCEPT !.params[x.target] =
                        IF x.param \in DOMAIN @ THEN @ ELSE (x.param :> The(found)) @@ @]
        IN  IF found = {} THEN v
            ELSE UnlessHeld(bound, ~(x.exact /\ v.sigs[The(found)].var), "ExactParamVarSig", Pos(x.m, 0))
  IN  FoldLeft(Bind, w, slots)

\* Whether a name with a `$` may be one of the metamodel's.
DollarNames == UNION {Text(p).dollars : p \in Range(loaded)}
is_meta_name(w, d) ==
  \/ d.own = "" /\ d.of \in {"sig", "field", "static", "var"}
  \/ \E i \in DOMAIN w.srcs :
       /\ w.sigs[w.srcs[i].id].name = d.of
       /\ d.own = "" \/ \E f \in Range(w.srcs[i].fields) : d.own \in Range(f.names)
compute_meta_gate(w) == [w EXCEPT !.meta = \E d \in DollarNames : is_meta_name(w, d)]

----------------------------------------------------------------------------
(* The hierarchy. Each signature is placed after those it is placed under; *)
(* one met again while it is being placed closes a cycle.                  *)

RECURSIVE resolve_one_sig(_, _)
\* The parents a clause names, and what is wrong with it.
parent_of(w, src) ==
  LET Named1(i) == lookup_sig_from(w, src.module, src.parent.of[i])
      found == SelectSeq([i \in DOMAIN src.parent.of |-> Named1(i)], LAMBDA x : x # {})
      ids == [i \in DOMAIN found |-> The(found[i])]
      missing == IF Len(ids) < Len(src.parent.of) THEN {"ParentSigNotFound"} ELSE {}
      under == src.parent.k = "Extends" /\ ids # <<>> /\ w.sigs[ids[1]].kind.k = "Subset"
      Of(kind, recurse, errors) == [kind |-> kind, recurse |-> recurse, errors |-> errors]
  IN  CASE src.parent.k = "Top" -> Of(UnderUniv, <<>>, {})
        [] src.parent.k = "ExtendsSig" ->
             Of(Kind1("Prim", <<src.parent.id>>, FALSE), <<src.parent.id>>, {})
        [] src.parent.k \in {"Extends", "Subset"} /\ ids = <<>> -> Of(UnderUniv, <<>>, missing)
        [] src.parent.k = "Extends" /\ ids # <<>> ->
             IF under THEN Of(UnderUniv, <<>>, {"ExtendsSubsetSig"})
             ELSE Of(Kind1("Prim", ids, FALSE), ids, {})
        [] src.parent.k = "Subset" /\ ids # <<>> ->
             Of(Kind1("Subset", ids, src.parent.exact), ids, missing)

\* Adding p to a type asks of each product in turn until one is as wide, and
\* if none is, of each whether it is narrower.
AskedEndlessly(w, entries, p) ==
  LET wider == {i \in DOMAIN entries : product_subtype(w, p, entries[i])}
      upto == IF wider = {} THEN Len(entries) ELSE Min(wider)
      stuck == {i \in 1..upto : Endless(w, p[1], entries[i][1])}
      back == {i \in DOMAIN entries : Endless(w, entries[i][1], p[1])}
  IN  IF stuck # {} THEN {<<p[1], entries[Min(stuck)][1]>>}
      ELSE IF wider = {} /\ back # {} THEN {<<entries[Min(back)][1], p[1]>>} ELSE {}

\* The union of the parents' types, or the question it never answers.
subset_type(w, parents) ==
  LET Add(acc, p) ==
        LET asked == AskedEndlessly(w, acc.entries, p)
        IN  IF acc.stuck # {} \/ asked # {} THEN [acc EXCEPT !.stuck = acc.stuck \cup asked]
            ELSE [acc EXCEPT !.entries = WithProduct(w, @, p)]
      acc == FoldLeft(Add, [entries |-> <<>>, stuck |-> {}],
                      FlattenSeq([i \in DOMAIN parents |-> w.sigs[parents[i]].ty.entries]))
      ty == [IllTyped EXCEPT !.entries = acc.entries]
  IN  [ty |-> IF is_error(ty) THEN UnaryType(univ) ELSE ty, stuck |-> acc.stuck]
\* A subset has the type of the first of its parents.
OfFirstParent(w, id, kind) ==
  IF kind.k = "Prim" THEN [ty |-> UnaryType(id), stuck |-> {}] ELSE subset_type(w, <<kind.parents[1]>>)
\* A primary signature has its parent's type too.
OfParentToo(w, id, kind) ==
  LET v == [w EXCEPT !.sigs[id].ty = UnaryType(id), !.sigs[id].kind = kind]
  IN  IF kind.k = "Prim" THEN subset_type(v, <<id>> \o kind.parents) ELSE subset_type(w, kind.parents)

compute_sig_type(w, id, kind) ==
  IF kind.k = "Prim" THEN [ty |-> UnaryType(id), stuck |-> {}] ELSE subset_type(w, kind.parents)

SrcOf(w, s) == {i \in DOMAIN w.srcs : w.srcs[i].id = s}
\* t is [w, state, stuck]: placing nothing more once a question is not
\* answered.
resolve_one_sig(t, i) ==
  LET src == t.w.srcs[i]
      parent == parent_of(t.w, src)
      Under(u, p) == IF SrcOf(u.w, p) = {} THEN u ELSE resolve_one_sig(u, The(SrcOf(u.w, p)))
      above == FoldLeft(Under, [t EXCEPT !.state[i] = 1, !.w = Raised(@, parent.errors, src.pos)],
                        parent.recurse)
      type == compute_sig_type(above.w, src.id, parent.kind)
  IN  IF t.stuck # {} \/ t.state[i] = 2 THEN t
      ELSE IF t.state[i] = 1 THEN [t EXCEPT !.w = Raised(@, {"CyclicInheritance"}, src.pos)]
      ELSE IF above.stuck # {} \/ type.stuck # {} THEN [above EXCEPT !.stuck = @ \cup type.stuck]
      ELSE [above EXCEPT !.state[i] = 2, !.w.sigs[src.id].kind = parent.kind,
                         !.w.sigs[src.id].ty = type.ty]

resolve_sig_hierarchy(w) ==
  LET start == [w |-> w, state |-> [i \in DOMAIN w.srcs |-> 0], stuck |-> {}]
  IN  FoldLeftDomain(resolve_one_sig, start, w.srcs)

----------------------------------------------------------------------------
(* Members, fields and functions.                                          *)

register_members(w) ==
  LET Func(x) == [name |-> x.para.name, module |-> x.m, pred |-> x.para.pred, params |-> <<>>,
                  ret |-> FormulaType, returns |-> x.para.returns, pos |-> x.pos, decl |-> x.para]
      Add(v, x) ==
        IF x.para.k = "Func" THEN [v EXCEPT !.funcs = Append(@, Func(x))]
        ELSE IF \E a \in Range(v.asserts) : a.module = x.m /\ a.name = x.para.name
             THEN Raised(v, {"DuplicateAssert"}, x.pos)
        ELSE [v EXCEPT !.asserts = Append(@, [module |-> x.m, name |-> x.para.name])]
  IN  FoldLeft(Add, w, Paras({"Func", "Assert"}))

Cx(w, m) == [w |-> w, m |-> m, root |-> <<>>, env |-> <<>>, bound |-> FALSE, nocalls |-> FALSE]
InSig(cx, s) == [cx EXCEPT !.root = <<s>>, !.env = "this" :> cx.w.sigs[s].ty]
\* What resolving one expression adds to the world.
Noted(w, r, cx, pos) ==
  [Raised(w, Range(r.errors), pos) EXCEPT
     !.typed = Append(@, [as |-> r.as, root |-> cx.root, env |-> cx.env, ok |-> r.errors = <<>>,
                          warns |-> r.warns])]

is_defined_bound(d) == d.bound.k = "Unary" /\ d.bound.op = "ExactlyOf"
resolve_one_field(w, src, d) ==
  LET cx == [InSig(Cx(w, src.module), src.id) EXCEPT !.bound = TRUE, !.nocalls = ~is_defined_bound(d)]
      r == run_bound(cx, d.bound)
      empty == has_entries(r.ty) /\ \A p \in Range(r.ty.entries) : \A i \in DOMAIN p : p[i] = none_sig
      noted == UnlessHeld(Noted(w, r, cx, src.pos), ~empty, "FieldBoundEmpty", src.pos)
      Field(name) == [name |-> name, owner |-> src.id, ty |-> product(w, w.sigs[src.id].ty, r.ty),
                      var |-> d.var, defined |-> is_defined_bound(d), meta |-> FALSE, pos |-> src.pos]
      Add(t, name) ==
        IF \E f \in Range(t.w.sigs[src.id].fields) : t.w.fields[f].name = name
        THEN [t EXCEPT !.w = Raised(@, {"DuplicateField"}, src.pos)]
        ELSE LET id == Len(t.w.fields) + 1
             IN  [w |-> [t.w EXCEPT !.fields = Append(@, Field(name)),
                                    !.sigs[src.id].fields = Append(@, id)],
                  group |-> Append(t.group, id)]
      t == FoldLeft(Add, [w |-> noted, group |-> <<>>], d.names)
  IN  IF d.disj /\ Len(t.group) > 1 THEN [t.w EXCEPT !.sigs[src.id].disj = Append(@, t.group)] ELSE t.w
resolve_fields(w, defined) ==
  LET decls == FlattenSeq([i \in DOMAIN w.srcs |->
                 [j \in DOMAIN w.srcs[i].fields |-> [src |-> w.srcs[i], d |-> w.srcs[i].fields[j]]]])
      Due(x) == is_defined_bound(x.d) = defined
      Add(v, x) == resolve_one_field(v, x.src, x.d)
  IN  FoldLeft(Add, w, SelectSeq(decls, Due))

\* A receiver is the parameter `this`; each parameter's bound sees those
\* before it, and only the functions that are typed already.
Param(name, ty) == [name |-> name, ty |-> ty]
resolve_one_func_decl(w, f) ==
  LET func == w.funcs[f]
      cx0 == [Cx(w, func.module) EXCEPT !.nocalls = TRUE]
      sig == IF func.decl.receiver = <<>> THEN {} ELSE lookup_sig_from(w, func.module, func.decl.receiver)
      this == IF sig = {} THEN IllTyped ELSE w.sigs[The(sig)].ty
      received == IF func.decl.receiver = <<>> THEN [cx |-> cx0, params |-> <<>>, w |-> w]
                  ELSE [cx |-> With(cx0, "this", this), params |-> <<Param("this", this)>>, w |-> w]
      Add(t, d) ==
        LET r == run_bound(t.cx, d.bound)
            fresh == \A p \in Range(t.params) : p.name # d.name
        IN  [cx |-> With(t.cx, d.name, r.ty), params |-> Append(t.params, Param(d.name, r.ty)),
             w |-> UnlessHeld(Noted(t.w, r, t.cx, func.pos), fresh, "DuplicateParam", func.pos)]
      t == FoldLeft(Add, received, func.decl.params)
      ret == run_bound(t.cx, func.returns)
  IN  IF func.pred THEN [t.w EXCEPT !.funcs[f].params = t.params]
      ELSE [Noted(t.w, ret, t.cx, func.pos)
            EXCEPT !.funcs[f].params = t.params, !.funcs[f].ret = ret.ty]
resolve_func_decls(w) == FoldLeftDomain(resolve_one_func_decl, w, w.funcs)

\* Two fields of one name must not belong to signatures one of which is below
\* the other.
Clashes(w) ==
  {<<i, j>> \in (DOMAIN w.fields) \X (DOMAIN w.fields) :
     /\ i < j /\ w.fields[i].name = w.fields[j].name /\ w.fields[i].owner # w.fields[j].owner
     /\ \/ is_same_or_descendent(w, w.fields[i].owner, w.fields[j].owner)
        \/ is_same_or_descendent(w, w.fields[j].owner, w.fields[i].owner)}
reject_name_clash(w) ==
  [w EXCEPT !.errors = @ \cup {Error("FieldNameClash", w.fields[c[2]].pos) : c \in Clashes(w)}]

----------------------------------------------------------------------------
(* The metamodel: a signature for each signature and each field, and their *)
(* relations, where a name may ask for it.                                 *)

alloc_meta_sig(w, m, name, parent, mult, ty) ==
  [w EXCEPT !.sigs = Append(@, [Sig(name, m) EXCEPT
     !.meta = TRUE, !.kind = parent, !.mult = mult, !.abstract = parent = UnderUniv,
     !.label = qualified_name(m, name), !.ty = IF ty = IllTyped THEN UnaryType(Len(w.sigs) + 1) ELSE ty])]
alloc_meta_field(w, owner, name, ty, var) ==
  [w EXCEPT !.fields = Append(@, [name |-> name, owner |-> owner, ty |-> ty, var |-> var,
                                  defined |-> TRUE, meta |-> TRUE, pos |-> Pos(1, 0)]),
            !.sigs[owner].fields = Append(@, Len(w.fields) + 1)]

\* Those that were declared, the first of each name, module by module.
meta_targets(w) ==
  LET First(i) == i = Min({j \in DOMAIN w.srcs : w.srcs[j].module = w.srcs[i].module
                             /\ w.sigs[w.srcs[j].id].name = w.sigs[w.srcs[i].id].name})
      Of(m) == SelectSeq([i \in DOMAIN w.srcs |-> i],
                         LAMBDA i : w.srcs[i].module = m /\ First(i))
      ordered == FlattenSeq([m \in DOMAIN modules |-> Of(m)])
  IN  [i \in DOMAIN ordered |-> w.srcs[ordered[i]]]

\* t is [w, metas: sig -> its signature, fields: sig -> its fields', atoms].
mint_meta_sigs(t0, targets, sigMeta, fieldMeta) ==
  LET Minted(w, m, name, parent, value, var) ==
        LET id == Len(w.sigs) + 1
            made == alloc_meta_sig(w, m, name, Kind1("Prim", <<parent>>, FALSE), "One", IllTyped)
        IN  alloc_meta_field(made, id, "value", product(w, UnaryType(id), value), var)
      Atom(w, var) == [id |-> Len(w.sigs) + 1, var |-> var]
      AddField(u, f) ==
        LET src == u.src field == u.t.w.fields[f]
        IN  [u EXCEPT
              !.t.w = Minted(@, src.module, u.t.w.sigs[src.id].name \o "$" \o field.name,
                             fieldMeta, field.ty, u.t.w.sigs[src.id].var),
              !.t.fields[src.id] = Append(@, Len(u.t.w.sigs) + 1),
              !.t.atoms = Append(@, Atom(u.t.w, field.var))]
      Add(t, src) ==
        LET sig == t.w.sigs[src.id]
            u == [t EXCEPT !.w = Minted(@, src.module, sig.name \o "$", sigMeta, sig.ty, sig.var),
                           !.metas = (src.id :> (Len(t.w.sigs) + 1)) @@ @,
                           !.fields = (src.id :> <<>>) @@ @,
                           !.atoms = Append(@, Atom(t.w, sig.var))]
        IN  FoldLeft(AddField, [t |-> u, src |-> src], sig.fields).t
  IN  FoldLeft(Add, t0, targets)

\* What each has: its own fields, its parent, its own and its descendants'.
mint_meta_relations(t, targets) ==
  LET Union1(w, owner, name, members) ==
        alloc_meta_field(w, owner, name,
          IF members = <<>> THEN ProductType(<<owner, univ>>)
          ELSE Reduced(w, [i \in DOMAIN members |-> <<owner, members[i]>>]), FALSE)
      Below(src) == LET Is(o) == o.id # src.id /\ is_same_or_descendent(t.w, o.id, src.id)
                    IN  SelectSeq(targets, Is)
      Parent(src) == LET kind == t.w.sigs[src.id].kind
                     IN  IF kind.k = "Prim" /\ kind.parents # <<>> /\ kind.parents[1] \in DOMAIN t.metas
                         THEN <<t.metas[kind.parents[1]]>> ELSE <<>>
      Add(w, src) ==
        LET own == t.fields[src.id]
            below == FlattenSeq([i \in DOMAIN Below(src) |-> t.fields[Below(src)[i].id]])
            v1 == Union1(w, t.metas[src.id], "fields", own)
            v2 == Union1(v1, t.metas[src.id], "parent", Parent(src))
        IN  Union1(v2, t.metas[src.id], "subfields", own \o below)
  IN  FoldLeft(Add, t.w, targets)

alloc_meta_subset(w, name, members) ==
  LET parents == IF members = <<>> THEN <<univ>> ELSE members
  IN  alloc_meta_sig(w, 1, name, Kind1("Subset", parents, members # <<>>), "",
                     Reduced(w, FlattenSeq([i \in DOMAIN parents |-> w.sigs[parents[i]].ty.entries])))

synthesize_meta(w) ==
  LET targets == meta_targets(w)
      sigMeta == Len(w.sigs) + 1
      both == alloc_meta_sig(alloc_meta_sig(w, 1, "sig$", UnderUniv, "", IllTyped),
                             1, "field$", UnderUniv, "", IllTyped)
      t == mint_meta_sigs([w |-> both, metas |-> <<>>, fields |-> <<>>, atoms |-> <<>>],
                          targets, sigMeta, sigMeta + 1)
      related == mint_meta_relations(t, targets)
      Ids(var) == LET Is(a) == a.var = var
                      atoms == SelectSeq(t.atoms, Is)
                  IN  [i \in DOMAIN atoms |-> atoms[i].id]
  IN  IF ~w.meta THEN w
      ELSE alloc_meta_subset(alloc_meta_subset(related, "static$", Ids(FALSE)), "var$", Ids(TRUE))

----------------------------------------------------------------------------
(* Bodies and commands.                                                    *)

resolve_formula(w, m, root, body, pos) ==
  LET cx == IF root = <<>> THEN Cx(w, m) ELSE InSig(Cx(w, m), root[1])
  IN  Noted(w, run_formula(cx, body), cx, pos)

\* A function's body has an arity its declaration has.
resolve_func_body(w, f) ==
  LET func == w.funcs[f]
      Bind(cx, p) == With(cx, p.name, p.ty)
      cx == FoldLeft(Bind, Cx(w, func.module), func.params)
      r == IF func.pred THEN run_formula(cx, func.decl.body) ELSE run_set(cx, func.decl.body)
      fit == is_error(r.ty) \/ is_error(func.ret) \/ ~has_entries(func.ret)
               \/ has_common_arity(r.ty, func.ret)
      apart == has_tuple(func.ret) /\ has_tuple(r.ty) /\ ~intersects(w, r.ty, func.ret)
  IN  IF func.pred THEN Noted(w, r, cx, func.pos)
      ELSE UnlessHeld(Noted(w, [r EXCEPT !.warns = IF apart THEN Append(@, "ReturnDisjoint") ELSE @],
                            cx, func.pos), fit, "FuncBodyArity", func.pos)

resolve_bodies(w) ==
  LET Free(v, x) == resolve_formula(v, x.m, <<>>, x.para.body, x.pos)
      Appended(v, src) ==
        IF v.sigs[src.id].fact = <<>> THEN v
        ELSE resolve_formula(v, src.module, <<src.id>>, v.sigs[src.id].fact[1], src.pos)
      funcs == FoldLeftDomain(resolve_func_body, w, w.funcs)
  IN  FoldLeft(Appended, FoldLeft(Free, funcs, Paras({"Fact", "Assert"})), w.srcs)

\* What a command names: its module's own before those of the modules it can
\* reach; the first assertion there is, all the functions there are.
OwnFirst(w, m) == <<m>> \o SelectSeq(w.reachable[m], LAMBDA r : r # m)
find_assert(w, m, segs) ==
  LET Having(r) == \E a \in Range(w.asserts) : a.module = r /\ a.name = Last(segs)
      order == IF Len(segs) > 1 THEN SetToSeq(Landing(m, segs)) ELSE OwnFirst(w, m)
      holding == SelectSeq(order, Having)
  IN  IF holding = <<>> THEN {} ELSE {[module |-> holding[1], name |-> Last(segs)]}
lookup_run_target(w, m, segs) ==
  LET own == FuncsIn(w, m, segs[1])
  IN  IF Len(segs) > 1 THEN UNION {FuncsIn(w, l, Last(segs)) : l \in Landing(m, segs)}
      ELSE IF own # {} THEN own
      ELSE UNION {FuncsIn(w, r, segs[1]) : r \in Range(w.reachable[m])}

\* A signature that varies takes no exact scope, and none at all below the
\* top.
check_scope_sig(w, s, exact) ==
  (IF w.sigs[s].var /\ exact THEN {"ExactScopeOnVar"} ELSE {})
    \cup (IF w.sigs[s].var /\ w.sigs[s].kind # UnderUniv THEN {"MutableSigScoped"} ELSE {})

\* Of the steps: one more at a time; without an end, from one; and an exact
\* range is its beginning.
NoEnd == -1
Same1 == 0
steps_scope(e) ==
  [min |-> IF e.end = Same1 /\ ~e.exact THEN 0 ELSE e.start,
   max |-> IF e.end = Same1 \/ (e.exact /\ e.end # NoEnd) THEN e.start ELSE e.end,
   errors |-> (IF e.incr > 1 THEN {"StepsIncrementMustBeOne"} ELSE {})
                \cup (IF e.end = NoEnd /\ e.start # 1 THEN {"UnboundedStepsMustStartAtOne"} ELSE {})]

resolve_one_command(w, x) ==
  LET cmd == x.para
      named == cmd.block = <<>>
      target == IF ~named THEN {} ELSE IF cmd.check THEN find_assert(w, x.m, cmd.target)
                ELSE lookup_run_target(w, x.m, cmd.target)
      v == IF named THEN UnlessHeld(w, target # {}, "CommandTargetNotFound", x.pos)
           ELSE resolve_formula(w, x.m, <<>>, cmd.block[1], x.pos)
      Add(t, e) ==
        LET sig == lookup_sig_from(w, x.m, e.target)
        IN  IF e.target = <<"steps">>
            THEN [t EXCEPT !.w = Raised(@, steps_scope(e).errors, x.pos), !.steps = <<steps_scope(e)>>]
            ELSE IF sig = {} THEN [t EXCEPT !.w = Raised(@, {"ScopeSigNotFound"}, x.pos)]
            ELSE [t EXCEPT !.w = Raised(@, check_scope_sig(w, The(sig), e.exact), x.pos),
                           !.scopes = Append(@, [sig |-> The(sig), scope |-> e.start, exact |-> e.exact])]
      t == FoldLeft(Add, [w |-> v, scopes |-> <<>>, steps |-> <<>>], cmd.scopes)
  IN  [t.w EXCEPT !.commands = Append(@, [module |-> x.m, check |-> cmd.check, target |-> target,
                                          scopes |-> t.scopes, steps |-> t.steps])]
resolve_commands(w) == FoldLeft(resolve_one_command, w, Paras({"Cmd"}))

----------------------------------------------------------------------------
(* What the bounds are told of orders.                                     *)

\* The conjuncts of a fact, as it was read.
RECURSIVE scan_ordering_conjuncts(_)
scan_ordering_conjuncts(as) ==
  CASE as.k = "Block" -> UNION {scan_ordering_conjuncts(a) : a \in Range(as.args)}
    [] as.k = "Binary" /\ as.op = "And" -> scan_ordering_conjuncts(as.l) \cup scan_ordering_conjuncts(as.r)
    [] as.k = "TotalOrder" -> {as.args}
    [] OTHER -> {}

OwnField(w, s, a) == a.k = "Chosen" /\ a.what.k = "Field" /\ a.what.this /\ w.fields[a.what.id].owner = s
match_total_order(w, s, args) ==
  /\ Len(args) = 3 /\ args[1].k = "Chosen" /\ args[1].what.k = "Sig"
  /\ OwnField(w, s, args[2]) /\ OwnField(w, s, args[3])
collect_ordering_instances(w) ==
  LET facts == {t \in Range(w.typed) : t.root # <<>> /\ t.as.ty.bool /\ w.sigs[t.root[1]].mult = "One"}
  IN  {[elem |-> x.args[1].what.id, first |-> x.args[2].what.id, next |-> x.args[3].what.id] :
         x \in {y \in UNION {{[root |-> t.root[1], args |-> a] : a \in scan_ordering_conjuncts(t.as)} :
                               t \in facts} : match_total_order(w, y.root, y.args)}}

\* Every command takes the signatures that a parameter asks to be exact.
resolve_ordering(w) ==
  [w EXCEPT
    !.ordering = collect_ordering_instances(w),
    !.exact = @ \cup UNION {{w.params[m][p.param] :
                 p \in {q \in Range(modules[m].params) : q.exact /\ q.param \in DOMAIN w.params[m]}} :
               m \in DOMAIN modules}]

----------------------------------------------------------------------------
(* The phases.                                                             *)

ResolveInit == LoadInit /\ world = [at |-> 0]

\* A phase is done: on to the next, or back with the first of its errors.
Reaches(w, next) ==
  /\ world' = w
  /\ IF w.errors = {} THEN phase' = next /\ refused' = refused
     ELSE /\ phase' = "refused"
          /\ \E e \in first_by_position(w.errors) :
               refused' = [kind |-> e.kind, file |-> loaded[e.pos.file]]
  /\ UNCHANGED <<project, loaded, modules, stack>>

Declare ==
  /\ phase = "loaded"
  /\ world' = compute_meta_gate(resolve_params(register_sigs(NewWorld)))
  /\ phase' = "declared"
  /\ UNCHANGED <<project, loaded, modules, stack, refused>>

Arranged(t) ==
  IF t.stuck = {} THEN Reaches(t.w, "arranged")
  ELSE /\ world' = [t.w EXCEPT !.at = The(t.stuck)[1]]
       /\ phase' = "walking"
       /\ UNCHANGED <<project, loaded, modules, stack, refused>>
Arrange == phase = "declared" /\ Arranged(resolve_sig_hierarchy(world))

\* The walk up a way that has no end.
WalkUp ==
  /\ phase = "walking"
  /\ world' = [world EXCEPT !.at = world.sigs[world.at].kind.parents[1]]
  /\ UNCHANGED loadVars

Register == phase = "arranged" /\ Reaches(register_members(world), "named")

\* What is typed depends on nothing but the world that is typed, so a step
\* only says that it is; each phase is the one before it, unless that met
\* errors.
UnlessIll(w, next) == IF w.errors = {} THEN next ELSE w
MembersTyped(w) == resolve_fields(resolve_func_decls(resolve_fields(w, FALSE)), TRUE)
NamesChecked(w) == LET t == MembersTyped(w) IN UnlessIll(t, reject_name_clash(synthesize_meta(t)))
BodiesTyped(w) == UnlessIll(w, resolve_bodies(w))
CommandsTyped(w) == UnlessIll(w, resolve_ordering(resolve_commands(w)))
TheAnswer(w) == CommandsTyped(BodiesTyped(NamesChecked(w)))
Type ==
  /\ phase = "named"
  /\ phase' = "typed"
  /\ UNCHANGED <<project, loaded, modules, stack, refused, world>>

\* Nothing follows an answer.
Due == phase \notin {"typed", "refused"}
Answered == ~Due /\ UNCHANGED resolveVars

ResolveNext ==
  \/ Load /\ UNCHANGED world
  \/ Declare \/ Arrange \/ WalkUp \/ Register \/ Type
  \/ Answered

\* One thread runs it to the end. This is WF_resolveVars(ResolveNext) with its
\* ENABLED written out: that no other state is the last is what TLC's search
\* for deadlocks shows.
Runs == []<>~Due \/ []<><<ResolveNext>>_resolveVars
ResolveSpec == ResolveInit /\ [][ResolveNext]_resolveVars /\ Runs

----------------------------------------------------------------------------
(* What an expression, as it was read, can hold.  A type is measured by    *)
(* the tuples it allows, each signature having one atom that is its own    *)
(* alone; and an expression by all the tuples it can have when every field *)
(* holds whatever its type allows.                                         *)

Compose(s, t) ==
  UNION {{Front(x) \o Tail(y) : y \in {z \in t : z[1] = Last(x)}} : x \in s}
Crossed(s, t) == {x \o y : x \in s, y \in t}
RECURSIVE Chained(_, _)
Chained(s, all) == LET more == all \cup Compose(s, all) IN IF more = all THEN all ELSE Chained(s, more)

Every(w) == {<<a>> : a \in ColumnAtoms(w, univ)}
Pairs(w) == {x \o x : x \in Every(w)}
Ints == {<<int_sig>>}
ThisValue(w, root) == IF root = <<>> THEN {} ELSE Allowed(w, w.sigs[root[1]].ty)

RECURSIVE Value(_, _, _, _)
Picked(w, root, env, what) ==
  CASE what.k = "Var" -> env[what.name]
    [] what.k = "Sig" -> Allowed(w, w.sigs[what.id].ty)
    [] what.k = "Field" -> IF what.this THEN Compose(ThisValue(w, root), Allowed(w, w.fields[what.id].ty))
                           ELSE Allowed(w, w.fields[what.id].ty)
    [] what.k = "Call" -> Allowed(w, w.funcs[what.id].ret)
    [] what.k = "Empty" -> {}
Bound1(w, root, env, decls) ==
  LET Bind(e, d) == (d.name :> Value(w, root, e, d.bound)) @@ e IN FoldLeft(Bind, env, decls)
Value(w, root, env, as) ==
  LET L == Value(w, root, env, as.l)
      R == Value(w, root, env, as.r)
      E == Value(w, root, env, as.e)
  IN  CASE as.k = "Num" -> Ints
        [] as.k = "Const" -> (CASE as.of = "none" -> {} [] as.of = "univ" -> Every(w) [] as.of = "iden" -> Pairs(w))
        [] as.k = "This" -> ThisValue(w, root)
        [] as.k = "Chosen" -> Picked(w, root, env, as.what)
        [] as.k = "Unary" ->
             (CASE as.op \in {"Card", "IntOf"} -> Ints
                [] as.op = "SeqOf" -> Crossed({<<seq_int>>}, E)
                [] as.op = "Transpose" -> {Reverse(x) : x \in E}
                [] as.op = "Closure" -> Chained(E, E)
                [] as.op = "ReflexiveClosure" -> Chained(E, E) \cup Pairs(w)
                [] OTHER -> E)
        [] as.k = "Binary" ->
             (CASE as.op \in {"Union", "Override"} -> L \cup R
                [] as.op = "Intersect" -> L \cap R
                [] as.op = "Diff" -> L
                [] as.op = "DomRestrict" -> {x \in R : <<x[1]>> \in L}
                [] as.op = "RanRestrict" -> {x \in L : <<Last(x)>> \in R}
                [] as.op = "IntAdd" -> Ints)
        [] as.k = "Join" -> Compose(L, R)
        [] as.k = "Arrow" -> Crossed(L, R)
        [] as.k = "Called" -> Allowed(w, as.ty)
        [] as.k = "Ite" -> L \cup R
        [] as.k = "Let" ->
             Value(w, root, (as.name :> Value(w, root, env, as.value)) @@ env, as.body)
        [] as.k = "Binder" /\ as.op = "Sum" -> Ints
        [] as.k = "Binder" /\ as.op = "Comprehension" ->
             LET inner == Bound1(w, root, env, as.decls)
                 Times(s, d) == Crossed(s, inner[d.name])
             IN  FoldLeft(Times, inner[as.decls[1].name], Tail(as.decls))

\* An expression and all within it, each with what its names stand for there.
RECURSIVE Parts(_, _, _, _)
Parts(w, root, env, as) ==
  LET In(x) == Parts(w, root, env, x)
      below ==
        CASE as.k = "Unary" -> In(as.e)
          [] as.k \in {"Binary", "Join", "Arrow", "Compare"} -> In(as.l) \cup In(as.r)
          [] as.k = "Ite" -> In(as.c) \cup In(as.l) \cup In(as.r)
          [] as.k \in {"Called", "TotalOrder", "Block"} -> UNION {In(a) : a \in Range(as.args)}
          [] as.k = "Let" -> In(as.value)
               \cup Parts(w, root, (as.name :> Value(w, root, env, as.value)) @@ env, as.body)
          [] as.k = "Binder" -> Parts(w, root, Bound1(w, root, env, as.decls), as.body)
               \cup UNION {Parts(w, root, Bound1(w, root, env, SubSeq(as.decls, 1, i - 1)),
                                 as.decls[i].bound) : i \in DOMAIN as.decls}
          [] OTHER -> {}
  IN  below \cup {[env |-> env, as |-> as]}
EnvValues(w, env) == [name \in DOMAIN env |-> Allowed(w, env[name])]

\* A field typed as this atom's own, and recorded as the whole.
Detached(w, as) ==
  as.k = "Chosen" /\ as.what.k = "Field" /\ ~as.what.this /\ as.ty # w.fields[as.what.id].ty

----------------------------------------------------------------------------
(* Parameters and the hierarchy.                                           *)

Placed == phase \in {"arranged", "named", "typed"}
Named1(name) == {s \in DOMAIN world.sigs : world.sigs[s].name = name /\ ~world.sigs[s].builtin}

\* A module's parameter is the signature that the argument names, where the
\* project has one signature of that name and the opener can see it
\* (sigs.rs: resolve_params).
ArgumentsReachTheirModule ==
  Placed => \A m \in DOMAIN modules : \A e \in Range(modules[m].opens) : \A i \in DOMAIN e.args :
    LET name == Last(e.args[i])
        p == modules[e.target].params[i].param
        seen == {s \in Named1(name) : world.sigs[s].module \in Range(world.reachable[m])}
    IN  Cardinality(Named1(name)) = 1 /\ seen # {} /\ Len(e.args[i]) = 1
          => p \in DOMAIN world.params[e.target] /\ world.params[e.target][p] \in seen

Parents(s) == Range(world.sigs[s].kind.parents)
RECURSIVE Ancestors(_)
Ancestors(ss) == LET more == ss \cup UNION {Parents(s) : s \in ss} IN IF more = ss THEN ss ELSE Ancestors(more)

\* Once the hierarchy stands, no signature is above itself, each is below
\* univ, one that extends extends no subset (but one declared after it), and
\* a subset has the type of all its parents together (sigs.rs:
\* resolve_one_sig).
InheritanceIsAForest ==
  Placed => \A s \in DOMAIN world.sigs \ {univ} :
    LET kind == world.sigs[s].kind
    IN  /\ s \notin Ancestors(Parents(s)) /\ univ \in Ancestors(Parents(s))
        /\ kind.k = "Prim" => \A p \in Parents(s) : world.sigs[p].kind.k = "Prim" \/ p > s
        /\ kind.k = "Subset" =>
             Allowed(world, world.sigs[s].ty) = UNION {Allowed(world, world.sigs[p].ty) : p \in Parents(s)}

----------------------------------------------------------------------------
(* Types.                                                                  *)

Known(w) == {w.sigs[s].ty : s \in DOMAIN w.sigs} \cup {w.fields[f].ty : f \in DOMAIN w.fields}
Single(t) == Cardinality({Len(p) : p \in Range(t.entries)}) = 1
ArityOf(t) == Len(t.entries[1])

\* The operations on types are those on the relations they allow: a tuple is
\* in the one as it is in the other (ty.rs).
ExactIn(w) ==
  LET A(t) == Allowed(w, t)
  IN  \A t, u \in {k \in Known(w) : Single(k)} :
        /\ A(union(w, t, u)) = A(t) \cup A(u)
        /\ A(intersect(w, t, u)) = A(t) \cap A(u)
        /\ intersects(w, t, u) <=> A(t) \cap A(u) # {}
        /\ has_tuple(t) <=> A(t) # {}
        /\ ArityOf(t) + ArityOf(u) > 2 => A(join(w, t, u)) = Compose(A(t), A(u))
        /\ ArityOf(t) + ArityOf(u) < 4 => A(product(w, t, u)) = Crossed(A(t), A(u))
        /\ ArityOf(t) = 1 => /\ A(domain_restrict(w, u, t)) = {x \in A(u) : <<x[1]>> \in A(t)}
                             /\ A(range_restrict(w, u, t)) = {x \in A(u) : <<Last(x)>> \in A(t)}
        /\ ArityOf(t) = 2 => /\ A(transpose(w, t)) = {Reverse(x) : x \in A(t)}
                             /\ A(closure(w, t)) = Chained(A(t), A(t))
TypesAreExact == [][Type => LET w == NamesChecked(world) IN w.errors = {} => ExactIn(w)]_resolveVars

\* What an expression without an error can hold, each name in it chosen as it
\* was and every field full, its type allows, and so does the type of each
\* part of it (expr.rs: resolve; but for a field that is recorded otherwise
\* than typed).
SoundIn(w) ==
  \A t \in {u \in Range(w.typed) : u.ok} :
    \A x \in Parts(w, t.root, EnvValues(w, t.env), t.as) :
      x.as.ty.bool
        \/ \E y \in Parts(w, t.root, x.env, x.as) : Detached(w, y.as)
        \/ Value(w, t.root, x.env, x.as) \subseteq Allowed(w, x.as.ty)
TypesAreSound == [][Type => SoundIn(TheAnswer(world))]_resolveVars

----------------------------------------------------------------------------
(* The end.                                                                *)

\* A subset lists, beside another signature, one that has a cycle above it.
SigParas == LET p == Text(project.root).paras IN {p[i] : i \in {j \in DOMAIN p : p[j].k = "Sig"}}
OverNames(n, kinds) ==
  UNION {{Last(q) : q \in Range(d.parent.of)} :
           d \in {e \in SigParas : e.parent.k \in kinds /\ n \in Range(e.names)}}
RECURSIVE UpFrom(_, _)
UpFrom(ns, kinds) ==
  LET more == ns \cup UNION {OverNames(n, kinds) : n \in ns}
  IN  IF more = ns THEN ns ELSE UpFrom(more, kinds)
Circling(n) == n \in UpFrom(OverNames(n, {"Extends"}), {"Extends"})
Knotted ==
  \E d \in SigParas : d.parent.k = "Subset" /\ Len(d.parent.of) > 1
    /\ \E n \in UpFrom({Last(q) : q \in Range(d.parent.of)}, {"Extends", "Subset"}) : Circling(n)

\* Every project is accepted or refused in the end (mod.rs: resolve; but for
\* a cycle of inheritance that a subset's type is made from).
ResolutionEnds == Knotted \/ <>~Due

\* What the docs say of field names: no two fields of one name belong to
\* signatures that can have an atom in common.
ApartIn(w) ==
  \A i, j \in DOMAIN w.fields :
    i # j /\ w.fields[i].name = w.fields[j].name =>
      {x[1] : x \in Allowed(w, w.fields[i].ty)} \cap {x[1] : x \in Allowed(w, w.fields[j].ty)} = {}
OverlappingFieldsClash ==
  [][Type => LET w == TheAnswer(world) IN w.errors = {} => ApartIn(w)]_resolveVars
=============================================================================
