-------------------------------- MODULE Types --------------------------------
(***************************************************************************)
(* The types of expressions (als-types: ty.rs). A type is a union of       *)
(* products of signatures, kept as short as subsumption allows, and marked *)
(* when it is a formula's or a primitive integer's. A product whose first  *)
(* column is `none` is empty and yet has its arity: only a type with no    *)
(* product at all is an error.                                             *)
(*                                                                         *)
(* The operators take the world, w, for the signatures of the columns:     *)
(* w.sigs[i].kind is [k, parents, exact], k "Prim" or "Subset".            *)
(***************************************************************************)
EXTENDS Integers, SequencesExt

\* The signatures every world begins with.
univ == 1
int_sig == 2
seq_int == 3
string_sig == 4
none_sig == 5

RECURSIVE Climb(_, _, _)
\* The signatures met on the way up from one, through no subset; once around
\* when the way is a cycle.
Climb(w, s, met) ==
  LET kind == w.sigs[s].kind
  IN  IF kind.k # "Prim" \/ kind.parents = <<>> \/ kind.parents[1] \in met THEN met
      ELSE Climb(w, kind.parents[1], met \cup {kind.parents[1]})
Above(w, s) == Climb(w, s, {})

Settled(sub, sup) == sub = sup \/ sup = univ \/ sub = none_sig \/ sub = univ \/ sup = none_sig
is_same_or_descendent(w, sub, sup) ==
  IF Settled(sub, sup) THEN sub = sup \/ sup = univ \/ sub = none_sig
  ELSE sup \in Above(w, sub)

\* The question that is never answered: the way up is a cycle, and what is
\* looked for is not on it.
Endless(w, sub, sup) ==
  /\ ~Settled(sub, sup) /\ sup \notin Above(w, sub)
  /\ \E s \in Above(w, sub) : s \in Above(w, s)

----------------------------------------------------------------------------
(* One product.                                                            *)

Hollow(n) == [i \in 1..n |-> none_sig]
IsHollow(p) == p = <<>> \/ p[1] = none_sig

product_subtype(w, sub, sup) ==
  Len(sub) = Len(sup) /\ \A i \in DOMAIN sub : is_same_or_descendent(w, sub[i], sup[i])

col_meet(w, a, b) ==
  IF is_same_or_descendent(w, a, b) THEN a
  ELSE IF is_same_or_descendent(w, b, a) THEN b ELSE none_sig

meet_columns(w, a, b) ==
  IF IsHollow(a) THEN a ELSE IF IsHollow(b) THEN b
  ELSE LET cols == [i \in DOMAIN a |-> col_meet(w, a[i], b[i])]
       IN  IF none_sig \in Range(cols) THEN Hollow(Len(a)) ELSE cols

products_intersect(w, a, b) == \A i \in DOMAIN a : col_meet(w, a[i], b[i]) # none_sig

\* Two columns meet only where the first is the narrower.
JoinedUpwards(w, a, b) ==
  IF ~is_same_or_descendent(w, Last(a), b[1]) THEN Hollow(Len(a) + Len(b) - 2)
  ELSE Front(a) \o Tail(b)

join_products(w, a, b) ==
  IF col_meet(w, Last(a), b[1]) = none_sig THEN Hollow(Len(a) + Len(b) - 2)
  ELSE Front(a) \o Tail(b)

product_products(w, a, b) ==
  IF IsHollow(a) \/ IsHollow(b) THEN Hollow(Len(a) + Len(b)) ELSE a \o b

column_restrict(w, a, b, i) ==
  LET c == col_meet(w, a[i], b)
  IN  IF IsHollow(a) THEN a
      ELSE IF c = none_sig THEN Hollow(Len(a)) ELSE [a EXCEPT ![i] = c]

----------------------------------------------------------------------------
(* Types.                                                                  *)

IllTyped == [bool |-> FALSE, small |-> FALSE, entries |-> <<>>]
FormulaType == [IllTyped EXCEPT !.bool = TRUE]
ProductType(cols) == [IllTyped EXCEPT !.entries = <<cols>>]
UnaryType(s) == ProductType(<<s>>)
SmallInt == [UnaryType(int_sig) EXCEPT !.small = TRUE]

is_error(t) == ~t.bool /\ ~t.small /\ t.entries = <<>>
has_entries(t) == t.entries # <<>>
has_tuple(t) == \E p \in Range(t.entries) : ~IsHollow(p)
has_arity(t, k) == k > 0 /\ \E p \in Range(t.entries) : Len(p) = k
has_common_arity(t, u) == \E p \in Range(t.entries) : has_arity(u, Len(p))
has_no_tuple(t) == ~has_tuple(t)
is_int(t) == \E p \in Range(t.entries) : p = <<int_sig>>

\* A product is left out where a wider one is there, and takes the place of
\* the narrower ones.
WithProduct(w, entries, p) ==
  IF p = <<>> \/ \E e \in Range(entries) : product_subtype(w, p, e) THEN entries
  ELSE LET Kept1(e) == ~product_subtype(w, e, p)
       IN  Append(SelectSeq(entries, Kept1), p)
Reduced(w, products) ==
  LET Add(entries, p) == WithProduct(w, entries, p)
  IN  [IllTyped EXCEPT !.entries = FoldLeft(Add, <<>>, products)]

\* The products of pairs of two types, in order, where the pair is fit.
Paired(t, u, Fit(_, _), Of(_, _)) ==
  FlattenSeq([i \in DOMAIN t.entries |->
    LET Fits(q) == Fit(t.entries[i], q)
        fitting == SelectSeq(u.entries, Fits)
    IN  [j \in DOMAIN fitting |-> Of(t.entries[i], fitting[j])]])

merge(w, t, u) ==
  [Reduced(w, t.entries \o u.entries) EXCEPT !.bool = t.bool \/ u.bool]
remove_bool_and_int(t) ==
  IF t.small /\ t.entries = <<>> THEN UnaryType(int_sig)
  ELSE [IllTyped EXCEPT !.entries = t.entries]
union(w, t, u) == Reduced(w, t.entries \o u.entries)
pick_common_arity(w, t, u) ==
  LET Shared(p) == has_arity(u, Len(p)) IN Reduced(w, SelectSeq(t.entries, Shared))
union_with_common_arity(w, t, u) ==
  LET Shared(p) == has_arity(u, Len(p)) Shared2(p) == has_arity(t, Len(p))
  IN  Reduced(w, SelectSeq(t.entries, Shared) \o SelectSeq(u.entries, Shared2))
extract(w, t, k) ==
  LET OfArity(p) == Len(p) = k IN Reduced(w, SelectSeq(t.entries, OfArity))
intersect(w, t, u) ==
  LET Alike(p, q) == Len(p) = Len(q) Meet(p, q) == meet_columns(w, p, q)
  IN  Reduced(w, Paired(t, u, Alike, Meet))
join(w, t, u) ==
  LET Joinable(p, q) == Len(p) > 1 \/ Len(q) > 1 Of(p, q) == join_products(w, p, q)
  IN  Reduced(w, Paired(t, u, Joinable, Of))
product(w, t, u) ==
  LET Whichever(p, q) == TRUE Of(p, q) == product_products(w, p, q)
  IN  Reduced(w, Paired(t, u, Whichever, Of))
transpose(w, t) ==
  LET Binary2(p) == Len(p) = 2 pairs == SelectSeq(t.entries, Binary2)
  IN  Reduced(w, [i \in DOMAIN pairs |-> Reverse(pairs[i])])
domain_restrict(w, t, dom) ==
  LET Unary1(b, a) == Len(b) = 1 Of(b, a) == column_restrict(w, a, b[1], 1)
  IN  Reduced(w, Paired(dom, t, Unary1, Of))
range_restrict(w, t, ran) ==
  LET Unary1(b, a) == Len(b) = 1 Of(b, a) == column_restrict(w, a, b[1], Len(a))
  IN  Reduced(w, Paired(ran, t, Unary1, Of))

RECURSIVE Closing1(_, _, _, _)
\* Joined on until nothing is added.
Closing1(w, step, power, sum) ==
  LET next == join(w, power, step) wider == union_with_common_arity(w, sum, next)
  IN  IF wider = sum THEN sum ELSE Closing1(w, step, next, wider)
closure(w, t) == LET two == extract(w, t, 2) IN Closing1(w, two, two, two)

intersects(w, t, u) ==
  \E p \in Range(t.entries), q \in Range(u.entries) :
    ~IsHollow(p) /\ ~IsHollow(q) /\ Len(p) = Len(q) /\ products_intersect(w, p, q)
is_subtype_of(w, t, u) ==
  \A p \in Range(t.entries) : IsHollow(p) \/ \E q \in Range(u.entries) : product_subtype(w, p, q)

----------------------------------------------------------------------------
(* What a type says of the values it is given to.                          *)

\* The signatures of a column, taken as the atoms that are theirs alone.
ColumnAtoms(w, c) ==
  {s \in DOMAIN w.sigs : s # none_sig /\ w.sigs[s].kind.k = "Prim" /\ is_same_or_descendent(w, s, c)}

RECURSIVE Tuples(_, _)
Tuples(w, cols) ==
  IF cols = <<>> THEN {<<>>}
  ELSE {<<a>> \o x : a \in ColumnAtoms(w, Head(cols)), x \in Tuples(w, Tail(cols))}
\* The tuples of such atoms that a type allows.
Allowed(w, t) == UNION {Tuples(w, p) : p \in Range(t.entries)}
=============================================================================
