------------------------------- MODULE Parser -------------------------------
(***************************************************************************)
(* The parser of als-syntax: the four rewrites of the token stream between *)
(* the lexer and the parser (cook.rs), each a pass over the whole stream,  *)
(* in the order F1 to F4; then recursive descent with binding powers over  *)
(* the cooked tokens (parser.rs, prec.rs).                                 *)
(*                                                                         *)
(* A token is a tuple: its kind, then the text of an identifier, the value *)
(* of a number, the two sides of an annotated arrow or the quantifier.     *)
(*                                                                         *)
(* `c` is what the parser carries down: the tokens, how deep its own       *)
(* recursion is, and how many links lie on the path to the root. A result  *)
(* is a tree and the position after it, or the reason there is none.       *)
(***************************************************************************)
EXTENDS Integers, Sequences, TLC

CONSTANTS MaxExprDepth,     \* MAX_EXPR_DEPTH
          MaxAstPath,       \* MAX_AST_PATH
          Dollar            \* the identifiers that contain a `$`

ASSUME LimitsAssumption == MaxExprDepth \in Nat /\ MaxAstPath \in Nat

----------------------------------------------------------------------------
(* The tokens, and the four rewrites of their stream (cook.rs).            *)

T(kind)     == <<kind>>
Id(text)    == <<"Ident", text>>
Number(n)   == <<"Number", n>>
ArrowMult(l, r) == <<"ArrowMult", l, r>>
Quantifier(q)   == <<"Quantifier", q>>

\* The kind of the i-th token; past either end of the stream, no kind at all.
Kind(ts, i) == IF i \in DOMAIN ts THEN ts[i][1] ELSE "Nothing"

\* The tokens that `Step` emits at each place, `Step(i)` being how many of the
\* source's tokens it consumes there and what it leaves for them.
Rewrite(ts, Step(_)) ==
  LET from[i \in 1..(Len(ts) + 1)] ==
        IF i > Len(ts) THEN <<>>
        ELSE Step(i).emits \o from[i + Step(i).takes]
  IN  from[1]

Keep(ts, i) == [takes |-> 1, emits |-> <<ts[i]>>]

\* F1: `label : run target` is read as `run label target`.
reorder_command_labels(ts) ==
  LET labels(i) == /\ Kind(ts, i) = "Ident"
                   /\ Kind(ts, i + 1) = "Colon"
                   /\ Kind(ts, i + 2) \in {"Run", "Check"}
                   /\ Kind(ts, i + 3) \in {"Ident", "LBrace"}
  IN  Rewrite(ts, LAMBDA i: IF labels(i)
                            THEN [takes |-> 3, emits |-> <<ts[i + 2], ts[i]>>]
                            ELSE Keep(ts, i))

Negatable == {"In", "Equals", "Lt", "Lte", "Gt", "Gte"}
FunNames  == {"add", "sub", "mul", "div", "rem", "min", "max", "next"}
Sides     == {"One", "Lone", "Some", "Set"}

\* The side an arrow's annotation contributes: `set` is no annotation.
arrow_side(kind) == IF kind = "Set" THEN "None" ELSE kind

\* The token of an arrow with these annotations.
arrow_token(l, r) ==
  IF l = "None" /\ r = "None" THEN T("Arrow") ELSE ArrowMult(l, r)

\* A mutant: the annotation after an arrow is kept for its left side too.
MergeArrowOneSide(ts, i, taken, l) ==
  LET annotated == Kind(ts, i + 1) \in Sides
      r == IF annotated THEN arrow_side(Kind(ts, i + 1)) ELSE l
  IN  [takes |-> taken + (IF annotated THEN 2 ELSE 1),
       emits |-> <<arrow_token(l, r)>>]

\* An arrow at i, its left annotation already read.
MergeArrow(ts, i, taken, l) ==
  LET annotated == Kind(ts, i + 1) \in Sides
      r == IF annotated THEN arrow_side(Kind(ts, i + 1)) ELSE "None"
  IN  [takes |-> taken + (IF annotated THEN 2 ELSE 1),
       emits |-> <<arrow_token(l, r)>>]

\* F2: the pairs and triples of tokens that are one operator or one name.
merge_tokens(ts) ==
  LET named(i, names) == /\ Kind(ts, i + 1) = "Slash"
                         /\ Kind(ts, i + 2) = "Ident"
                         /\ ts[i + 2][2] \in names
      merge(i) ==
        CASE Kind(ts, i) = "Not" /\ Kind(ts, i + 1) \in Negatable
               -> [takes |-> 2, emits |-> <<<<"NotCmp", Kind(ts, i + 1)>>>>]
          [] Kind(ts, i) = "Pred" /\ named(i, {"totalOrder"})
               -> [takes |-> 3, emits |-> <<T("TotalOrder")>>]
          [] Kind(ts, i) = "Fun" /\ named(i, FunNames)
               -> [takes |-> 3, emits |-> <<<<"FunOp", ts[i + 2][2]>>>>]
          [] Kind(ts, i) \in Sides /\ Kind(ts, i + 1) = "Arrow"
               -> MergeArrow(ts, i + 1, 1, arrow_side(Kind(ts, i)))
          [] Kind(ts, i) = "Arrow" -> MergeArrow(ts, i, 0, "None")
          [] OTHER -> Keep(ts, i)
  IN  Rewrite(ts, merge)

\* The tokens after which a minus is binary.
ends_expression(t) ==
  \/ t[1] \in {"RParen", "RBracket", "RBrace", "Disj", "TotalOrder", "IntCast",
               "Sum", "Ident", "Number", "Str", "Iden", "This", "Univ", "Int",
               "None"}
  \/ t[1] = "FunOp" /\ t[2] \in {"min", "max", "next"}

\* F3: a minus before a number is its sign, unless an expression ends before
\* the minus. The token before is the one this pass emitted: a number either
\* way, whether its sign was folded or not.
fold_negative_literals(ts) ==
  LET folds(i) == /\ Kind(ts, i) = "Minus" /\ Kind(ts, i + 1) = "Number"
                  /\ i = 1 \/ ~ends_expression(ts[i - 1])
  IN  Rewrite(ts, LAMBDA i: IF folds(i)
                            THEN [takes |-> 2, emits |-> <<Number(-ts[i + 1][2])>>]
                            ELSE Keep(ts, i))

\* Whether a list of names and a colon begin at j.
NamesAndColon(ts, j) ==
  LET names[i \in j..(Len(ts) + 1)] ==
        /\ Kind(ts, i) = "Ident"
        /\ \/ Kind(ts, i + 1) = "Colon"
           \/ Kind(ts, i + 1) = "Comma" /\ names[i + 2]
  IN  j <= Len(ts) /\ names[j]

\* Whether declarations begin at i: any of these words, in this order, first.
DeclarationsAt(ts, i, words) ==
  LET skip[n \in 0..Len(words)] ==
        IF n = 0 THEN i
        ELSE skip[n - 1] + (IF Kind(ts, skip[n - 1]) = words[n] THEN 1 ELSE 0)
  IN  NamesAndColon(ts, skip[Len(words)])

\* The words that may quantify.
QuantCandidates == {"All", "No", "Some", "Lone", "One", "Sum"}

\* F4: a word that may quantify does when declarations follow it, except where
\* a multiplicity is expected.
disambiguate_quantifiers(ts) ==
  [i \in DOMAIN ts |->
     IF /\ Kind(ts, i) \in QuantCandidates
        /\ Kind(ts, i - 1) \notin {"Colon", "Disj"}
        /\ DeclarationsAt(ts, i + 1, <<"Private", "Disj">>)
     THEN Quantifier(Kind(ts, i)) ELSE ts[i]]

cook(ts) ==
  disambiguate_quantifiers(
    fold_negative_literals(merge_tokens(reorder_command_labels(ts))))

----------------------------------------------------------------------------
(* The binding powers and the binder budgets that the parser and the       *)
(* printer share (prec.rs), and the names of the operators. An infix       *)
(* operator is consumed while its left power is at least the power         *)
(* demanded of the operand, and demands its right power in turn.           *)

Logical   == {"Or", "Iff", "Implies", "And"}
Temporal  == {"Until", "Releases", "Since", "Triggered"}
Setwise   == {"Union", "Diff", "Intersect", "Override", "DomRestrict",
              "RanRestrict"}
Shifts    == {"Shl", "Sha", "Shr"}
Integer   == {"IntAdd", "IntSub", "IntMul", "IntDiv", "IntRem"}

\* The infix operators: `Seq` and `Join` are parsed by rules of their own.
Infixes   == Logical \cup Temporal \cup Setwise \cup Shifts \cup Integer
Compared  == {"Eq", "In", "Lt", "Gt", "Le", "Ge"}
Multiplicities == {"Lone", "One", "Some"}

\* The left and the right binding power of a binary operator.
binary_bp(op) ==
  CASE op = "Seq"       -> <<3, 2>>
    [] op = "Or"        -> <<6, 7>>
    [] op = "Iff"       -> <<8, 9>>
    [] op = "Implies"   -> <<11, 10>>
    [] op = "And"       -> <<12, 13>>
    [] op \in Temporal  -> <<14, 15>>
    [] op \in Shifts    -> <<20, 21>>
    [] op \in {"Union", "Diff", "IntAdd", "IntSub"}    -> <<22, 23>>
    [] op \in {"IntMul", "IntDiv", "IntRem"}           -> <<24, 25>>
    [] op = "Override"  -> <<28, 29>>
    [] op = "Intersect" -> <<30, 31>>
    [] op = "DomRestrict" -> <<34, 35>>
    [] op = "RanRestrict" -> <<36, 37>>
    [] op = "Join"      -> <<40, 41>>

CMP_BP   == <<18, 19>>
ARROW_BP == <<33, 32>>

BP_NOT == 16
TIER_TEST == 18
BP_TEST == 20
BP_NUMUNOP == 26
BP_PRIME_CLOSURE == 42
BP_BINDER_BODY == 4
BP_ATOM == 255

\* The prefix operators of each tier.
Denials  == {"Not", "Always", "Eventually", "After", "Before", "Historically",
             "Once"}
Tests    == {"No", "Some", "Lone", "One", "SetOf", "SomeOf", "LoneOf", "OneOf",
             "SeqOf"}
Counts   == {"Card", "IntOf", "SumOf"}
Closures == {"Transpose", "Closure", "ReflexiveClosure"}

\* The loosest slot a prefix may open, and the power it demands of its operand.
prefix_bp(op) ==
  CASE op \in Denials -> <<BP_NOT, BP_NOT>>
    [] op \in Tests   -> <<TIER_TEST, BP_TEST>>
    [] op \in Counts  -> <<BP_NUMUNOP, BP_NUMUNOP>>

\* How far a bare binder may still sit below the operators around it.
NONE == 0
HOP == 1
TOP == 2

\* What the right operand of an operator inherits of the budget.
child_binder_budget(budget, op) ==
  CASE budget < TOP    -> NONE
    [] budget = TOP /\ op = "Implies"  -> TOP
    [] budget = TOP /\ op \in Compared -> NONE
    [] OTHER           -> HOP

\* What the operand of a prefix inherits.
prefix_operand_budget(op, budget) ==
  IF op \in Tests \/ budget < TOP THEN NONE ELSE budget

----------------------------------------------------------------------------
(* The parser. *)

Ok(v, p)  == [ok |-> TRUE, v |-> v, p |-> p]
Fail(why) == [ok |-> FALSE, why |-> why]
Unexpected == Fail("Expected")

\* What follows a success; a failure is passed on.
Then(r, F(_, _)) == IF r.ok THEN F(r.v, r.p) ELSE r

At(c, p, kind) == Kind(c.ts, p) = kind
expect(c, p, kind) == IF At(c, p, kind) THEN Ok(kind, p + 1) ELSE Unexpected

\* The trees.
Num(n)       == [k |-> "Num", n |-> n]
Str(s)       == [k |-> "Str", s |-> s]
Const(s)     == [k |-> "Const", const |-> s]
This         == [k |-> "This"]
Name(q)      == [k |-> "Name", name |-> q]
AtName(q)    == [k |-> "AtName", name |-> q]
Unary(op, e) == [k |-> "Unary", op |-> op, e |-> e]
Binary(op, l, r) == [k |-> "Binary", op |-> op, l |-> l, r |-> r]
Arrow(l, lm, rm, r) == [k |-> "Arrow", l |-> l, lm |-> lm, rm |-> rm, r |-> r]
Compare(op, negated, l, r) ==
  [k |-> "Compare", op |-> op, negated |-> negated, l |-> l, r |-> r]
IfThenElse(i, t, e) == [k |-> "IfThenElse", c |-> i, t |-> t, e |-> e]
BoxJoin(target, args) == [k |-> "BoxJoin", target |-> target, args |-> args]
Quant(q, decls, body) == [k |-> "Quant", q |-> q, decls |-> decls, body |-> body]
Comprehension(decls, body) ==
  [k |-> "Comprehension", decls |-> decls, body |-> body]
Let(bindings, body) == [k |-> "Let", bindings |-> bindings, body |-> body]
Block(forms) == [k |-> "Block", forms |-> forms]

RECURSIVE parse_expr(_, _), Operand(_, _, _, _), Links(_, _, _, _, _),
          Joins(_, _, _, _, _), parse_closure(_, _, _),
          parse_binding_seq(_, _, _), Bindings(_, _), BlockForms(_, _),
          parse_expr_list(_, _), parse_decl_names(_, _), Primes(_, _, _),
          Segments(_, _)

----------------------------------------------------------------------------
(* Names and lists.                                                        *)

\* The segments of a name, the first of them at p.
Segments(c, p) ==
  IF ~At(c, p, "Ident") THEN Unexpected
  ELSE IF At(c, p + 1, "Slash") /\ At(c, p + 2, "Ident")
       THEN Then(Segments(c, p + 2), LAMBDA q, n: Ok(<<c.ts[p][2]>> \o q, n))
       ELSE Ok(<<c.ts[p][2]>>, p + 1)

parse_qual_name(c, p) ==
  LET prefix == CASE At(c, p, "This") -> <<"this">> [] At(c, p, "Seq") -> <<"seq">>
                  [] OTHER -> <<>>
  IN  IF prefix = <<>> THEN Segments(c, p)
      ELSE IF At(c, p + 1, "Slash")
           THEN Then(Segments(c, p + 2), LAMBDA q, n: Ok(prefix \o q, n))
           ELSE Unexpected

SeqInt(c, p) == At(c, p, "Seq") /\ At(c, p + 1, "Slash") /\ At(c, p + 2, "Int")

\* The keywords that name a sort.
SortName == ("Univ" :> "univ") @@ ("StringKw" :> "String") @@ ("Int" :> "Int")
            @@ ("Steps" :> "steps") @@ ("None" :> "none")

parse_sigref(c, p) ==
  CASE Kind(c.ts, p) \in DOMAIN SortName
         -> Ok(<<SortName[Kind(c.ts, p)]>>, p + 1)
    [] SeqInt(c, p) -> Ok(<<"seq", "Int">>, p + 3)
    [] OTHER -> parse_qual_name(c, p)

parse_decl_ident(c, p) ==
  CASE ~At(c, p, "Ident")     -> Unexpected
    [] c.ts[p][2] \in Dollar  -> Fail("DollarInName")
    [] OTHER                  -> Ok(c.ts[p][2], p + 1)

\* The names of a declaration: a comma not followed by a name is not theirs.
parse_decl_names(c, p) ==
  Then(parse_decl_ident(c, p), LAMBDA x, n:
    IF At(c, n, "Comma") /\ At(c, n + 1, "Ident")
    THEN Then(parse_decl_names(c, n + 1), LAMBDA xs, m: Ok(<<x>> \o xs, m))
    ELSE Ok(<<x>>, n))

----------------------------------------------------------------------------
(* Declarations.                                                           *)

\* A multiplicity test in the place of a bound is the bound's multiplicity.
apply_mult(e) ==
  IF e.k = "Unary" /\ e.op \in Multiplicities
  THEN [e EXCEPT !.op = @ \o "Of"] ELSE e

\* `= value`, never next to a `disj`, and in a comprehension not at all.
parse_defined_bound(c, p, allow_defined, disj) ==
  CASE ~allow_defined -> Unexpected
    [] allow_defined /\ (disj \/ At(c, p + 1, "Disj"))
         -> Fail("DefinedFieldDisjoint")
    [] OTHER -> Then(parse_expr(c, p + 1),
                     LAMBDA e, n: Ok(Unary("ExactlyOf", e), n))

parse_decl(c, p, allow_defined) ==
  LET bit(i, kind) == IF At(c, i, kind) THEN 1 ELSE 0
      p1 == p + bit(p, "Var")
      p2 == p1 + bit(p1, "Private")
      p3 == p2 + bit(p2, "Disj")
      decl(names, bound, bdisj) ==
        [names |-> names, bound |-> bound, bdisj |-> bdisj,
         isVar |-> p1 > p, private |-> p2 > p1, disj |-> p3 > p2]
  IN  Then(parse_decl_names(c, p3), LAMBDA names, n:
        CASE At(c, n, "Equals") ->
               Then(parse_defined_bound(c, n, allow_defined, p3 > p2),
                    LAMBDA e, m: Ok(decl(names, e, FALSE), m))
          [] At(c, n, "Colon") ->
               LET n1 == n + 1 + bit(n + 1, "Disj")
               IN  Then(parse_expr(c, n1), LAMBDA e, m:
                          Ok(decl(names, apply_mult(e), n1 > n + 1), m))
          [] OTHER -> Unexpected)

parse_binding_seq(c, p, allow_defined) ==
  Then(parse_decl(c, p, allow_defined), LAMBDA d, n:
    IF At(c, n, "Comma")
    THEN Then(parse_binding_seq(c, n + 1, allow_defined),
              LAMBDA ds, m: Ok(<<d>> \o ds, m))
    ELSE Ok(<<d>>, n))

----------------------------------------------------------------------------
(* Blocks and binders.                                                     *)

\* `;` binds loosest of all and to the right.
parse_expr(c, p) ==
  Then(Operand(c, p, 0, TOP), LAMBDA l, n:
    IF At(c, n, "Semi")
    THEN Then(parse_expr(c, n + 1), LAMBDA r, m: Ok(Binary("Seq", l, r), m))
    ELSE Ok(l, n))

\* The formulas of a block: a `;` takes all that is left of it.
BlockForms(c, p) ==
  IF Kind(c.ts, p) \in {"RBrace", "Eof"} THEN Ok(<<>>, p)
  ELSE Then(Operand(c, p, 0, TOP), LAMBDA e, n:
         IF At(c, n, "Semi")
         THEN Then(BlockForms(c, n + 1), LAMBDA rest, m:
                CASE rest = <<>>    -> Unexpected
                  [] Len(rest) = 1  -> Ok(<<Binary("Seq", e, rest[1])>>, m)
                  [] OTHER -> Ok(<<Binary("Seq", e, Block(rest))>>, m))
         ELSE Then(BlockForms(c, n), LAMBDA es, m: Ok(<<e>> \o es, m)))

parse_block(c, p) ==
  Then(expect(c, p, "LBrace"), LAMBDA open, n:
    Then(BlockForms(c, n), LAMBDA forms, m:
      Then(expect(c, m, "RBrace"), LAMBDA close, q: Ok(Block(forms), q))))

\* The body of a binder stops at a `;`.
parse_quant_body(c, p) ==
  CASE At(c, p, "Bar")    -> Operand(c, p + 1, 0, TOP)
    [] At(c, p, "LBrace") -> parse_block(c, p)
    [] OTHER              -> Unexpected

Bindings(c, p) ==
  Then(parse_decl_ident(c, p), LAMBDA x, n:
    IF At(c, n, "Slash") THEN Fail("LetNameSlash")
    ELSE Then(expect(c, n, "Equals"), LAMBDA eq, m:
      Then(parse_expr(c, m), LAMBDA e, q:
        IF At(c, q, "Comma")
        THEN Then(Bindings(c, q + 1), LAMBDA bs, r: Ok(<<<<x, e>>>> \o bs, r))
        ELSE Ok(<<<<x, e>>>>, q))))

starts_binder(c, p) == Kind(c.ts, p) \in {"Let", "Quantifier"}

parse_binder(c, p) ==
  IF At(c, p, "Let")
  THEN Then(Bindings(c, p + 1), LAMBDA bs, n:
         Then(parse_quant_body(c, n), LAMBDA e, m: Ok(Let(bs, e), m)))
  ELSE Then(parse_binding_seq(c, p + 1, TRUE), LAMBDA ds, n:
         Then(parse_quant_body(c, n), LAMBDA e, m:
           Ok(Quant(c.ts[p][2], ds, e), m)))

binder_if_budgeted(c, p, budget) ==
  IF budget >= HOP THEN parse_binder(c, p) ELSE Fail("BinderNeedsParens")

\* Whether the brace at p opens a comprehension.
is_comprehension_head(c, p) ==
  DeclarationsAt(c.ts, p + 1, <<"Var", "Private", "Disj">>)

parse_comprehension(c, p) ==
  Then(parse_binding_seq(c, p + 1, FALSE), LAMBDA ds, n:
    LET body == IF Kind(c.ts, n) \in {"Bar", "LBrace"} THEN parse_quant_body(c, n)
                ELSE Ok(Block(<<>>), n)
    IN  Then(body, LAMBDA e, m:
          Then(expect(c, m, "RBrace"), LAMBDA close, q:
            Ok(Comprehension(ds, e), q))))

----------------------------------------------------------------------------
(* Atoms, closures, primes and joins.                                      *)

\* The names that are no identifiers of the source.
WordName == SortName @@ ("IntCast" :> "int") @@ ("Sum" :> "sum")
            @@ ("Disj" :> "disj") @@ ("TotalOrder" :> "pred/totalOrder")
WordAt(c, p) == Name(<<WordName[Kind(c.ts, p)]>>)
BoxOnly == {"Disj", "TotalOrder"}
ConstKinds == {"Iden", "Univ", "None"}

parse_atom(c, p) ==
  LET kind == Kind(c.ts, p)
  IN  CASE kind = "Number"     -> Ok(Num(c.ts[p][2]), p + 1)
        [] kind = "Str"        -> Ok(Str(c.ts[p][2]), p + 1)
        [] kind \in ConstKinds -> Ok(Const(kind), p + 1)
        [] kind = "This" /\ ~At(c, p + 1, "Slash") -> Ok(This, p + 1)
        [] kind \in {"Int", "StringKw", "Steps", "IntCast", "Sum"}
             -> Ok(WordAt(c, p), p + 1)
        [] kind = "FunOp" /\ c.ts[p][2] \in {"min", "max", "next"}
             -> Ok(Name(<<"fun/" \o c.ts[p][2]>>), p + 1)
        [] kind \in BoxOnly -> IF At(c, p + 1, "LBracket")
                               THEN Ok(WordAt(c, p), p + 1) ELSE Unexpected
        [] SeqInt(c, p) -> Ok(Name(<<"seq", "Int">>), p + 3)
        [] kind = "Seq" /\ ~At(c, p + 1, "Slash") -> Unexpected
        [] kind = "At" -> Then(parse_qual_name(c, p + 1),
                               LAMBDA q, n: Ok(AtName(q), n))
        [] kind = "LParen" ->
             Then(parse_expr(c, p + 1), LAMBDA e, n:
               Then(expect(c, n, "RParen"), LAMBDA close, m: Ok(e, m)))
        [] kind = "LBrace" -> IF is_comprehension_head(c, p)
                              THEN parse_comprehension(c, p)
                              ELSE parse_block(c, p)
        [] kind \in {"Ident", "This", "Seq"} /\ ~SeqInt(c, p)
             /\ (kind # "Ident" => At(c, p + 1, "Slash"))
             -> Then(parse_qual_name(c, p), LAMBDA q, n: Ok(Name(q), n))
        [] OTHER -> Unexpected

ClosureOp == ("Tilde" :> "Transpose") @@ ("Caret" :> "Closure")
             @@ ("Star" :> "ReflexiveClosure")

\* One level deeper, unless a limit is reached.
Deeper(c) == [c EXCEPT !.depth = @ + 1, !.path = @ + 1]
enter_path(c) == c.path < MaxAstPath
enter_depth(c) == c.depth < MaxExprDepth /\ enter_path(c)

parse_closure(c, p, budget) ==
  IF ~enter_depth(c) THEN Fail("TooDeep")
  ELSE IF Kind(c.ts, p) \notin DOMAIN ClosureOp THEN parse_atom(Deeper(c), p)
  ELSE LET op == ClosureOp[Kind(c.ts, p)]
           inner == prefix_operand_budget(op, budget)
       IN  Then(IF starts_binder(c, p + 1)
                THEN binder_if_budgeted(Deeper(c), p + 1, inner)
                ELSE parse_closure(Deeper(c), p + 1, inner),
                LAMBDA e, n: Ok(Unary(op, e), n))

\* The primes after a term: they count on neither limit.
Primes(c, e, p) ==
  IF At(c, p, "Prime") THEN Primes(c, Unary("Prime", e), p + 1) ELSE Ok(e, p)

parse_unop(c, p, budget) ==
  Then(parse_closure(c, p, budget), LAMBDA e, n: Primes(c, e, n))

parse_dot_rhs(c, p, budget) ==
  CASE Kind(c.ts, p) \in BoxOnly \cup {"IntCast", "Sum"} -> Ok(WordAt(c, p), p + 1)
    [] starts_binder(c, p) -> binder_if_budgeted(c, p, budget)
    [] OTHER -> parse_unop(c, p, budget)

\* One or more expressions, separated by commas.
parse_expr_list(c, p) ==
  Then(parse_expr(c, p), LAMBDA e, n:
    IF At(c, n, "Comma")
    THEN Then(parse_expr_list(c, n + 1), LAMBDA es, m: Ok(<<e>> \o es, m))
    ELSE Ok(<<e>>, n))

\* A mutant: an empty list of arguments is an error.
parse_box_join_full(c, target, p) ==
  Then(parse_expr_list(c, p + 1), LAMBDA args, n:
    Then(expect(c, n, "RBracket"), LAMBDA close, m:
      Ok(BoxJoin(target, args), m)))

\* `target[args]`, the bracket at p; no arguments, no join.
parse_box_join(c, target, p) ==
  IF At(c, p + 1, "RBracket") THEN Ok(target, p + 2)
  ELSE Then(parse_expr_list(c, p + 1), LAMBDA args, n:
         Then(expect(c, n, "RBracket"), LAMBDA close, m:
           Ok(BoxJoin(target, args), m)))

\* A mutant: a join is no link of the path.
JoinsUncounted(c, l, p, budget, held) ==
  LET next(r) == Then(r, LAMBDA e, n: Joins(c, e, n, budget, held))
  IN  CASE Kind(c.ts, p) \notin {"LBracket", "Dot"} -> Ok(<<l, held>>, p)
        [] At(c, p, "LBracket") -> next(parse_box_join(c, l, p))
        [] OTHER -> next(Then(parse_dot_rhs(c, p + 1, child_binder_budget(budget, "Join")),
                              LAMBDA r, n: Ok(Binary("Join", l, r), n)))

\* The joins that follow `l`: each a link of the path. The value is the tree
\* and the links it holds of the path until its operand is complete.
Joins(c, l, p, budget, held) ==
  LET next(r) == Then(r, LAMBDA e, n:
                        Joins([c EXCEPT !.path = @ + 1], e, n, budget, held + 1))
  IN  CASE Kind(c.ts, p) \notin {"LBracket", "Dot"} -> Ok(<<l, held>>, p)
        [] ~enter_path(c)        -> Fail("TooDeep")
        [] At(c, p, "LBracket")  ->
             next(parse_box_join([c EXCEPT !.path = @ + 1], l, p))
        [] OTHER ->
             next(Then(parse_dot_rhs([c EXCEPT !.path = @ + 1], p + 1,
                                     child_binder_budget(budget, "Join")),
                       LAMBDA r, n: Ok(Binary("Join", l, r), n)))

parse_postfix(c, p, budget) ==
  Then(parse_unop(c, p, budget), LAMBDA e, n: Joins(c, e, n, budget, 0))

----------------------------------------------------------------------------
(* Prefixes, infixes and operands.                                         *)

PrefixOp == ("Not" :> "Not") @@ ("Always" :> "Always")
            @@ ("Eventually" :> "Eventually") @@ ("After" :> "After")
            @@ ("Before" :> "Before") @@ ("Historically" :> "Historically")
            @@ ("Once" :> "Once") @@ ("No" :> "No") @@ ("Some" :> "Some")
            @@ ("Lone" :> "Lone") @@ ("One" :> "One") @@ ("Set" :> "SetOf")
            @@ ("Seq" :> "SeqOf") @@ ("Hash" :> "Card")
            @@ ("IntCast" :> "IntOf") @@ ("Sum" :> "SumOf")

\* Whether a prefix operator begins at p: a few words may be names instead.
starts_prefix(c, p) ==
  /\ Kind(c.ts, p) \in DOMAIN PrefixOp
  /\ At(c, p, "Seq") => ~At(c, p + 1, "Slash")
  /\ Kind(c.ts, p) \in {"IntCast", "Sum"} => ~At(c, p + 1, "LBracket")

\* A prefix and its operand, in a slot its tier may open.
parse_prefix(c, p, min_bp, budget) ==
  LET op == PrefixOp[Kind(c.ts, p)]
  IN  CASE ~starts_prefix(c, p) -> parse_postfix(c, p, budget)
        [] starts_prefix(c, p) /\ prefix_bp(op)[1] < min_bp -> Unexpected
        [] OTHER -> Then(Operand(c, p + 1, prefix_bp(op)[2],
                                 prefix_operand_budget(op, budget)),
                         LAMBDA e, n: Ok(<<Unary(op, e), 0>>, n))

CompareOp == ("Equals" :> "Eq") @@ ("In" :> "In") @@ ("Lt" :> "Lt")
             @@ ("Gt" :> "Gt") @@ ("Lte" :> "Le") @@ ("Gte" :> "Ge")
FunOp == ("add" :> "IntAdd") @@ ("sub" :> "IntSub") @@ ("mul" :> "IntMul")
         @@ ("div" :> "IntDiv") @@ ("rem" :> "IntRem")
InfixOp == ("Plus" :> "Union") @@ ("Minus" :> "Diff") @@ ("PlusPlus" :> "Override")
           @@ ("Ampersand" :> "Intersect") @@ ("DomRestrict" :> "DomRestrict")
           @@ ("RangeRestrict" :> "RanRestrict")
           @@ [op \in Logical \cup Temporal \cup Shifts |-> op]

\* What the token at p does between two operands: its class, operator, powers.
classify_infix(c, p) ==
  LET kind == Kind(c.ts, p)
      arg(i) == c.ts[p][i]
      bin(op) == [class |-> "Bin", op |-> op, bp |-> binary_bp(op)]
      cmp(op, negated) == [class |-> "Cmp", op |-> op, negated |-> negated,
                           bp |-> CMP_BP]
      arrow(l, r) == [class |-> "Arrow", op |-> "Arrow", lm |-> l, rm |-> r,
                      bp |-> ARROW_BP]
  IN  CASE kind \in DOMAIN InfixOp   -> bin(InfixOp[kind])
        [] kind = "FunOp" /\ arg(2) \in DOMAIN FunOp -> bin(FunOp[arg(2)])
        [] kind \in DOMAIN CompareOp -> cmp(CompareOp[kind], FALSE)
        [] kind = "NotCmp"           -> cmp(CompareOp[arg(2)], TRUE)
        [] kind = "Arrow"            -> arrow("None", "None")
        [] kind = "ArrowMult"        -> arrow(arg(2), arg(3))
        [] OTHER                     -> [class |-> "None"]

\* `cond => e [else f]`, the branches at p. What e may hold of binders depends
\* on an `else` that is not yet in sight, so it is read with no binder at all
\* first, and again with the budget only if that fails for another reason than
\* a limit; an `else` is then refused.
build_implies(c, p, cond, budget) ==
  LET rbp == binary_bp("Implies")[2]
      bare == Operand(c, p, rbp, NONE)
      again == ~bare.ok /\ bare.why # "TooDeep"
      branch == IF again THEN Operand(c, p, rbp, budget) ELSE bare
  IN  Then(branch, LAMBDA e, n:
        CASE ~At(c, n, "Else") -> Ok(Binary("Implies", cond, e), n)
          [] At(c, n, "Else") /\ again -> Fail("BinderNeedsParens")
          [] OTHER -> Then(Operand(c, n + 1, rbp, budget),
                           LAMBDA f, m: Ok(IfThenElse(cond, e, f), m)))

\* The application of the infix operator `i` to `l` and to the operand at p.
build_infix(c, p, i, l, budget) ==
  IF i.op = "Implies" THEN build_implies(c, p, l, budget)
  ELSE Then(Operand(c, p, i.bp[2], budget), LAMBDA r, n:
         Ok(CASE i.class = "Bin"   -> Binary(i.op, l, r)
              [] i.class = "Arrow" -> Arrow(l, i.lm, i.rm, r)
              [] i.class = "Cmp"   -> Compare(i.op, i.negated, l,
                                        IF i.op = "In" THEN apply_mult(r) ELSE r),
            n))

\* The infixes that follow `l` at this level: each a link of the path.
Links(c, p, min_bp, budget, l) ==
  LET i == classify_infix(c, p)
      linked == [c EXCEPT !.path = @ + 1]
      binds == i.class # "None" /\ i.bp[1] >= min_bp
  IN  CASE ~binds                  -> Ok(l, p)
        [] binds /\ ~enter_path(c) -> Fail("TooDeep")
        [] binds /\ enter_path(c)  ->
             Then(build_infix(linked, p + 1, i, l,
                              child_binder_budget(budget, i.op)),
                  LAMBDA e, n: Links(linked, n, min_bp, budget, e))

Operand(c, p, min_bp, budget) ==
  CASE ~enter_depth(c)     -> Fail("TooDeep")
    [] enter_depth(c) /\ starts_binder(c, p) ->
         binder_if_budgeted(Deeper(c), p, budget)
    [] OTHER -> Then(parse_prefix(Deeper(c), p, min_bp, budget), LAMBDA x, n:
                  Links([Deeper(c) EXCEPT !.path = @ + x[2]],
                        n, min_bp, budget, x[1]))

----------------------------------------------------------------------------
(* The paragraphs of a file, its commands and their scopes, and the one    *)
(* grammar slot of the evaluator's prompt.                                 *)

\* At most one thing of a kind: a sequence of none or one.
Nothing == <<>>
Just(x) == <<x>>

RECURSIVE Names(_, _, _), Sigrefs(_, _, _), DeclSlots(_, _, _), Quals(_, _, _),
          Entries(_, _), Followups(_, _), File(_, _, _), Parameters(_, _)

\* One or more declared names, or one or more references to sigs, separated by
\* tokens of this kind.
Names(c, p, by) ==
  Then(parse_decl_ident(c, p), LAMBDA x, n:
    IF At(c, n, by)
    THEN Then(Names(c, n + 1, by), LAMBDA xs, m: Ok(<<x>> \o xs, m))
    ELSE Ok(<<x>>, n))
Sigrefs(c, p, by) ==
  Then(parse_sigref(c, p), LAMBDA x, n:
    IF At(c, n, by)
    THEN Then(Sigrefs(c, n + 1, by), LAMBDA xs, m: Ok(<<x>> \o xs, m))
    ELSE Ok(<<x>>, n))

\* A list closed by this token, which may be empty, `Read` reading its items.
Closed(c, p, close, Read(_, _, _)) ==
  IF At(c, p, close) THEN Ok(<<>>, p + 1)
  ELSE Then(Read(c, p, "Comma"), LAMBDA xs, n:
         Then(expect(c, n, close), LAMBDA z, m: Ok(xs, m)))

\* Declarations up to the closing token: empty slots between commas are passed.
DeclSlots(c, p, close) ==
  CASE At(c, p, "Comma") -> DeclSlots(c, p + 1, close)
    [] At(c, p, close)   -> Ok(<<>>, p + 1)
    [] OTHER -> Then(parse_decl(c, p, TRUE), LAMBDA d, n:
         IF At(c, n, "Comma") \/ At(c, n, close)
         THEN Then(DeclSlots(c, n, close), LAMBDA ds, m: Ok(<<d>> \o ds, m))
         ELSE Unexpected)

no_dollar(q) == \A i \in DOMAIN q : q[i] \notin Dollar

\* A declared name that was read as a qualified one.
qual_to_ident(q, p) ==
  IF Len(q) = 1 THEN Ok(q[1], p) ELSE Fail("QualifiedDeclName")

----------------------------------------------------------------------------
(* The module header and the opens, before every paragraph.                *)

Parameters(c, p) ==
  LET exact == At(c, p, "Exactly")
  IN  Then(parse_qual_name(c, IF exact THEN p + 1 ELSE p), LAMBDA q, n:
        LET param == [name |-> q, exact |-> exact]
        IN  CASE ~no_dollar(q)     -> Fail("DollarInName")
              [] no_dollar(q) /\ At(c, n, "Comma") ->
                   Then(Parameters(c, n + 1), LAMBDA ps, m: Ok(<<param>> \o ps, m))
              [] OTHER -> Then(expect(c, n, "RBracket"),
                               LAMBDA z, m: Ok(<<param>>, m)))

parse_module_header(c, p, ast) ==
  IF ast.header # Nothing \/ ast.paras # <<>> THEN Fail("ModuleHeaderNotFirst")
  ELSE Then(parse_qual_name(c, p + 1), LAMBDA q, n:
    LET params == IF At(c, n, "LBracket") THEN Parameters(c, n + 1) ELSE Ok(<<>>, n)
    IN  IF ~no_dollar(q) THEN Fail("DollarInName")
        ELSE Then(params, LAMBDA ps, m:
               Ok([ast EXCEPT !.header = Just([name |-> q, params |-> ps])], m)))

parse_open(c, p, private, ast) ==
  Then(parse_qual_name(c, p), LAMBDA q, n:
    IF ~no_dollar(q) THEN Fail("DollarInName")
    ELSE Then(IF At(c, n, "LBracket") THEN Closed(c, n + 1, "RBracket", Sigrefs)
              ELSE Ok(<<>>, n), LAMBDA args, m:
      LET aliased == At(c, m, "As")
          open == [module |-> q, args |-> args, private |-> private,
                   alias |-> IF aliased THEN Just(c.ts[m + 1][2]) ELSE Nothing]
      IN  CASE aliased /\ ~At(c, m + 1, "Ident") -> Unexpected
            [] ast.paras # <<>> /\ (aliased => At(c, m + 1, "Ident"))
                 -> Fail("OpenNotFirst")
            [] OTHER -> Ok([ast EXCEPT !.opens = Append(@, open)],
                           IF aliased THEN m + 2 ELSE m)))

----------------------------------------------------------------------------
(* Sigs and enums.                                                         *)

NoQuals == [abstract |-> FALSE, isVar |-> FALSE, private |-> FALSE,
            mult |-> Nothing]

\* The qualifiers before `sig`, in any order, each at most once.
Quals(c, p, q) ==
  LET kind == Kind(c.ts, p)
      flag == ("Abstract" :> "abstract") @@ ("Var" :> "isVar")
              @@ ("Private" :> "private")
  IN  CASE kind \in DOMAIN flag ->
             IF q[flag[kind]] THEN Fail("DuplicateSigQual")
             ELSE Quals(c, p + 1, [q EXCEPT ![flag[kind]] = TRUE])
        [] kind \in Multiplicities ->
             IF q.mult # Nothing THEN Fail("DuplicateSigQual")
             ELSE Quals(c, p + 1, [q EXCEPT !.mult = Just(kind)])
        [] OTHER -> Ok(q, p)

parse_sig_parent(c, p) ==
  CASE At(c, p, "Extends") -> Then(parse_sigref(c, p + 1),
                                   LAMBDA q, n: Ok([how |-> "Extends", of |-> <<q>>], n))
    [] Kind(c.ts, p) \in {"In", "Equals"} ->
         Then(Sigrefs(c, p + 1, "Plus"),
              LAMBDA qs, n: Ok([how |-> Kind(c.ts, p), of |-> qs], n))
    [] OTHER -> Ok([how |-> "None", of |-> <<>>], p)

\* A block, if one follows.
BlockOpt(c, p) ==
  IF At(c, p, "LBrace") THEN Then(parse_block(c, p), LAMBDA e, n: Ok(Just(e), n))
  ELSE Ok(Nothing, p)

parse_sig(c, p) ==
  Then(Quals(c, p, NoQuals), LAMBDA qual, p1:
  Then(expect(c, p1, "Sig"), LAMBDA z, p2:
  Then(Names(c, p2, "Comma"), LAMBDA names, p3:
  Then(parse_sig_parent(c, p3), LAMBDA parent, p4:
    IF qual.abstract /\ parent.how = "In" THEN Fail("AbstractSubsetSig")
    ELSE Then(expect(c, p4, "LBrace"), LAMBDA open, p5:
         Then(DeclSlots(c, p5, "RBrace"), LAMBDA fields, p6:
         Then(BlockOpt(c, p6), LAMBDA fact, p7:
           Ok([k |-> "Sig", qual |-> qual, names |-> names, parent |-> parent,
               fields |-> fields, fact |-> fact], p7))))))))

parse_enum(c, p) ==
  Then(parse_decl_ident(c, p), LAMBDA name, n:
  Then(expect(c, n, "LBrace"), LAMBDA open, m:
  Then(Closed(c, m, "RBrace", Names), LAMBDA variants, q:
    IF variants = <<>> THEN Fail("EmptyEnum")
    ELSE Ok([k |-> "Enum", name |-> name, variants |-> variants], q))))

----------------------------------------------------------------------------
(* Facts, assertions, predicates, functions and macros.                    *)

parse_para_name(c, p) ==
  CASE At(c, p, "LBrace") -> Ok(Nothing, p)
    [] At(c, p, "Str")    -> Ok(Just(c.ts[p]), p + 1)
    [] OTHER -> Then(parse_decl_ident(c, p), LAMBDA x, n: Ok(Just(Id(x)), n))

\* A fact or an assertion.
parse_fact(c, p, kind) ==
  Then(parse_para_name(c, p), LAMBDA name, n:
  Then(parse_block(c, n), LAMBDA e, m:
    Ok([k |-> kind, name |-> name, body |-> e], m)))

parse_receiver_name(c, p) ==
  Then(parse_sigref(c, p), LAMBDA q, n:
    IF At(c, n, "Dot")
    THEN Then(parse_decl_ident(c, n + 1), LAMBDA x, m: Ok(<<Just(q), x>>, m))
    ELSE Then(qual_to_ident(q, n), LAMBDA x, m: Ok(<<Nothing, x>>, m)))

Closing == ("LParen" :> "RParen") @@ ("LBracket" :> "RBracket")

parse_param_decls(c, p) ==
  IF Kind(c.ts, p) \in DOMAIN Closing
  THEN DeclSlots(c, p + 1, Closing[Kind(c.ts, p)]) ELSE Ok(<<>>, p)

parse_pred(c, p, private) ==
  Then(parse_receiver_name(c, p), LAMBDA who, n:
  Then(parse_param_decls(c, n), LAMBDA params, m:
  Then(parse_block(c, m), LAMBDA e, q:
    Ok([k |-> "Pred", receiver |-> who[1], name |-> who[2], params |-> params,
        private |-> private, body |-> e], q))))

parse_fun(c, p, private) ==
  Then(parse_receiver_name(c, p), LAMBDA who, n:
  Then(parse_param_decls(c, n), LAMBDA params, m:
  Then(expect(c, m, "Colon"), LAMBDA z, q:
  Then(parse_expr(c, q), LAMBDA returns, r:
  Then(parse_block(c, r), LAMBDA e, s:
    Ok([k |-> "Fun", receiver |-> who[1], name |-> who[2], params |-> params,
        private |-> private, returns |-> apply_mult(returns), body |-> e], s))))))

parse_macro(c, p, private) ==
  Then(parse_decl_ident(c, p), LAMBDA name, n:
  Then(IF Kind(c.ts, n) \in DOMAIN Closing
       THEN Closed(c, n + 1, Closing[Kind(c.ts, n)], Names) ELSE Ok(<<>>, n),
       LAMBDA params, m:
  Then(CASE At(c, m, "Equals") -> parse_expr(c, m + 1)
         [] At(c, m, "LBrace") -> parse_block(c, m)
         [] OTHER              -> Unexpected,
       LAMBDA e, q:
    Ok([k |-> "Macro", name |-> name, params |-> params, private |-> private,
        body |-> e], q))))

----------------------------------------------------------------------------
(* Commands and scopes.                                                    *)

expect_scope_number(c, p) ==
  CASE ~At(c, p, "Number")                      -> Unexpected
    [] At(c, p, "Number") /\ c.ts[p][2] < 0     -> Fail("BadScopeNumber")
    [] OTHER                                    -> Ok(c.ts[p][2], p + 1)

Same == <<>>
Bounded(m) == <<"To", m>>
Unbounded == <<"Unbounded">>

\* `[exactly] N [.. [M]] [: I]`
parse_type_number(c, p) ==
  LET exact == At(c, p, "Exactly")
      ranged(n) == At(c, n, "Dot") /\ At(c, n + 1, "Dot")
      raw(start, end, inc, n) ==
        Ok([exact |-> exact, start |-> start, end |-> end, inc |-> inc], n)
      grown(start, end, n) ==
        IF At(c, n, "Colon")
        THEN Then(expect_scope_number(c, n + 1), LAMBDA i, m:
               raw(start, IF end = Same THEN Unbounded ELSE end, Just(i), m))
        ELSE raw(start, end, Nothing, n)
  IN  Then(expect_scope_number(c, IF exact THEN p + 1 ELSE p), LAMBDA start, n:
        CASE ranged(n) /\ At(c, n + 2, "Number") ->
               Then(expect_scope_number(c, n + 2),
                    LAMBDA m, q: grown(start, Bounded(m), q))
          [] ranged(n) /\ ~At(c, n + 2, "Number") -> grown(start, Unbounded, n + 2)
          [] OTHER -> grown(start, Same, n))

IsBounded(end) == Len(end) = 2
is_plain(raw) == ~raw.exact /\ raw.end = Same /\ raw.inc = Nothing
is_growing(raw) ==
  raw.end = Unbounded \/ (IsBounded(raw.end) /\ raw.end[2] > raw.start)
\* A mutant: a range of one size is not exact of itself.
effective_exact_if_said(raw) == raw.exact

effective_exact(raw) ==
  raw.exact \/ (IsBounded(raw.end) /\ raw.end[2] = raw.start)

exact_only_scope(c, p, raw, target) ==
  CASE is_growing(raw) -> Fail("GrowingScope")
    [] ~is_growing(raw) /\ effective_exact(raw) -> Fail("ExactlyRedundant")
    [] OTHER -> Ok([exact |-> FALSE, start |-> raw.start, end |-> Same,
                    inc |-> Nothing, target |-> <<target>>], p + 1)

\* The target at p of the scope `raw`.
finish_typescope(c, p, raw) ==
  LET kind == Kind(c.ts, p)
      ranged(target, n) == Ok([exact |-> effective_exact(raw), start |-> raw.start,
                               end |-> raw.end, inc |-> raw.inc,
                               target |-> target], n)
  IN  CASE kind = "Univ" -> Fail("ScopeOnUniv")
        [] kind = "None" -> Fail("ScopeOnNone")
        [] kind \in {"Int", "IntCast"} -> exact_only_scope(c, p, raw, "Int")
        [] kind = "Seq" /\ ~At(c, p + 1, "Slash") -> exact_only_scope(c, p, raw, "seq")
        [] kind = "StringKw" -> ranged(<<"String">>, p + 1)
        [] kind = "Steps"    -> ranged(<<"steps">>, p + 1)
        [] kind \in {"Ident", "This"} \/ (kind = "Seq" /\ At(c, p + 1, "Slash")) ->
             Then(parse_qual_name(c, p), LAMBDA q, n:
               IF no_dollar(q) THEN ranged(<<"Sig", q>>, n)
               ELSE Fail("DollarInName"))
        [] OTHER -> Unexpected

starts_scope_target(c, p) ==
  Kind(c.ts, p) \in {"Ident", "This", "Univ", "None", "Int", "IntCast", "Seq",
                     "StringKw", "Steps"}

\* One or more scope entries.
Entries(c, p) ==
  Then(parse_type_number(c, p), LAMBDA raw, n:
  Then(finish_typescope(c, n, raw), LAMBDA ts, m:
    IF At(c, m, "Comma")
    THEN Then(Entries(c, m + 1), LAMBDA es, q: Ok(<<ts>> \o es, q))
    ELSE Ok(<<ts>>, m)))

parse_scope(c, p) ==
  IF ~At(c, p, "For") THEN Ok(Nothing, p)
  ELSE Then(parse_type_number(c, p + 1), LAMBDA first, n:
    LET scope(default, es, m) == Ok(Just([default |-> default, entries |-> es]), m)
    IN  CASE starts_scope_target(c, n) ->
               Then(Entries(c, p + 1), LAMBDA es, m: scope(Nothing, es, m))
          [] ~starts_scope_target(c, n) /\ ~is_plain(first) -> Unexpected
          [] ~starts_scope_target(c, n) /\ is_plain(first) /\ At(c, n, "But") ->
               Then(Entries(c, n + 1), LAMBDA es, m: scope(Just(first.start), es, m))
          [] OTHER -> scope(Just(first.start), <<>>, n))

parse_expect(c, p) ==
  CASE ~At(c, p, "Expect") -> Ok(Nothing, p)
    [] At(c, p, "Expect") /\ At(c, p + 1, "Number")
         -> Ok(Just(c.ts[p + 1][2]), p + 2)
    [] OTHER -> Unexpected

\* The label, if any, and the block or the name that the command runs.
parse_command_target(c, p) ==
  IF At(c, p, "LBrace")
  THEN Then(parse_block(c, p), LAMBDA e, n: Ok([label |-> Nothing, block |-> Just(e),
                                               name |-> Nothing], n))
  ELSE Then(parse_qual_name(c, p), LAMBDA first, n:
    CASE At(c, n, "LBrace") ->
           Then(qual_to_ident(first, n), LAMBDA label, m:
           Then(parse_block(c, m), LAMBDA e, q:
             Ok([label |-> Just(label), block |-> Just(e), name |-> Nothing], q)))
      [] Kind(c.ts, n) \in {"Ident", "This", "Seq"} ->
           Then(qual_to_ident(first, n), LAMBDA label, m:
           Then(parse_qual_name(c, m), LAMBDA target, q:
             Ok([label |-> Just(label), block |-> Nothing, name |-> Just(target)], q)))
      [] OTHER -> Ok([label |-> Nothing, block |-> Nothing, name |-> Just(first)], n))

parse_command(c, p, followup) ==
  Then(parse_command_target(c, p + 1), LAMBDA target, n:
  Then(parse_scope(c, n), LAMBDA scope, m:
  Then(parse_expect(c, m), LAMBDA exp, q:
    Ok([k |-> "Cmd", kind |-> Kind(c.ts, p), target |-> target, scope |-> scope,
        expect |-> exp, followup |-> followup], q))))

\* The commands that follow up on the one before p.
Followups(c, p) ==
  IF At(c, p, "Implies") /\ Kind(c.ts, p + 1) \in {"Run", "Check"}
  THEN Then(parse_command(c, p + 1, TRUE), LAMBDA cmd, n:
       Then(Followups(c, n), LAMBDA cmds, m: Ok(<<cmd>> \o cmds, m)))
  ELSE Ok(<<>>, p)

----------------------------------------------------------------------------
(* A whole file.                                                           *)

NoAst == [header |-> Nothing, opens |-> <<>>, paras |-> <<>>]

\* The command at p with those that follow it up.
parse_commands(c, p) ==
  Then(parse_command(c, p, FALSE), LAMBDA cmd, n:
  Then(Followups(c, n), LAMBDA cmds, m: Ok(<<cmd>> \o cmds, m)))

\* One paragraph, after its `private`.
parse_para(c, p, private) ==
  LET kind == Kind(c.ts, p)
  IN  CASE kind \in {"Fact", "Assert"} -> parse_fact(c, p + 1, kind)
        [] kind = "Enum"   -> parse_enum(c, p + 1)
        [] kind = "Pred"   -> parse_pred(c, p + 1, private)
        [] kind = "Fun"    -> parse_fun(c, p + 1, private)
        [] kind = "Let"    -> parse_macro(c, p + 1, private)
        [] kind \in {"Abstract", "Var", "Lone", "One", "Some", "Sig", "Private"}
             -> parse_sig(c, p)
        [] OTHER -> Unexpected

\* The tree that `ast` becomes by what stands at p.
Grown(c, p, private, ast) ==
  LET kind == Kind(c.ts, p)
  IN  CASE kind = "Module" -> parse_module_header(c, p, ast)
        [] kind = "Open"   -> parse_open(c, p + 1, private, ast)
        [] kind \in {"Run", "Check"} -> Then(parse_commands(c, p),
             LAMBDA cmds, n: Ok([ast EXCEPT !.paras = @ \o cmds], n))
        [] OTHER -> Then(parse_para(c, p, private),
             LAMBDA x, n: Ok([ast EXCEPT !.paras = Append(@, x)], n))

\* The paragraphs from p on, after those of `ast`.
File(c, p, ast) ==
  LET private == At(c, p, "Private") /\ Kind(c.ts, p + 1) \in
                   {"Open", "Enum", "Pred", "Fun", "Let"}
      q == IF private THEN p + 1 ELSE p
  IN  IF At(c, q, "Eof") THEN Ok(ast, q)
      ELSE Then(Grown(c, q, private, ast), LAMBDA a, n: File(c, n, a))

\* The tree of a stream of raw tokens, which ends in `Eof`.
parse(ts) == File([ts |-> cook(ts), depth |-> 0, path |-> 0], 1, NoAst)

(* The line typed at the evaluator's prompt is read as the body of a command: *)
(* it is an expression if that command is the whole.                       *)

InCommand(ts) == <<T("Run"), T("LBrace")>> \o ts \o <<T("RBrace"), T("Eof")>>

\* The forms of the first command of a tree, as one expression.
FormsOf(ast, p) ==
  LET forms == ast.paras[1].target.block[1].forms
  IN  CASE forms = <<>>   -> Fail("NotAnExpression")
        [] Len(forms) = 1 -> Ok(forms[1], p)
        [] OTHER          -> Ok(Block(forms), p)

\* A mutant: the first command is taken for the whole.
parse_fragment_first(r) == Then(r, FormsOf)

\* The expression in what `InCommand` was read as.
parse_fragment(r) ==
  Then(r, LAMBDA ast, n:
    IF /\ ast.header = Nothing /\ ast.opens = <<>> /\ Len(ast.paras) = 1
       /\ ast.paras[1].k = "Cmd" /\ ast.paras[1].target.block # Nothing
    THEN FormsOf(ast, n) ELSE Fail("NotAnExpression"))
=============================================================================
