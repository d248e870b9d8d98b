------------------------------ MODULE Printer -------------------------------
(***************************************************************************)
(* The printer of als-syntax (print.rs): the tokens of the text it writes  *)
(* for a tree, with a parenthesis exactly where it sees one needed.        *)
(*                                                                         *)
(* `right` says that nothing of the enclosing expression follows, so that  *)
(* a binder may stand bare; `budget` is what the parser would have left.   *)
(***************************************************************************)
EXTENDS Parser

\* The tokens of the words that are no identifiers.
Spelled ==
  ("this" :> <<T("This")>>) @@ ("seq" :> <<T("Seq")>>) @@ ("Int" :> <<T("Int")>>)
  @@ ("univ" :> <<T("Univ")>>) @@ ("none" :> <<T("None")>>)
  @@ ("String" :> <<T("StringKw")>>) @@ ("steps" :> <<T("Steps")>>)
  @@ ("int" :> <<T("IntCast")>>) @@ ("sum" :> <<T("Sum")>>)
  @@ ("disj" :> <<T("Disj")>>)
  @@ ("pred/totalOrder" :> <<T("Pred"), T("Slash"), Id("totalOrder")>>)
  @@ ("fun/min" :> <<T("Fun"), T("Slash"), Id("min")>>)
  @@ ("fun/max" :> <<T("Fun"), T("Slash"), Id("max")>>)
  @@ ("fun/next" :> <<T("Fun"), T("Slash"), Id("next")>>)
Word(s) == IF s \in DOMAIN Spelled THEN Spelled[s] ELSE <<Id(s)>>

\* The written items with this token between them.
RECURSIVE Separated(_, _)
Separated(texts, kind) ==
  CASE texts = <<>>    -> <<>>
    [] Len(texts) = 1  -> texts[1]
    [] OTHER -> texts[1] \o <<T(kind)>> \o Separated(Tail(texts), kind)

Each(xs, Write(_)) == [i \in DOMAIN xs |-> Write(xs[i])]
Optional(xs, Write(_)) == IF xs = Nothing THEN <<>> ELSE Write(xs[1])
If(b, kind) == IF b THEN <<T(kind)>> ELSE <<>>
In(open, text, close) == <<T(open)>> \o text \o <<T(close)>>

write_qualname(q) == Separated(Each(q, Word), "Slash")
Named(xs) == Separated(Each(xs, Word), "Comma")

\* A number: the sign is a token of its own.
Numeral(n) == IF n < 0 THEN <<T("Minus"), Number(-n)>> ELSE <<Number(n)>>

\* The kind of the token an operator is written with.
InverseOf(f) == [x \in {f[k] : k \in DOMAIN f} |-> CHOOSE k \in DOMAIN f : f[k] = x]
binop_str(op) ==
  CASE op \in DOMAIN InverseOf(FunOp)
         -> <<T("Fun"), T("Slash"), Id(InverseOf(FunOp)[op])>>
    [] op = "Seq"     -> <<T("Semi")>>
    [] op = "Implies" -> <<T("Implies")>>
    [] OTHER          -> <<T(InverseOf(InfixOp)[op])>>
cmp_str(op, negated) == If(negated, "Not") \o <<T(InverseOf(CompareOp)[op])>>
prefix_str(op) ==
  IF op \in {"SomeOf", "LoneOf", "OneOf"}
  THEN <<T(CASE op = "SomeOf" -> "Some" [] op = "LoneOf" -> "Lone"
             [] op = "OneOf" -> "One")>>
  ELSE <<T(InverseOf(PrefixOp @@ ClosureOp)[op])>>

\* A mutant: a box join is closed on its left too.
lp_rp_closed_box(e) ==
  CASE e.k = "Unary" /\ e.op \in Denials -> <<BP_NOT, BP_NOT>>
    [] e.k = "Unary" /\ e.op \in Tests   -> <<TIER_TEST, BP_TEST>>
    [] e.k = "Unary" /\ e.op \in Counts  -> <<BP_NUMUNOP, BP_NUMUNOP>>
    [] e.k = "Unary" /\ e.op \in Closures -> <<BP_PRIME_CLOSURE, BP_PRIME_CLOSURE>>
    [] e.k = "Unary" /\ e.op = "Prime"   -> <<BP_PRIME_CLOSURE, BP_ATOM>>
    [] e.k = "Binary"  -> binary_bp(e.op)
    [] e.k = "Arrow"   -> ARROW_BP
    [] e.k = "Compare" -> CMP_BP
    [] e.k = "IfThenElse" -> binary_bp("Implies")
    [] OTHER -> <<BP_ATOM, BP_ATOM>>

\* The powers a tree exposes on its left and on its right.
lp_rp(e) ==
  CASE e.k = "BoxJoin" -> <<binary_bp("Join")[1], BP_ATOM>>
    [] e.k = "Unary" /\ e.op \in Denials -> <<BP_NOT, BP_NOT>>
    [] e.k = "Unary" /\ e.op \in Tests   -> <<TIER_TEST, BP_TEST>>
    [] e.k = "Unary" /\ e.op \in Counts  -> <<BP_NUMUNOP, BP_NUMUNOP>>
    [] e.k = "Unary" /\ e.op \in Closures -> <<BP_PRIME_CLOSURE, BP_PRIME_CLOSURE>>
    [] e.k = "Unary" /\ e.op = "Prime"   -> <<BP_PRIME_CLOSURE, BP_ATOM>>
    [] e.k = "Binary"  -> binary_bp(e.op)
    [] e.k = "Arrow"   -> ARROW_BP
    [] e.k = "Compare" -> CMP_BP
    [] e.k = "IfThenElse" -> binary_bp("Implies")
    [] OTHER -> <<BP_ATOM, BP_ATOM>>

IsBinder(e) == e.k \in {"Quant", "Let"}

\* A mutant: a binder takes parentheses only for its place.
needs_parens_no_budget(e, min_bp, left, right, budget) ==
  IF IsBinder(e) THEN ~right ELSE lp_rp(e)[IF left THEN 2 ELSE 1] < min_bp

\* A mutant: an operand of the same level always takes parentheses.
needs_parens_same_level(e, min_bp, left, right, budget) ==
  IF IsBinder(e) THEN ~right \/ budget < HOP
  ELSE lp_rp(e)[IF left THEN 2 ELSE 1] <= min_bp + 1

\* Whether `e` would not be read back to itself, bare in a slot that demands
\* this power, on the left or on the right of its operator.
needs_parens(e, min_bp, left, right, budget) ==
  IF IsBinder(e) THEN ~right \/ budget < HOP
  ELSE lp_rp(e)[IF left THEN 2 ELSE 1] < min_bp

RECURSIVE write_expr(_, _, _), write_decl(_), Forms(_)

write_operand(e, min_bp, left, right, budget) ==
  IF needs_parens(e, min_bp, left, right, budget)
  THEN In("LParen", write_expr(e, TRUE, TOP), "RParen")
  ELSE write_expr(e, right, budget)

Slot(e, min_bp, budget) == write_operand(e, min_bp, TRUE, FALSE, budget)

write_unary(e, right, budget) ==
  LET below == prefix_operand_budget(e.op, budget)
  IN  CASE e.op = "Prime" -> Slot(e.e, BP_PRIME_CLOSURE, budget) \o <<T("Prime")>>
        [] e.op \in Closures -> prefix_str(e.op) \o
             write_operand(e.e, BP_PRIME_CLOSURE, FALSE, FALSE, below)
        [] e.op = "ExactlyOf" -> <<T("Equals")>> \o write_expr(e.e, right, TOP)
        [] OTHER -> prefix_str(e.op) \o
             write_operand(e.e, prefix_bp(e.op)[2], FALSE, right, below)

\* The right operand of a dot is a tight term.
write_binary(e, right, budget) ==
  LET below == child_binder_budget(budget, e.op)
  IN  Slot(e.l, binary_bp(e.op)[1], budget) \o
      (IF e.op = "Join"
       THEN <<T("Dot")>> \o write_operand(e.r, BP_PRIME_CLOSURE, FALSE, FALSE, below)
       ELSE binop_str(e.op) \o
            write_operand(e.r, binary_bp(e.op)[2], FALSE, right, below))

write_arrow(e, right, budget) ==
  Slot(e.l, ARROW_BP[1], budget) \o If(e.lm # "None", e.lm) \o <<T("Arrow")>>
  \o If(e.rm # "None", e.rm)
  \o write_operand(e.r, ARROW_BP[2], FALSE, right, child_binder_budget(budget, "Arrow"))

write_compare(e, right) ==
  Slot(e.l, CMP_BP[1], NONE) \o cmp_str(e.op, e.negated)
  \o write_operand(e.r, CMP_BP[2], FALSE, right, NONE)

\* A then-branch that is itself a bare `=>` would take the `else`.
write_ite(e, right, budget) ==
  LET bp == binary_bp("Implies")
      guarded == e.t.k = "Binary" /\ e.t.op = "Implies"
  IN  Slot(e.c, bp[1], budget) \o <<T("Implies")>> \o
      (IF guarded THEN In("LParen", write_expr(e.t, TRUE, TOP), "RParen")
       ELSE write_operand(e.t, bp[2], FALSE, FALSE, NONE))
      \o <<T("Else")>> \o
      write_operand(e.e, bp[2], FALSE, right, child_binder_budget(budget, "Implies"))

write_boxjoin(e) ==
  LET arg(x) == write_operand(x, 0, FALSE, TRUE, TOP)
  IN  Slot(e.target, binary_bp("Join")[1], NONE)
      \o In("LBracket", Separated(Each(e.args, arg), "Comma"), "RBracket")

write_inline_decls(decls) == Separated(Each(decls, write_decl), "Comma")

\* The body of a binder: a sequencing takes parentheses.
Body(e, right) == write_operand(e, BP_BINDER_BODY, FALSE, right, TOP)

write_quant(e, right) ==
  <<T(e.q)>> \o write_inline_decls(e.decls) \o <<T("Bar")>> \o Body(e.body, right)

write_comprehension(e) ==
  In("LBrace", write_inline_decls(e.decls) \o
               (IF e.body = Block(<<>>) THEN <<>>
                ELSE <<T("Bar")>> \o Body(e.body, TRUE)), "RBrace")

write_let(e, right) ==
  LET bind(b) == <<Id(b[1]), T("Equals")>> \o
                 write_operand(b[2], 0, FALSE, FALSE, NONE)
  IN  <<T("Let")>> \o Separated(Each(e.bindings, bind), "Comma") \o <<T("Bar")>>
      \o Body(e.body, right)

\* The formulas of a block, one after the other.
Forms(forms) ==
  IF forms = <<>> THEN <<>> ELSE write_expr(forms[1], TRUE, TOP) \o Forms(Tail(forms))
write_block_body(e) == In("LBrace", Forms(e.forms), "RBrace")

write_expr(e, right, budget) ==
  CASE e.k = "Num"    -> Numeral(e.n)
    [] e.k = "Str"    -> <<<<"Str", e.s>>>>
    [] e.k = "Const"  -> <<T(e.const)>>
    [] e.k = "This"   -> <<T("This")>>
    [] e.k = "Name"   -> write_qualname(e.name)
    [] e.k = "AtName" -> <<T("At")>> \o write_qualname(e.name)
    [] e.k = "Unary"  -> write_unary(e, right, budget)
    [] e.k = "Binary" -> write_binary(e, right, budget)
    [] e.k = "Arrow"  -> write_arrow(e, right, budget)
    [] e.k = "Compare"       -> write_compare(e, right)
    [] e.k = "IfThenElse"    -> write_ite(e, right, budget)
    [] e.k = "BoxJoin"       -> write_boxjoin(e)
    [] e.k = "Quant"         -> write_quant(e, right)
    [] e.k = "Comprehension" -> write_comprehension(e)
    [] e.k = "Let"           -> write_let(e, right)
    [] e.k = "Block"         -> write_block_body(e)

write_decl(d) ==
  LET exact == d.bound.k = "Unary" /\ d.bound.op = "ExactlyOf"
  IN  If(d.isVar, "Var") \o If(d.private, "Private") \o If(d.disj, "Disj")
      \o Named(d.names) \o
      (IF exact THEN <<T("Equals")>> \o write_expr(d.bound.e, TRUE, TOP)
       ELSE <<T("Colon")>> \o If(d.bdisj, "Disj") \o write_expr(d.bound, TRUE, TOP))

----------------------------------------------------------------------------
(* Paragraphs.                                                             *)

write_header(h) ==
  LET param(x) == If(x.exact, "Exactly") \o write_qualname(x.name)
  IN  <<T("Module")>> \o write_qualname(h.name) \o
      (IF h.params = <<>> THEN <<>>
       ELSE In("LBracket", Separated(Each(h.params, param), "Comma"), "RBracket"))

write_open(o) ==
  If(o.private, "Private") \o <<T("Open")>> \o write_qualname(o.module) \o
  (IF o.args = <<>> THEN <<>>
   ELSE In("LBracket", Separated(Each(o.args, write_qualname), "Comma"), "RBracket"))
  \o Optional(o.alias, LAMBDA x: <<T("As"), Id(x)>>)

write_sig_parent(parent) ==
  If(parent.how # "None", parent.how)
  \o Separated(Each(parent.of, write_qualname), "Plus")

write_sig(s) ==
  LET q == s.qual
  IN  If(q.private, "Private") \o If(q.abstract, "Abstract") \o If(q.isVar, "Var")
      \o Optional(q.mult, LAMBDA m: <<T(m)>>) \o <<T("Sig")>> \o Named(s.names)
      \o write_sig_parent(s.parent)
      \o In("LBrace", write_inline_decls(s.fields), "RBrace")
      \o Optional(s.fact, write_block_body)

write_params(params) ==
  IF params = <<>> THEN <<>>
  ELSE In("LBracket", write_inline_decls(params), "RBracket")

write_receiver(f) == Optional(f.receiver, LAMBDA q: write_qualname(q) \o <<T("Dot")>>)

write_pred(f) ==
  If(f.private, "Private") \o <<T("Pred")>> \o write_receiver(f) \o Word(f.name)
  \o write_params(f.params) \o write_block_body(f.body)

write_fun(f) ==
  If(f.private, "Private") \o <<T("Fun")>> \o write_receiver(f) \o Word(f.name)
  \o write_params(f.params) \o <<T("Colon")>> \o write_expr(f.returns, TRUE, TOP)
  \o write_block_body(f.body)

\* A body that is a block is written with no `=`.
write_macro(m) ==
  If(m.private, "Private") \o <<T("Let")>> \o Word(m.name)
  \o (IF m.params = <<>> THEN <<>> ELSE In("LBracket", Named(m.params), "RBracket"))
  \o (IF m.body.k = "Block" THEN write_block_body(m.body)
      ELSE <<T("Equals")>> \o write_expr(m.body, TRUE, TOP))

write_type_scope(ts) ==
  LET closed == IsBounded(ts.end) /\ ts.end[2] = ts.start
      dots == <<T("Dot"), T("Dot")>>
  IN  If(ts.exact /\ ~closed, "Exactly") \o <<Number(ts.start)>>
      \o (CASE ts.end = Same       -> <<>>
            [] IsBounded(ts.end)   -> dots \o <<Number(ts.end[2])>>
            [] ts.end = Unbounded  -> dots)
      \o Optional(ts.inc, LAMBDA i: <<T("Colon"), Number(i)>>)
      \o (IF ts.target[1] = "Sig" THEN write_qualname(ts.target[2])
          ELSE Word(ts.target[1]))

write_scope(s) ==
  LET entries == Separated(Each(s.entries, write_type_scope), "Comma")
  IN  <<T("For")>> \o Optional(s.default, LAMBDA n: <<Number(n)>>)
      \o If(s.default # Nothing /\ s.entries # <<>>, "But") \o entries

write_cmd(x) ==
  If(x.followup, "Implies")
  \o Optional(x.target.label, LAMBDA l: <<Id(l), T("Colon")>>) \o <<T(x.kind)>>
  \o Optional(x.target.name, write_qualname)
  \o Optional(x.target.block, write_block_body)
  \o Optional(x.scope, write_scope)
  \o Optional(x.expect, LAMBDA n: <<T("Expect")>> \o Numeral(n))

write_para(x) ==
  LET name == Optional(x.name, LAMBDA t: <<t>>)
  IN  CASE x.k = "Sig"    -> write_sig(x)
        [] x.k = "Enum"   -> <<T("Enum")>> \o Word(x.name)
                             \o In("LBrace", Named(x.variants), "RBrace")
        [] x.k = "Fact"   -> <<T("Fact")>> \o name \o write_block_body(x.body)
        [] x.k = "Assert" -> <<T("Assert")>> \o name \o write_block_body(x.body)
        [] x.k = "Pred"   -> write_pred(x)
        [] x.k = "Fun"    -> write_fun(x)
        [] x.k = "Macro"  -> write_macro(x)
        [] x.k = "Cmd"    -> write_cmd(x)

RECURSIVE Concat(_)
Concat(texts) == IF texts = <<>> THEN <<>> ELSE texts[1] \o Concat(Tail(texts))

\* The tokens of the text of a whole file.
pretty(ast) ==
  Optional(ast.header, write_header) \o Concat(Each(ast.opens, write_open))
  \o Concat(Each(ast.paras, write_para)) \o <<T("Eof")>>
=============================================================================
