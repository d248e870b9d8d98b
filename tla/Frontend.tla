------------------------------ MODULE Frontend ------------------------------
(***************************************************************************)
(* A source text through als-syntax and back: it is cooked and parsed, the *)
(* tree is written out again, and what was written is parsed once more, as *)
(* tests/corpus_roundtrip.rs does with the models of its corpus. Beside it *)
(* the one line of the evaluator's prompt.                                 *)
(*                                                                         *)
(* A source is its tokens and what its author meant by them, where every   *)
(* operand is between parentheses and the meaning is therefore not in      *)
(* doubt. The lexer and the layout of the printed text are left out: both  *)
(* sides are sequences of the lexer's tokens.                              *)
(***************************************************************************)
EXTENDS Printer

CONSTANTS Sources,      \* the files: [text, meant], the latter none or one
          Prompts       \* the lines typed at the prompt

VARIABLES stage,        \* how far the source has come
          source,       \* the file, or the line
          text,         \* what the parser is given next
          file,         \* the tree of the file, or of the line
          written,      \* the text printed for the tree
          again         \* the tree of a second reading

vars == <<stage, source, text, file, written, again>>

Unread == Fail("unread")

Init ==
  /\ \/ stage = "source" /\ source \in Sources /\ text = source.text
     \/ stage = "prompt" /\ source \in Prompts /\ text = InCommand(source)
  /\ file = Unread /\ written = <<>> /\ again = Unread

\* The parser is given its text: the file or the line, or one of them again.
Read ==
  /\ stage \in {"source", "prompt", "written", "bare", "fact"}
  /\ \E tree \in {parse(text)} :
       \/ stage = "source" /\ file' = tree /\ stage' = "read" /\ UNCHANGED again
       \/ stage = "prompt" /\ file' = parse_fragment(tree) /\ stage' = "asked"
          /\ UNCHANGED again
       \/ stage = "written" /\ again' = tree /\ stage' = "reread" /\ UNCHANGED file
       \/ stage = "bare" /\ again' = tree /\ stage' = "reread bare" /\ UNCHANGED file
       \/ stage = "fact" /\ again' = tree /\ stage' = "reread fact" /\ UNCHANGED file
  /\ UNCHANGED <<source, text, written>>

\* The tree of the file is printed.
WriteOut ==
  /\ stage = "read" /\ file.ok
  /\ written' = pretty(file.v)
  /\ text' = written' /\ stage' = "written"
  /\ UNCHANGED <<source, file, again>>

\* The place of the parenthesis that closes the one at i.
Closes(ts, i) ==
  LET open[k \in i..Len(ts)] ==
        (IF k = i THEN 0 ELSE open[k - 1])
        + (CASE ts[k][1] = "LParen" -> 1 [] ts[k][1] = "RParen" -> -1 [] OTHER -> 0)
  IN  CHOOSE j \in i..Len(ts) : open[j] = 0 /\ \A k \in i..(j - 1) : open[k] > 0

\* The text without the parenthesis at i and its other half.
Without(ts, i) ==
  LET j == Closes(ts, i)
  IN  SubSeq(ts, 1, i - 1) \o SubSeq(ts, i + 1, j - 1) \o SubSeq(ts, j + 1, Len(ts))

\* Whether the parenthesis at i holds a binder, and holds it only.
AroundBinder(ts, i) ==
  Kind(ts, i + 1) = "Let" \/ Kind(cook(ts), i + 1) = "Quantifier"

\* A reader of what was printed leaves a parenthesis out.
LeaveOut ==
  /\ stage = "written"
  /\ \E i \in DOMAIN written :
       written[i][1] = "LParen" /\ ~AroundBinder(written, i) /\ text' = Without(written, i)
  /\ stage' = "bare"
  /\ UNCHANGED <<source, file, written, again>>

\* The line that was taken at the prompt stands in a fact.
StandInFact ==
  /\ stage = "asked" /\ file.ok
  /\ text' = <<T("Fact"), T("LBrace")>> \o source \o <<T("RBrace"), T("Eof")>>
  /\ stage' = "fact"
  /\ UNCHANGED <<source, file, written, again>>

Next == Read \/ WriteOut \/ LeaveOut \/ StandInFact

Spec == Init /\ [][Next]_vars

\* Two trees of the same structure: places in the source are no part of them.
SameTree(x, y) == x = y

----------------------------------------------------------------------------
(* What the printer writes so that it is read back as something else.      *)

FirstKind(ts) == Kind(ts, 1)
LastEnds(ts) == ts # <<>> /\ ends_expression(ts[Len(ts)])

\* A sign after this text is read as a subtraction.
SignTaken(before, after) == FirstKind(after) = "Minus" /\ LastEnds(before)

\* A subtraction of a number after this text is read as its sign.
SignGiven(before, after) == FirstKind(after) = "Number" /\ ~LastEnds(before)

\* An `else` after this then-branch belongs to a `=>` inside it.
RECURSIVE DanglingElse(_)
DanglingElse(t) == t.k = "IfThenElse" /\
  ((t.e.k = "Binary" /\ t.e.op = "Implies") \/ DanglingElse(t.e))

\* A text that ends in a word that may quantify and in names. After a colon,
\* a first word does not quantify.
EndsAsQuantifier(ts, first) ==
  \E i \in DOMAIN ts :
    /\ first \/ i > 1
    /\ ts[i][1] \in QuantCandidates /\ Kind(ts, i - 1) # "Arrow"
    /\ (Len(ts) - i) % 2 = 1
    /\ \A j \in (i + 1)..Len(ts) :
         ts[j][1] = IF (j - i) % 2 = 1 THEN "Ident" ELSE "Comma"

IsDefined(d) == d.bound.k = "Unary" /\ d.bound.op = "ExactlyOf"
Bare(d) == ~(d.isVar \/ d.private \/ d.disj)

\* The names that are words, and are names only before a bracket or after a dot.
WordNames == {<<"sum">>, <<"int">>, <<"disj">>, <<"pred/totalOrder">>}
IsWord(e) == e.k = "Name" /\ e.name \in WordNames

RECURSIVE Kept(_)
KeptDecls(ds) ==
  \A i \in DOMAIN ds :
    \E value \in {IF IsDefined(ds[i]) THEN ds[i].bound.e ELSE ds[i].bound} :
      /\ Kept(value)
      /\ IsDefined(ds[i]) \/ value.k # "Quant"
      /\ i < Len(ds) /\ Bare(ds[i + 1]) /\ ~IsDefined(ds[i + 1])
           => ~EndsAsQuantifier(write_expr(value, TRUE, TOP), IsDefined(ds[i]))
KeptForms(forms) ==
  \A i \in DOMAIN forms :
    /\ Kept(forms[i])
    /\ i < Len(forms) =>
         /\ forms[i].k # "Binary" \/ forms[i].op # "Seq"
         /\ ~SignTaken(write_expr(forms[i], TRUE, TOP), write_expr(forms[i + 1], TRUE, TOP))
\* Whether the printed text of `e` is read back as `e`.
Kept(e) ==
  /\ ~IsWord(e)
  /\ CASE e.k = "Unary" ->
            /\ \/ Kept(e.e)
               \/ e.op \in Closures /\ e.e.k = "Name" /\ e.e.name \in {<<"sum">>, <<"int">>}
            /\ e.op = "Prime" => e.e.k # "BoxJoin"
            /\ e.op \in Closures => ~(e.e.k = "Unary" /\ e.e.op = "Prime")
            /\ e.op \in {"SumOf", "IntOf"}
                 => FirstKind(write_operand(e.e, BP_NUMUNOP, FALSE, TRUE, TOP)) # "Minus"
       [] e.k = "Binary" ->
            /\ Kept(e.l) /\ ((e.op = "Join" /\ IsWord(e.r)) \/ Kept(e.r))
            /\ e.op \in Shifts => ~(e.l.k = "Unary" /\ e.l.op \in Tests)
            /\ e.op = "Diff" => ~SignGiven(Slot(e.l, binary_bp("Diff")[1], TOP),
                                           write_operand(e.r, binary_bp("Diff")[2], FALSE, TRUE, TOP))
       [] e.k \in {"Arrow", "Compare"} -> Kept(e.l) /\ Kept(e.r)
       [] e.k = "IfThenElse" -> Kept(e.c) /\ Kept(e.t) /\ Kept(e.e) /\ ~DanglingElse(e.t)
       [] e.k = "BoxJoin" -> /\ IsWord(e.target) \/ Kept(e.target)
                             /\ \A i \in DOMAIN e.args : Kept(e.args[i])
       [] e.k \in {"Quant", "Comprehension"} -> KeptDecls(e.decls) /\ Kept(e.body)
       [] e.k = "Let" -> (\A i \in DOMAIN e.bindings : Kept(e.bindings[i][2])) /\ Kept(e.body)
       [] e.k = "Block" -> KeptForms(e.forms)
       [] OTHER -> TRUE

\* The declarations and the expressions of a paragraph, and of its label the
\* target: read with its label, a target must begin with a name of the source.
KeptPara(x) ==
  CASE x.k = "Sig" -> KeptDecls(x.fields) /\ (\A i \in DOMAIN x.fact : Kept(x.fact[i]))
    [] x.k = "Enum" -> TRUE
    [] x.k = "Pred" -> KeptDecls(x.params) /\ Kept(x.body)
    [] x.k = "Fun"  -> KeptDecls(x.params) /\ Kept(x.body) /\ Kept(x.returns)
                       /\ x.returns.k # "Quant"
    [] x.k = "Cmd"  -> /\ \A i \in DOMAIN x.target.block : Kept(x.target.block[i])
                       /\ x.target.label # Nothing /\ x.target.name # Nothing
                            => x.target.name[1][1] \notin {"this", "seq"}
    [] OTHER        -> Kept(x.body)
KeptFile(ast) == \A i \in DOMAIN ast.paras : KeptPara(ast.paras[i])

----------------------------------------------------------------------------
(* How deep a tree is.                                                     *)

\* The trees below a tree.
Below(e) ==
  LET values(ds) == {ds[i].bound : i \in DOMAIN ds}
  IN  CASE e.k = "Unary" -> {e.e}
        [] e.k \in {"Binary", "Arrow", "Compare"} -> {e.l, e.r}
        [] e.k = "IfThenElse" -> {e.c, e.t, e.e}
        [] e.k = "BoxJoin" -> {e.target} \cup {e.args[i] : i \in DOMAIN e.args}
        [] e.k \in {"Quant", "Comprehension"} -> values(e.decls) \cup {e.body}
        [] e.k = "Let" -> {e.bindings[i][2] : i \in DOMAIN e.bindings} \cup {e.body}
        [] e.k = "Block" -> {e.forms[i] : i \in DOMAIN e.forms}
        [] OTHER -> {}

\* The longest path of a tree, its primes and its sequencings not counted.
RECURSIVE Spine(_)
Spine(e) ==
  LET counted == IF \/ e.k = "Unary" /\ e.op = "Prime"
                    \/ e.k = "Binary" /\ e.op = "Seq" THEN 0 ELSE 1
      deepest == {Spine(x) : x \in Below(e)}
  IN  counted + (IF deepest = {} THEN 0
                 ELSE CHOOSE n \in deepest : \A m \in deepest : m <= n)

----------------------------------------------------------------------------
(* Properties.                                                             *)

MeantTree ==
  stage = "read" /\ source.meant # Nothing => file.ok /\ SameTree(file.v, source.meant[1])

DepthIsBounded ==
  stage = "read" /\ file.ok =>
    \A i \in DOMAIN file.v.paras :
      file.v.paras[i].k = "Fact" => Spine(file.v.paras[i].body) <= MaxAstPath

PromptIsOneExpression ==
  stage = "reread fact" =>
    again.ok /\ again.v.opens = <<>> /\ Len(again.v.paras) = 1 /\
    again.v.paras[1].body \in {file.v, Block(<<file.v>>)}

\* What is read is what was written. An expression whose every operand is between
\* parentheses is read as the tree its author meant, whatever the operators and
\* wherever the binders. The recursions over a tree, which have no limit of their
\* own, are as deep as the parser's path and no deeper, but for the primes and the
\* sequencings that it does not count. What is taken at the prompt is an expression
\* all of itself: it is read the same as the body of a fact, and no brace of it
\* closes the wrapper's.
ReadsWhatWasMeant == MeantTree /\ DepthIsBounded /\ PromptIsOneExpression

\* A printed file is read back as the same tree exactly when it holds none of
\* the shapes that `Kept` names: no other tree is lost, and those all are (the
\* parentheses a binder could do without may also put it past a limit). Where a
\* file is kept, a printed parenthesis is needed: without it and its other half
\* the text is no file, or another; only a binder may be given one it could do
\* without.
LosesOnlyTheNamed ==
  /\ stage = "reread" /\ (again.ok \/ again.why # "TooDeep")
       => ((again.ok /\ SameTree(again.v, file.v)) <=> KeptFile(file.v))
  /\ stage = "reread bare" /\ again.ok /\ SameTree(again.v, file.v) => ~KeptFile(file.v)
=============================================================================
