----------------------------- MODULE MCFrontend -----------------------------
(***************************************************************************)
(* Every construct of the language inside every other, written with        *)
(* parentheses around every operand; the paragraphs, commands and scopes;  *)
(* chains that reach the limits; and lines for the prompt.                 *)
(***************************************************************************)
EXTENDS Frontend

MCMaxExprDepth == 24
MCMaxAstPath == 36
MCDollar == {"x$0"}

(*------------------------ the text an author writes ------------------------*)
RECURSIVE Text(_), Glued(_)
\* A word where only a name can stand: with no arguments, it is one.
WordNamed == {Name(q) : q \in WordNames}
Paren(e) == In("LParen", Text(e), "RParen")
Glued(texts) == IF texts = <<>> THEN <<>> ELSE texts[1] \o Glued(Tail(texts))
DeclText(d) ==
  Named(d.names) \o
  (CASE d.bound.k = "Unary" /\ d.bound.op = "ExactlyOf"
          -> <<T("Equals")>> \o Paren(d.bound.e)
     [] OTHER -> <<T("Colon")>> \o Paren(d.bound))
DeclsText(ds) == Separated(Each(ds, DeclText), "Comma")
Text(e) ==
  CASE e.k = "Unary" /\ e.op = "Prime" -> Paren(e.e) \o <<T("Prime")>>
    [] e.k = "Unary" /\ e.op # "Prime" -> prefix_str(e.op) \o Paren(e.e)
    [] e.k = "Binary" /\ e.op = "Join" -> Paren(e.l) \o <<T("Dot")>> \o Paren(e.r)
    [] e.k = "Binary" /\ e.op # "Join" -> Paren(e.l) \o binop_str(e.op) \o Paren(e.r)
    [] e.k = "Arrow" -> Paren(e.l) \o If(e.lm # "None", e.lm) \o <<T("Arrow")>>
                        \o If(e.rm # "None", e.rm) \o Paren(e.r)
    [] e.k = "Compare" -> Paren(e.l) \o cmp_str(e.op, e.negated) \o Paren(e.r)
    [] e.k = "IfThenElse" -> Paren(e.c) \o <<T("Implies")>> \o Paren(e.t)
                             \o <<T("Else")>> \o Paren(e.e)
    [] e.k = "BoxJoin" -> Paren(e.target)
                          \o In("LBracket", Separated(Each(e.args, Paren), "Comma"), "RBracket")
    [] e.k = "Quant" -> <<T(e.q)>> \o DeclsText(e.decls) \o <<T("Bar")>> \o Paren(e.body)
    [] e.k = "Comprehension" -> In("LBrace", DeclsText(e.decls) \o <<T("Bar")>> \o Paren(e.body), "RBrace")
    [] e.k = "Let" -> <<T("Let"), Id(e.bindings[1][1]), T("Equals")>> \o Paren(e.bindings[1][2])
                      \o <<T("Bar")>> \o Paren(e.body)
    [] e.k = "Block" -> In("LBrace", Glued(Each(e.forms, Paren)), "RBrace")
    [] e \in WordNamed -> Word(e.name[1]) \o <<T("LBracket"), T("RBracket")>>
    [] OTHER -> write_expr(e, TRUE, TOP)

(*------------------------------- the trees ---------------------------------*)
a == Name(<<"a">>)
b == Name(<<"b">>)
Decl(x, bound) == [names |-> <<x>>, bound |-> apply_mult(bound), bdisj |-> FALSE,
                   isVar |-> FALSE, private |-> FALSE, disj |-> FALSE]
Defined(x, e) == [Decl(x, e) EXCEPT !.bound = Unary("ExactlyOf", e)]
Within(x, y) == Compare("In", FALSE, x, apply_mult(y))

\* One operator of each level.
Levels == {"Seq", "Or", "Iff", "Implies", "And", "Until", "Shl", "Diff", "IntMul",
           "Override", "Intersect", "DomRestrict", "RanRestrict", "Join"}
Prefixes == {"Not", "Some", "Card", "SumOf", "Closure", "Prime"}

\* Every tree with x in one place.
Around(x) ==
  UNION {{Binary(op, x, a), Binary(op, a, x)} : op \in Levels}
  \cup {Unary(op, x) : op \in Prefixes}
  \cup {Within(x, a), Within(a, x), Compare("Lt", TRUE, x, a), Compare("Lt", TRUE, a, x),
        Arrow(x, "Lone", "None", a), Arrow(a, "None", "Some", x)}
  \cup {Quant("Some", <<Decl("y", a)>>, x), Quant("All", <<Decl("y", x), Decl("z", a)>>, b),
        Quant("Sum", <<Decl("y", a), Defined("z", x), Decl("w", a)>>, b),
        Comprehension(<<Decl("y", a)>>, x), Let(<<<<"y", x>>>>, a), Let(<<<<"y", a>>>>, x)}
  \cup {IfThenElse(x, a, b), IfThenElse(a, x, b), IfThenElse(a, b, x)}
  \cup {Block(<<x>>), Block(<<x, a>>), Block(<<a, x>>), BoxJoin(x, <<a>>), BoxJoin(a, <<x, b>>)}

Flat(S) == UNION {Around(x) : x \in S}
Leaves == {Num(-5), Num(5), AtName(<<"b">>), Name(<<"steps">>), Name(<<"sum">>)}

Fact(e) == [header |-> Nothing, opens |-> <<>>,
            paras |-> <<[k |-> "Fact", name |-> Nothing, body |-> Block(<<e>>)]>>]
Written(e) == [text |-> <<T("Fact"), T("LBrace")>> \o Text(e) \o <<T("RBrace"), T("Eof")>>,
               meant |-> Just(Fact(e))]
Nested == Flat(Flat({a, Num(-5)})) \cup Flat(Leaves)

\* A then-branch whose last `else` is a bare `=>`, and its neighbours.
Dangling == {IfThenElse(a, IfThenElse(b, x, y), z) :
               x \in {a, Binary("Implies", a, b)},
               y \in {b, Binary("Implies", a, b), IfThenElse(a, b, Binary("Implies", b, a)),
                      Binary("And", a, Binary("Implies", a, b))},
               z \in {b, Binary("Implies", a, b)}}

(*---------------------- files, written as they stand -----------------------*)
Unsure(ts) == [text |-> ts \o <<T("Eof")>>, meant |-> Nothing]
InFact(ts) == <<T("Fact"), T("LBrace")>> \o ts \o <<T("RBrace")>>
N(x) == <<Id(x)>>
Repeated(ts, n) == Glued([i \in 1..n |-> ts])

\* Long chains: of infixes, of prefixes, of postfixes and of parentheses.
Chain(n) ==
  {N("a") \o Repeated(ts, n) : ts \in
     {<<T(op), Id("a")>> : op \in {"Plus", "Dot", "Implies", "Arrow", "Semi", "And", "Equals"}}
     \cup {<<T("Prime")>>, <<T("LBracket"), Id("a"), T("RBracket")>>}}
  \cup {Repeated(<<T(op)>>, n) \o N("a") : op \in {"Not", "Caret", "Always", "Hash"}}
  \cup {Repeated(<<T("LParen")>>, n) \o N("a") \o Repeated(<<T("RParen")>>, n),
        Repeated(<<T("LBrace"), Id("a")>>, n) \o Repeated(<<T("RBrace")>>, n),
        Repeated(<<Id("a"), T("Implies"), Id("b"), T("Else")>>, n) \o N("a"),
        Repeated(<<T("All"), Id("x"), T("Colon"), Id("a"), T("Bar")>>, n) \o N("b"),
        Repeated(<<T("Let"), Id("x"), T("Equals")>>, n) \o N("a") \o Repeated(<<T("Bar"), Id("b")>>, n)}
Chains == {Unsure(InFact(ts)) : ts \in UNION {Chain(n) : n \in {1, 2, 5, 10, 11, 12, 20, 23, 24, 25, 34, 35, 36, 37, 40}}}

\* Commands: labels, targets, scopes, expectations and those that follow up.
Run(ts) == Unsure(<<T("Run")>> \o ts)
Targets == {N("p"), <<T("This"), T("Slash"), Id("p")>>, <<T("Seq"), T("Slash"), Id("p")>>,
            <<T("LBrace"), Id("a"), T("RBrace")>>}
Commands ==
  {Unsure(pre \o <<T("Run")>> \o t \o post) :
     pre \in {<<>>, N("c") \o <<T("Colon")>>, <<T("Let"), Id("m"), T("Equals"), Id("a")>>},
     t \in Targets \cup {N("c") \o t : t \in Targets},
     post \in {<<>>, <<T("For"), Number(3)>>, <<T("Expect"), Number(1)>>,
               <<T("Implies"), T("Check")>> \o N("q"), N("d") \o <<T("Colon"), T("Check")>> \o N("q")}}
Scopes ==
  {Run(N("p") \o <<T("For")>> \o base \o exact \o <<Number(2)>> \o range \o inc \o target) :
     base \in {<<>>, <<Number(3), T("But")>>, <<Number(1), Id("B"), T("Comma")>>},
     exact \in {<<>>, <<T("Exactly")>>},
     range \in {<<>>, <<T("Dot"), T("Dot")>>, <<T("Dot"), T("Dot"), Number(2)>>,
                <<T("Dot"), T("Dot"), Number(4)>>},
     inc \in {<<>>, <<T("Colon"), Number(1)>>},
     target \in {<<>>, N("A"), <<T("This"), T("Slash"), Id("A")>>, <<T("Steps")>>, <<T("Int")>>,
                 <<T("Seq")>>, <<T("StringKw")>>, <<T("Univ")>>}}

\* Sigs, enums, predicates, functions and macros, and what comes before them.
SomeA == <<Id("x"), T("Minus"), T("LParen"), T("Sum"), Id("A"), T("RParen")>>
Fields == {<<>>, <<Id("f"), T("Colon"), Id("A")>>,
           <<T("Disj"), Id("f"), T("Comma"), Id("g"), T("Colon"), T("Lone"), Id("A")>>,
           <<T("Var"), Id("f"), T("Colon"), T("Disj"), T("Set"), Id("A"), T("Comma")>>,
           <<Id("f"), T("Equals"), Id("A"), T("Comma"), Id("g"), T("Colon"), Id("A")>>,
           <<Id("f"), T("Colon")>> \o SomeA \o <<T("Comma"), Id("g"), T("Colon"), Id("A")>>,
           <<Id("f"), T("Colon")>> \o SomeA \o <<T("Comma"), T("Var"), Id("g"), T("Colon"), Id("A")>>}
Sigs ==
  {Unsure(qual \o <<T("Sig"), Id("S")>> \o parent \o In("LBrace", fields, "RBrace") \o fact) :
     qual \in {<<>>, <<T("Private"), T("Some")>>, <<T("Var"), T("Abstract")>>, <<T("One"), T("One")>>},
     parent \in {<<>>, <<T("Extends"), Id("P")>>, <<T("In"), Id("P"), T("Plus"), Id("Q")>>, <<T("Equals"), T("Int")>>},
     fields \in Fields,
     fact \in {<<>>, In("LBrace", N("a"), "RBrace")}}
Defs ==
  {Unsure(priv \o <<T(what)>> \o who \o params \o tail) :
     priv \in {<<>>, <<T("Private")>>}, what \in {"Pred", "Fun", "Let"},
     who \in {N("n"), <<Id("S"), T("Dot"), Id("n")>>, N("x$0")},
     params \in {<<>>, <<T("LBracket"), Id("x"), T("Colon"), Id("A"), T("RBracket")>>,
                 <<T("LParen"), Id("x"), T("Comma"), Id("y"), T("RParen")>>},
     tail \in {<<T("LBrace"), Id("a"), T("RBrace")>>, <<T("Equals"), Id("a")>>,
               <<T("Colon"), T("Lone"), Id("A"), T("LBrace"), Id("a"), T("RBrace")>>,
               <<T("Colon"), T("LParen"), T("Some"), Id("x"), T("Colon"), Id("A"), T("Bar"), Id("b"),
                 T("RParen"), T("LBrace"), Id("a"), T("RBrace")>>}}
Openings == {<<T("Module"), Id("m")>>, <<T("Open"), Id("u"), T("As"), Id("v")>>,
             <<T("Module"), Id("m"), T("LBracket"), T("Exactly"), Id("e"), T("Comma"), Id("f"), T("RBracket")>>,
             <<T("Private"), T("Open"), Id("u"), T("LBracket"), T("Int"), T("RBracket")>>,
             <<T("Enum"), Id("E"), T("LBrace"), Id("x"), T("Comma"), Id("y"), T("RBrace")>>,
             <<T("Enum"), Id("E"), T("LBrace"), T("RBrace")>>,
             <<T("Assert"), <<"Str", "s">>, T("LBrace"), T("RBrace")>>}
Files == {Unsure(x \o y) : x \in Openings, y \in Openings}

MCSources == {Written(e) : e \in Nested \cup Dangling} \cup Chains \cup Commands
             \cup Scopes \cup Sigs \cup Defs \cup Files

\* Primes over and under the other operators of sets.
MCPrimed == {Written(Unary(op, e)) : op \in {"Prime", "Closure"}, e \in Flat({a})}
MCNoPrompts == {}

(*------------------------------ the prompt ---------------------------------*)
Pieces == {<<>>, N("a"), <<T("RBrace")>>, <<T("LBrace")>>, <<T("Run")>>, <<T("Implies")>>, <<T("Fact")>>}
MCPrompts == {w \o x \o y \o z : w, x, y, z \in Pieces}
=============================================================================
