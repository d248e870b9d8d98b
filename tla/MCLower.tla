------------------------------- MODULE MCLower -------------------------------
(* A small universe: a signature B of two atoms, a subset A of it, a        *)
(* signature C of one, integers of width 2; f in B -> B, g in B -> Int,     *)
(* u in C -> B, k in C -> B -> B, m in C -> B -> B -> B, q in C -> seq B;   *)
(* h is one pair of B's atoms.                                              *)
(* Each world varies the relations it names.                                *)
EXTENDS Meaning

Rel(name, n) == [at |-> <<>>, name |-> name, n |-> n, upper |-> {}]
RelNode(name, n) == [k |-> "rel", r |-> Rel(name, n)]
MCSigAtoms == 3
MCBitwidth == 2
MCStringAtoms == 1
BB == {<<0>>, <<1>>}
Ints == {<<3>>, <<4>>, <<5>>, <<6>>}              \* -2 .. 1
Pair(a, b) == {s \o t : s \in a, t \in b}
Successor == {<<3, 4>>, <<4, 5>>, <<5, 6>>}
IxRange == {<<5>>, <<6>>}
Upper == [A |-> BB, B |-> BB, C |-> {<<2>>}, Int |-> Ints, seqInt |-> IxRange, str |-> {<<7>>},
          next |-> Successor, zero |-> {<<5>>}, f |-> Pair(BB, BB), g |-> Pair(BB, {<<3>>, <<5>>, <<6>>}),
          u |-> Pair({<<2>>}, BB), k |-> Pair({<<2>>}, Pair(BB, BB)),
          m |-> Pair({<<2>>}, Pair(BB, Pair(BB, BB))), q |-> Pair({<<2>>}, Pair(IxRange, BB)), h |-> {<<0, 1>>}]
Varying == {"A", "f", "g", "u", "k", "m", "q"}
Columns0 == [A |-> 1, B |-> 1, C |-> 1, Int |-> 1, seqInt |-> 1, str |-> 1, next |-> 2, zero |-> 1,
             f |-> 2, g |-> 2, h |-> 2, u |-> 2, k |-> 3, m |-> 4, q |-> 3]
R(name) == Rel(name, Columns0[name])
RN(name) == RelNode(name, Columns0[name])
MCRelations == {R(name) : name \in DOMAIN Columns0}
MCRelUpper == [r \in MCRelations |-> Upper[r.name]]
MCRelLower == [r \in MCRelations |-> IF r.name \in Varying THEN {} ELSE Upper[r.name]]
MCIntSig == R("Int")
MCSeqIntSig == R("seqInt")
MCTopLevelSigs == <<"B", "C", "Int">>
MCSigDenote == [s \in {"A", "B", "C", "Int"} |-> RN(s)]
MCFieldDenote == [s \in {"f", "g", "h", "u", "k", "m", "q"} |-> RN(s)]
MCFieldArity == [s \in {"f", "g", "h", "u", "k", "m", "q"} |-> Columns0[s]]
MCStringDenote == [hello |-> RN("str")]
MCIntNext == RN("next")
MCIntZero == RN("zero")
MCSeqInt == RN("seqInt")

(*------------------------------ surface trees ------------------------------*)
SigC(s) == [c |-> "sig", s |-> s]
S(s) == [k |-> "name", name |-> s, c |-> SigC(s)]
F(f) == [k |-> "name", name |-> f, c |-> [c |-> "field", f |-> f, this |-> FALSE]]
FThis(f) == [k |-> "name", name |-> f, c |-> [c |-> "field", f |-> f, this |-> TRUE]]
V(v) == [k |-> "name", name |-> v, c |-> [c |-> "var"]]
This == [k |-> "this"]
Const(c) == [k |-> "const", c |-> c]
D(l, r) == [k |-> "join", l |-> l, r |-> r, c |-> [c |-> "spine"]]
Box(t, args) == [k |-> "box", target |-> t, args |-> args, c |-> [c |-> "spine"]]
BuiltinCall(op, args) == [k |-> "box", target |-> V(op), args |-> args, c |-> [c |-> "builtin", op |-> op]]
BuiltinName(op) == [k |-> "name", name |-> op, c |-> [c |-> "builtin", op |-> op]]
CallOf(f, args, this) == [k |-> "box", target |-> V(f), args |-> args,
                          c |-> [c |-> "call", f |-> f, args |-> args, this |-> this]]
Call0(f) == [k |-> "name", name |-> f, c |-> [c |-> "call", f |-> f, args |-> <<>>, this |-> TRUE]]
MacroOf(params, args, callables, body) ==
  [k |-> "box", target |-> V("macro"), args |-> args,
   c |-> [c |-> "macro", params |-> params, args |-> args, callables |-> callables, body |-> body]]
Rb(op, l, r) == [k |-> "rbin", op |-> op, l |-> l, r |-> r]
Un(op, e) == [k |-> "un", op |-> op, e |-> e]
Marked(op, e) == [k |-> "marker", op |-> op, e |-> e]
Arrow(l, lm, rm, r) == [k |-> "arrow", l |-> l, lm |-> lm, rm |-> rm, r |-> r]
Num_(n) == [k |-> "num", n |-> n]
Card(e) == [k |-> "card", e |-> e]
Iop(op, l, r) == [k |-> "iop", op |-> op, l |-> l, r |-> r]
Cmp(op, l, r) == [k |-> "cmp", op |-> op, neg |-> FALSE, l |-> l, r |-> r]
NotCmp(op, l, r) == [k |-> "cmp", op |-> op, neg |-> TRUE, l |-> l, r |-> r]
Test(t, e) == [k |-> "test", test |-> t, e |-> e]
Neg(e) == [k |-> "not", e |-> e]
Bin(op, l, r) == [k |-> "bin", op |-> op, l |-> l, r |-> r]
Block(fs) == [k |-> "block", fs |-> fs]
Ite(c, t, e) == [k |-> "ite", c |-> c, t |-> t, e |-> e]
Decl(names, bound) == [names |-> names, disj |-> FALSE, bound |-> bound, bdisj |-> FALSE]
DisjDecl(names, bound) == [Decl(names, bound) EXCEPT !.disj = TRUE]
Q(q, decls, body) == [k |-> "quant", q |-> q, decls |-> decls, body |-> body]
Comp(decls, body) == [k |-> "comp", decls |-> decls, body |-> body]
Let(name, value, body) == [k |-> "let", bs |-> <<[name |-> name, value |-> value]>>, body |-> body]
Meta(fold, bound, body) ==      \* body re-resolved for each atom
  [k |-> "meta", fold |-> fold, var |-> "a", bound |-> bound,
   bindings |-> <<[atom |-> "A", body |-> body], [atom |-> "C", body |-> body]>>]

Pred(params, decls, body) == [pred |-> TRUE, params |-> params, decls |-> decls, body |-> body,
                              int |-> FALSE, recursive |-> FALSE]
Fun(params, body, int) == [Pred(params, <<>>, body) EXCEPT !.pred = FALSE, !.int = int]
MCFuncs ==
  [linked  |-> Pred(<<"x", "y">>, <<Decl(<<"x", "y">>, S("A"))>>, Cmp("in", V("y"), D(V("x"), F("f")))),
   apart   |-> Pred(<<"x", "y">>, <<DisjDecl(<<"x", "y">>, S("A"))>>, Block(<<>>)),
   whole   |-> Pred(<<"r">>, <<Decl(<<"r">>, Arrow(S("A"), "", "", S("B")))>>,
                    Cmp("eq", V("r"), F("f"))),
   subsets |-> Pred(<<"x", "y">>, <<Decl(<<"x">>, Marked("some", S("A"))),
                                    Decl(<<"y">>, Comp(<<Decl(<<"z">>, S("A"))>>, Cmp("in", V("z"), V("x"))))>>,
                    Test("some", D(V("y"), F("f")))),
   loops   |-> [Pred(<<>>, <<>>, Call0("loops")) EXCEPT !.recursive = TRUE],
   here    |-> Pred(<<"this", "y">>, <<Decl(<<"this">>, S("B")), Decl(<<"y">>, S("B"))>>,
                    Cmp("in", V("y"), FThis("f"))),
   twice   |-> Pred(<<"x">>, <<>>, Q("some", <<Decl(<<"y">>, S("B"))>>,
                                     Cmp("in", V("x"), D(V("y"), F("f"))))),
   before  |-> Fun(<<"x">>, D(F("f"), V("x")), FALSE),
   after   |-> Fun(<<"x">>, D(V("x"), F("f")), FALSE),
   sized   |-> Fun(<<"x">>, Card(V("x")), TRUE),
   degree  |-> Fun(<<"x">>, Card(D(V("x"), F("f"))), TRUE),
   asks    |-> Pred(<<"x">>, <<>>, Test("some", Box(F("f"), <<V("x")>>))),
   named   |-> Pred(<<"x">>, <<>>, Cmp("in", V("x"), S("A")))]

NoSays == Block(<<>>)
Run(body) == [kind |-> "run", target |-> "block", body |-> body, func |-> "", globals |-> <<>>]
Check(body) == [Run(body) EXCEPT !.kind = "check"]
RunOf(f) == [Run(NoSays) EXCEPT !.target = "named", !.func = f]
Rels(names) == {R(n) : n \in names}
World(cmd, uses) == [cmd |-> cmd, uses |-> Rels(uses), bounds |-> <<>>, facts |-> <<>>, empty |-> <<>>,
                     fields |-> <<>>, groups |-> <<>>, appended |-> <<>>]
FieldOf(f, owner, bound) == [f |-> f, owner |-> owner, bound |-> bound, defined |-> FALSE, meta |-> <<>>,
                             bdisj |-> FALSE]

(*--------------------- what there is, and where it is said ---------------------*)
Linked(x, y) == Cmp("in", V(y), D(V(x), F("f")))
Contexts(e) ==
  <<e, Neg(e), Bin("and", e, Test("some", S("A"))), Bin("or", Test("no", S("A")), e),
    Bin("imp", e, Test("no", S("A"))), Bin("imp", Test("some", S("A")), e),
    Bin("iff", e, Test("some", S("A"))), Block(<<Test("some", S("A")), e>>),
    Neg(Block(<<e, Test("no", S("A"))>>)), Neg(Bin("and", e, Test("no", S("A")))),
    Neg(Bin("or", e, Test("no", S("A")))), Neg(Bin("imp", e, Test("no", S("A")))),
    Ite(Test("some", S("A")), e, Neg(e)), Ite(e, Test("some", S("A")), NoSays),
    Let("p", e, Bin("and", V("p"), Neg(Bin("imp", V("p"), Test("some", S("A")))))),
    Q("all", <<Decl(<<"w">>, S("B"))>>, Bin("or", Cmp("in", V("w"), S("A")), e))>>
Sayings ==
  <<Q("some", <<Decl(<<"x">>, S("A"))>>, Linked("x", "x")),
    Q("all", <<Decl(<<"x">>, S("A"))>>, Q("some", <<Decl(<<"y">>, S("B"))>>, Linked("x", "y"))),
    Q("some", <<Decl(<<"x">>, S("B"))>>, Q("all", <<Decl(<<"y">>, S("A"))>>, Linked("x", "y"))),
    Q("no", <<DisjDecl(<<"x", "y">>, S("B"))>>, Linked("x", "y")),
    Q("some", <<DisjDecl(<<"x", "y">>, S("A"))>>, Linked("x", "y")),
    Q("one", <<DisjDecl(<<"x", "y">>, S("B"))>>, Linked("x", "y")),
    Q("lone", <<Decl(<<"x">>, S("B"))>>, Q("some", <<Decl(<<"y">>, S("A"))>>, Linked("x", "y"))),
    Q("some", <<Decl(<<"r">>, Marked("set", S("B")))>>, Cmp("eq", D(V("r"), F("f")), S("A"))),
    Q("all", <<Decl(<<"r">>, Marked("some", S("B")))>>, Cmp("in", D(V("r"), F("f")), V("r"))),
    Q("no", <<Decl(<<"r">>, Marked("lone", S("B")))>>, Cmp("eq", D(V("r"), F("f")), S("A"))),
    Q("some", <<Decl(<<"r">>, Arrow(S("A"), "", "one", S("B")))>>, Cmp("in", V("r"), F("f"))),
    Q("some", <<Decl(<<"x">>, S("A")), Decl(<<"y">>, D(V("x"), F("f")))>>, NotCmp("eq", V("x"), V("y"))),
    Q("some", <<Decl(<<"x">>, Comp(<<Decl(<<"z">>, S("B"))>>, Linked("z", "z")))>>, Linked("x", "x")),
    Q("some", <<Decl(<<"p">>, F("f"))>>, Cmp("in", Un("transpose", V("p")), F("f")))>>
PolarityWorlds ==      \* every other one checked
  FlattenSeq([i \in 1..Len(Sayings) |-> [j \in 1..16 |->
    World(IF (i + j) % 2 = 0 THEN Run(Contexts(Sayings[i])[j]) ELSE Check(Contexts(Sayings[i])[j]), {"A", "f"})]])

(*------------------------------ what a fragment says ------------------------------*)
Restrict_(dom, l, r) == [k |-> "restrict", dom |-> dom, l |-> l, r |-> r]
SumOver(decls, body) == Q("sum", decls, body)
Str(s) == [k |-> "str", s |-> s]
IntOf(e) == [k |-> "intof", e |-> e]
LeastInt == Rb("diff", Num_(0), Num_(2))
AsAtom(e) == BuiltinCall("IntAtom", <<e>>)
AsInt(e) == BuiltinCall("IntCast", <<e>>)
SomeA == Test("some", S("A"))
OverA == <<Decl(<<"x">>, S("A"))>>
RelSayings ==
  <<Rb("union", F("f"), Un("transpose", F("f"))), Rb("intersect", F("f"), Arrow(S("A"), "", "", S("B"))),
    Rb("diff", Const("iden"), F("f")), Rb("override", F("f"), Arrow(S("A"), "", "", S("A"))),
    Un("closure", F("f")), Un("rclosure", F("f")), Const("univ"), Rb("diff", Const("univ"), S("A")),
    Const("none"), Str("hello"), Marked("set", D(S("A"), F("f"))), Box(F("f"), <<S("A")>>),
    Restrict_(TRUE, S("A"), F("f")), Restrict_(FALSE, F("f"), S("A")), Restrict_(TRUE, S("A"), S("B")),
    Ite(SomeA, F("f"), Un("transpose", F("f"))), Block(<<S("A")>>),
    Let("x", S("A"), Let("x", D(V("x"), F("f")), V("x"))),
    Comp(<<DisjDecl(<<"x", "y">>, S("B"))>>, Linked("x", "y")),
    Comp(<<Decl(<<"p">>, F("f")), Decl(<<"x">>, S("A"))>>, Cmp("in", V("x"), D(S("B"), V("p")))),
    Comp(OverA, Q("some", <<Decl(<<"x">>, D(V("x"), F("f")))>>, NotCmp("in", V("x"), S("A")))),
    CallOf("after", <<D(S("A"), F("f"))>>, FALSE),
    MacroOf(<<"p", "x">>, <<V("after"), S("A")>>, 1 :> "after", Rb("union", Box(V("p"), <<V("x")>>), V("x"))),
    AsAtom(Card(S("A"))), BuiltinName("IntNext"), BuiltinName("IntPrev"), BuiltinName("IntMin"),
    D(BuiltinName("IntMax"), BuiltinName("IntPrev")), LeastInt, Rb("diff", Num_(1), Card(S("A"))),
    Ite(SomeA, Num_(1), Card(S("B"))), Ite(SomeA, AsAtom(Num_(1)), Num_(0))>>
TernarySayings ==
  <<Restrict_(TRUE, S("C"), F("k")), Restrict_(FALSE, F("k"), S("B")), Box(F("k"), <<S("C"), S("B")>>),
    D(S("C"), F("k"))>>
IntSayings ==
  <<IntOf(D(S("B"), F("g"))), AsInt(D(S("B"), F("g"))), IntOf(Card(F("g"))),
    Iop("add", Num_(1), Card(F("g"))), Iop("sub", IntOf(D(S("B"), F("g"))), LeastInt),
    Iop("mul", D(S("B"), F("g")), Num_(1)), SumOver(<<Decl(<<"x">>, S("B"))>>, D(V("x"), F("g"))),
    SumOver(<<Decl(<<"x", "y">>, S("B"))>>, Card(D(V("x"), F("g")))),
    SumOver(<<DisjDecl(<<"x", "y">>, S("B"))>>, Num_(1)),
    SumOver(<<DisjDecl(<<"x">>, S("B")), Decl(<<"y">>, D(V("x"), F("g")))>>, V("y")),
    Let("n", Card(F("g")), Iop("add", V("n"), V("n"))), CallOf("sized", <<F("g")>>, FALSE),
    MacroOf(<<"n">>, <<Card(F("g"))>>, <<>>, Iop("sub", Num_(0), V("n"))), Block(<<Num_(1)>>)>>
Gs == D(S("B"), F("g"))
CompareSayings ==
  <<Cmp("eq", Card(F("g")), Num_(1)), Cmp("in", Num_(0), Gs), Cmp("in", Card(F("g")), Num_(1)),
    Cmp("lt", Gs, Card(F("g"))), NotCmp("le", Num_(1), SumOver(<<Decl(<<"x">>, S("B"))>>, D(V("x"), F("g")))),
    Cmp("gt", LeastInt, Gs), Cmp("ge", AsInt(Gs), Num_(1)), Cmp("eq", Gs, Num_(1)),
    Cmp("eq", Ite(Test("some", Gs), Num_(1), Card(F("g"))), Num_(0)),
    Let("n", Card(F("g")), Cmp("eq", V("n"), Num_(1))), NotCmp("in", Gs, S("Int")),
    Cmp("eq", Ite(Test("lone", Gs), IntOf(Gs), Num_(1)), AsInt(Num_(1))),
    MacroOf(<<"n">>, <<Num_(1)>>, <<>>, Cmp("lt", V("n"), Card(F("g"))))>>
Fragment_(kind, body) == [Run(body) EXCEPT !.kind = kind]
Fragments(kind, bodies, uses) ==
  [i \in 1..Len(bodies) |-> World(Fragment_(kind, bodies[i]), uses)]
Globally == [Fragment_("evaluator", D(V("$x"), F("f"))) EXCEPT !.globals = <<[name |-> "$x", v |-> RN("A")]>>]
FragmentWorlds ==
  Fragments("evaluator", RelSayings, {"A", "f"}) \o Fragments("value", RelSayings, {"A", "f"})
    \o Fragments("evaluator", TernarySayings, {"k"}) \o Fragments("evaluator", IntSayings, {"g"})
    \o Fragments("value", IntSayings, {"g"}) \o Fragments("evaluator", CompareSayings, {"g"})
    \o Fragments("evaluator", SubSeq(Sayings, 1, 7), {"A", "f"})
    \o <<World(Globally, {"A", "f"})>>

(*------------------------------ what declarations say ------------------------------*)
WithFields(ds, uses) == [World(Run(NoSays), uses) EXCEPT !.fields = ds]
Bounded(f, owner, bound, uses) == WithFields(<<FieldOf(f, owner, bound)>>, uses)
Compound == Bounded("f", "B", Rb("union", S("A"), S("C")), {"A", "f"})
Marks == <<"", "set", "some", "lone", "one">>
Defined(f, bound, meta) == [FieldOf(f, "C", bound) EXCEPT !.defined = TRUE, !.meta = meta]
Seq_(e) == [k |-> "seqof", e |-> e]
FieldWorlds ==
  [i \in 1..4 |-> Bounded("f", "B", Marked(Marks[i + 1], S("A")), {"A", "f"})]
  \o FlattenSeq([i \in 1..5 |-> [j \in 1..5 |->
       Bounded("k", "C", Arrow(S("B"), Marks[i], Marks[j], S("A")), {"A", "k"})]])
  \o <<Bounded("f", "B", S("A"), {"A", "f"}), Compound, Bounded("g", "B", S("Int"), {"g"}),
       Bounded("u", "C", Marked("some", D(This, FThis("u"))), {"u"}),
       Bounded("k", "C", F("f"), {"f", "k"}), Bounded("q", "C", Seq_(S("A")), {"A", "q"}),
       Bounded("m", "C", Arrow(S("B"), "", "one", Arrow(S("B"), "lone", "some", S("B"))), {"m"}),
       Bounded("m", "C", Arrow(Arrow(S("B"), "some", "lone", S("B")), "one", "some", S("B")), {"m"}),
       Bounded("m", "C", Arrow(F("h"), "", "one", S("B")), {"m"}),
       Bounded("m", "C", Arrow(F("h"), "", "", S("B")), {"m"}),
       WithFields(<<Defined("u", Marked("exactly", S("A")), <<>>)>>, {"A", "u"}),
       WithFields(<<Defined("u", NoSays, <<[m |-> "sig", s |-> "A"]>>)>>, {"A", "u"}),
       WithFields(<<Defined("k", NoSays, <<[m |-> "field", f |-> "f"]>>)>>, {"f", "k"}),
       WithFields(<<Defined("u", NoSays, <<[m |-> "sigs", ss |-> <<"A", "B">>]>>)>>, {"A", "u"}),
       WithFields(<<Defined("u", NoSays, <<[m |-> "sigs", ss |-> <<>>]>>)>>, {"A", "u"}),
       WithFields(<<[FieldOf("f", "B", Marked("set", S("B"))) EXCEPT !.bdisj = TRUE]>>, {"f"}),
       [WithFields(<<FieldOf("f", "B", Marked("lone", S("B")))>>, {"A", "f"}) EXCEPT !.groups = <<<<"f", "h">>>>],
       [World(Run(SomeA), {"A", "f"}) EXCEPT !.empty = <<"A">>],
       [World(Run(SomeA), {"A", "f"}) EXCEPT !.bounds = <<TestOf("lone", RN("A"))>>]>>
Saying(facts, appended, body) ==
  [World(Run(body), {"A", "f"}) EXCEPT !.facts = facts, !.appended = appended]
OfA(body) == <<[sig |-> "A", body |-> body]>>
FactWorlds ==
  <<Saying(<<Sayings[1], Sayings[4]>>, <<>>, Sayings[1]),
    Saying(<<Bin("and", Sayings[5], Neg(Sayings[6]))>>, <<>>, Neg(Sayings[2])),
    Saying(<<>>, OfA(Test("some", FThis("f"))), NoSays), Saying(<<>>, OfA(Cmp("in", This, FThis("f"))), NoSays),
    Saying(<<>>, OfA(Q("some", <<Decl(<<"y">>, S("B"))>>, Cmp("in", V("y"), FThis("f")))), SomeA),
    Saying(<<>>, OfA(CallOf("here", <<S("A")>>, TRUE)), SomeA)>>

(*------------------------------ what is said by name ------------------------------*)
CallSayings ==
  <<Q("some", <<Decl(<<"y">>, S("B"))>>, CallOf("twice", <<V("y")>>, FALSE)),
    Q("all", <<Decl(<<"y">>, S("B"))>>, CallOf("here", <<V("y"), S("A")>>, FALSE)),
    Cmp("eq", CallOf("degree", <<S("A")>>, FALSE), Num_(1)), Neg(CallOf("twice", <<S("A")>>, FALSE)),
    CallOf("asks", <<S("A")>>, FALSE), Call0("loops"),
    Q("all", <<Decl(<<"x">>, Marked("one", S("A")))>>, Linked("x", "x")),
    MacroOf(<<"p", "s">>, <<V("named"), S("B")>>, 1 :> "named", Box(V("p"), <<V("s")>>)),
    MacroOf(<<"f">>, <<V("before")>>, 1 :> "before", CallOf("asks", <<S("A")>>, FALSE)),
    MacroOf(<<"x">>, <<D(S("A"), F("f"))>>, <<>>, Q("some", <<Decl(<<"y">>, S("B"))>>, Linked("x", "y"))),
    Q("some", OverA, Let("p", Linked("x", "x"),
      Q("some", <<Decl(<<"x">>, S("B"))>>, Bin("and", V("p"), Neg(Linked("x", "x")))))),
    Let("p", SomeA, Let("q", V("p"), Neg(Bin("or", V("q"), V("p"))))),
    BuiltinCall("Disj", <<S("A"), D(S("A"), F("f")), D(F("f"), S("A"))>>),
    Neg(BuiltinCall("TotalOrder", <<S("B"), S("A"), F("f")>>)),
    BuiltinCall("TotalOrder", <<S("B"), S("A"), F("f")>>),
    Cmp("in", F("f"), Arrow(S("B"), "one", "lone", S("A"))),
    NotCmp("in", F("f"), Arrow(S("B"), "", "some", S("B"))),
    Meta("all", S("B"), Test("some", D(V("a"), F("f")))), Meta("some", S("B"), Test("one", V("a"))),
    Meta("all", Const("univ"), Q("some", <<Decl(<<"x">>, V("a"))>>, Cmp("eq", V("x"), V("a")))),
    Neg(Meta("some", Const("univ"), Q("all", <<Decl(<<"x">>, V("a"))>>, Linked("x", "x")))),
    Test("lone", Meta("comp", Const("univ"), Test("some", D(V("a"), F("f"))))),
    Test("some", Arrow(S("A"), "", "one", S("B"))), [k |-> "temporal", e |-> SomeA],
    Ite(CallOf("named", <<S("B")>>, FALSE), Sayings[1], Sayings[2])>>
NameWorlds ==
  FlattenSeq([i \in 1..Len(CallSayings) |->
    <<World(Run(CallSayings[i]), {"A", "f"}), World(Check(CallSayings[i]), {"A", "f"})>>])
  \o <<World(RunOf("linked"), {"A", "f"}), World(RunOf("apart"), {"A"}), World(RunOf("whole"), {"A", "f"}),
       World(RunOf("subsets"), {"A", "f"}), World(RunOf("here"), {"A", "f"})>>

MCWorlds == PolarityWorlds \o FragmentWorlds \o FieldWorlds \o FactWorlds \o NameWorlds
=============================================================================
