------------------------------ MODULE MCResolve ------------------------------
(***************************************************************************)
(* Small projects for the resolution: every graph of three files, the ways *)
(* a parametric module is opened, every hierarchy of three signatures, the *)
(* members and commands a file may get wrong, and facts about overloaded   *)
(* fields.                                                                 *)
(***************************************************************************)
EXTENDS Resolve

----------------------------------------------------------------------------
(* The makings of a file.                                                  *)

File(name, opens, paras) ==
  [name |-> name, params |-> <<>>, opens |-> opens, seqs |-> FALSE, broken |-> FALSE,
   paras |-> paras, dollars |-> {}]
Open(target, args) == [target |-> target, args |-> args, alias |-> "", private |-> FALSE]
Under(k, names) == [k |-> k, of |-> [i \in DOMAIN names |-> <<names[i]>>], exact |-> FALSE]
Topmost == Under("Top", <<>>)
SigOf(name, parent) ==
  [k |-> "Sig", names |-> <<name>>, parent |-> parent, fields |-> <<>>, abstract |-> FALSE,
   var |-> FALSE, mult |-> "", fact |-> <<>>]
Top1(name) == SigOf(name, Topmost)
Extending(name, parent) == SigOf(name, Under("Extends", <<parent>>))
Having(sig, fields) == [sig EXCEPT !.fields = fields]
Fld(name, bound) == [names |-> <<name>>, bound |-> bound, disj |-> FALSE, var |-> FALSE]
N(name) == [k |-> "Name", segs |-> <<name>>]
Un(op, e) == [k |-> "Unary", op |-> op, e |-> e]
Bi(op, l, r) == [k |-> "Binary", op |-> op, l |-> l, r |-> r]
Jn(l, r) == [k |-> "Join", l |-> l, r |-> r]
Ar(l, r) == [k |-> "Arrow", l |-> l, r |-> r, mult |-> FALSE]
Cmp(op, l, r) == [k |-> "Compare", op |-> op, neg |-> FALSE, l |-> l, r |-> r]
Fact(e) == [k |-> "Fact", body |-> e]
Asserted(name, e) == [k |-> "Assert", name |-> name, body |-> e]
Par(name, bound) == [name |-> name, bound |-> bound]
Fun(name, params, returns, body) ==
  [k |-> "Func", name |-> name, pred |-> FALSE, receiver |-> <<>>, params |-> params,
   returns |-> returns, body |-> body]
Pred(name, params, body) == [Fun(name, params, body, body) EXCEPT !.pred = TRUE]
Run(target, scopes) == [k |-> "Cmd", check |-> FALSE, target |-> target, block |-> <<>>, scopes |-> scopes]
Check(target) == [Run(target, <<>>) EXCEPT !.check = TRUE]
For(target, start) == [target |-> target, start |-> start, end |-> Same1, exact |-> FALSE, incr |-> 1]

Project(disk) == [root |-> Path(<<"r">>), disk |-> disk]
Alone(paras) == Project(Path(<<"r">>) :> File(<<>>, <<>>, paras))

----------------------------------------------------------------------------
(* The library, as much of it as is opened without being asked for.        *)

OrderSig ==
  [SigOf("Ord", Topmost) EXCEPT !.mult = "One",
     !.fields = << Fld("First", Un("SetOf", N("elem"))), Fld("Next", Ar(N("elem"), N("elem"))) >>,
     !.fact = << [k |-> "TotalOrder", args |-> <<N("elem"), N("First"), N("Next")>>] >>]
Library ==
  (IntegerName :> File(IntegerName, <<>>, <<>>))
    @@ (<<"util", "ordering">> :>
          [File(<<"util", "ordering">>, <<>>, <<OrderSig, Fun("first", <<>>, N("elem"), Jn(N("Ord"), N("First")))>>)
             EXCEPT !.params = <<[name |-> "elem", exact |-> TRUE]>>])
    @@ (<<"util", "sequniv">> :> File(<<"util", "sequniv">>, <<>>, <<>>))

----------------------------------------------------------------------------
(* Graphs of three files, each opening any of the others or itself, in     *)
(* one directory or two.                                                   *)

FileNames == <<<<"r">>, <<"a">>, <<"b">>>>
OpenLists == {<<>>, <<1>>, <<2>>, <<3>>, <<2, 3>>, <<3, 2>>}
Graph(opens, at) ==
  Project([p \in {Path(at[i]) : i \in 1..3} |->
     LET i == CHOOSE j \in 1..3 : Path(at[j]) = p
     IN  File(at[i], [j \in DOMAIN opens[i] |-> Open(at[opens[i][j]], <<>>)], <<Top1(Last(at[i]))>>)])
Layouts == {FileNames, <<<<"r">>, <<"d", "a">>, <<"d", "b">>>>, <<<<"r">>, <<"a">>, <<"a", "b">>>>}
Graphs1 == {Graph(opens, at) : opens \in [1..3 -> OpenLists], at \in Layouts}

----------------------------------------------------------------------------
(* Hierarchies.                                                            *)

ParentsOf3 ==
  {Topmost} \cup {Under("Extends", <<n>>) : n \in {"A", "B", "C", "Z"}}
    \cup {Under("Subset", <<n>>) : n \in {"A", "B", "C"}}
    \cup {Under("Subset", ns) : ns \in {<<"A", "B">>, <<"C", "A">>, <<"B", "Z">>}}
Hierarchies ==
  {Alone(<<SigOf("A", p[1]), SigOf("B", p[2]), SigOf("C", p[3]), Top1("D")>>) :
     p \in [1..3 -> ParentsOf3]}

----------------------------------------------------------------------------
(* Parameters. p takes one, and may hand it to q; r and a open p with what *)
(* each calls A or B, and a may have an A of its own.                      *)

Taking(name, exact, opens, paras) ==
  [File(name, opens, paras) EXCEPT !.params = <<[name |-> "elem", exact |-> exact]>>]
As(open, alias) == [open EXCEPT !.alias = alias]
Privately(open) == [open EXCEPT !.private = TRUE]
With1(arg) == Open(<<"p">>, << <<arg>> >>)
Holder == Having(Top1("P"), <<Fld("x", N("elem"))>>)
RootOpens ==
  {<<Open(<<"a">>, <<>>)>>, <<With1("A"), Open(<<"a">>, <<>>)>>, <<Open(<<"a">>, <<>>), With1("A")>>,
   <<With1("A"), With1("B"), Open(<<"a">>, <<>>)>>, <<As(With1("A"), "n"), As(With1("B"), "n")>>,
   <<As(With1("A"), "m"), As(With1("A"), "n")>>, <<Privately(With1("B")), Privately(Open(<<"a">>, <<>>))>>,
   <<As(With1("A"), "a"), Open(<<"a">>, <<>>)>>}
SideOpens == {<<>>, <<With1("A")>>, <<With1("C"), With1("A")>>, <<Privately(With1("C"))>>, <<Open(<<"b">>, <<>>)>>}
Parametric ==
  {Project(Path(<<"r">>) :> File(<<>>, ro, <<Top1("A"), [Top1("B") EXCEPT !.var = var]>>)
      @@ Path(<<"a">>) :> File(<<>>, so, <<Top1(own), Extending("D", own)>>)
      @@ Path(<<"b">>) :> File(<<>>, <<With1("E")>>, <<Top1("E")>>)
      @@ Path(<<"p">>) :> Taking(<<>>, exact, po, <<Holder>>)
      @@ Path(<<"q">>) :> Taking(<<>>, FALSE, <<>>, <<Holder>>)) :
     ro \in RootOpens, so \in SideOpens, own \in {"A", "C"}, var \in {FALSE, TRUE}, exact \in {FALSE, TRUE},
     po \in {<<>>, <<Open(<<"q">>, << <<"elem">> >>)>>}}

\* Opens that are refused, or found in a place of their own.
Seeking(opens) ==
  Project(Path(<<"r">>) :> File(<<>>, opens, <<Top1("A")>>)
    @@ Path(<<"d", "a">>) :> File(<<"d", "a">>, <<Open(<<"b">>, <<>>)>>, <<Top1("D")>>)
    @@ Path(<<"b">>) :> File(<<>>, <<>>, <<Top1("E")>>)
    @@ Path(<<"d", "x">>) :> File(<<"x">>, <<Open(<<"b">>, <<>>)>>, <<Top1("X")>>)
    @@ Path(<<"d", "b">>) :> File(<<>>, <<>>, <<Top1("F")>>)
    @@ Path(<<"z">>) :> [File(<<>>, <<>>, <<>>) EXCEPT !.broken = TRUE]
    @@ [segs |-> <<"m">>, ext |-> "md"] :> File(<<>>, <<>>, <<Top1("M")>>)
    @@ Path(<<"p">>) :> Taking(<<>>, FALSE, <<>>, <<Holder>>))
Plainly(names) == Open(names, <<>>)
Sought ==
  {Seeking(<<o>>) :
     o \in {Plainly(<<"d", "a">>), Plainly(<<"a">>), Plainly(<<"m">>), Plainly(<<"z">>), Plainly(<<"p">>),
            With1("none"), Open(<<"p">>, << <<"A">>, <<"A">> >>), Open(<<"util", "ordering">>, << <<"A">> >>)}}
    \cup {Seeking(<<As(Plainly(<<"b">>), "n"), As(Plainly(<<"m">>), "n")>>),
          Seeking(<<Plainly(<<"b">>), Plainly(<<"d", "a">>), Plainly(<<"m">>)>>)}
    \* x opens the b that is loaded, though one nearer is loaded afterwards.
    \cup {Seeking(<<Plainly(<<"b">>), Plainly(<<"d", "x">>), Plainly(<<"d", "b">>)>>)}

----------------------------------------------------------------------------
(* A small world to say things of: fields of one name in A and B, and the  *)
(* functions that may be meant by a name.                                  *)

Things ==
  << Having(Top1("A"), <<Fld("f", Un("OneOf", N("B"))), Fld("g", Ar(N("A"), N("B")))>>),
     Having(Top1("B"), <<Fld("f", Un("SetOf", N("A")))>>),
     Having(Extending("C", "A"), <<Fld("h", Un("SetOf", N("B")))>>),
     SigOf("E", Under("Subset", <<"A", "B">>)),
     Fun("k", <<Par("x", N("A"))>>, N("B"), Jn(N("x"), N("f"))),
     Fun("same", <<Par("x", N("univ"))>>, N("x"), N("x")),
     Pred("q", <<Par("x", N("B"))>>, Un("Some", N("x"))) >>

Words == {"A", "B", "f", "g", "h", "E"}
Leaves == {N(x) : x \in Words \cup {"C", "univ", "none", "k"}} \cup {[k |-> "Const", of |-> "iden"]}
Twos(l, r) ==
  {Bi(op, l, r) : op \in {"Union", "Override", "Intersect", "Diff", "DomRestrict", "RanRestrict"}}
    \cup {Jn(l, r), Ar(l, r), [k |-> "Box", l |-> l, args |-> <<r>>]}
Facts(es) == LET Add(e, facts) == Append(facts, Fact(e)) IN FoldSet(Add, <<>>, es)
Told(es) == Alone(Things \o Facts(es))

\* One operator, in a free fact.
Simple == {Told({Un("Some", e) : e \in UNION {Twos(l, r) : r \in Leaves}}) : l \in Leaves}

\* Two operators, either way round, and compared.
Ops == {"Union", "Intersect", "Diff", "DomRestrict", "Join", "Arrow"}
Of2(op, l, r) == CASE op = "Join" -> Jn(l, r) [] op = "Arrow" -> Ar(l, r) [] OTHER -> Bi(op, l, r)
Nested ==
  {Told({Un("Some", IF left THEN Of2(o2, Of2(o1, N(a), N(b)), N(c)) ELSE Of2(o2, N(c), Of2(o1, N(a), N(b)))) :
           b \in Words, c \in Words}) :
     a \in {"B", "f", "g", "E"}, o1 \in Ops, o2 \in Ops \ {"Diff"}, left \in {FALSE, TRUE}}
Compared ==
  {Told({Cmp(op, Of2(o1, N(a), N(b)), r) : r \in {N(c) : c \in Words} \cup {Un("Transpose", N("g")), Jn(N("f"), N("f"))},
                                           b \in Words}) :
     a \in Words, o1 \in Ops, op \in {"In", "Eq"}}

\* The same said of each atom of a signature below A, B or E.
Below == << "D1", "D2", "D3", "D4", "D5", "D6" >>
WordList == << "A", "B", "f", "g", "h", "E" >>
Saying(parent, F(_)) ==
  Alone(Things \o [i \in 1..6 |-> [SigOf(Below[i], parent) EXCEPT !.fact = <<Un("Some", F(N(WordList[i])))>>]])
AtThis == {[k |-> "This"], [k |-> "AtName", segs |-> <<"f">>], [k |-> "Name", segs |-> <<"this", "f">>]}
Rooted ==
  UNION {{LET F(b) == Of2(o1, l, b) IN Saying(parent, F),
          LET F(b) == Jn(Of2(o1, N("C"), b), l) IN Saying(parent, F)} :
            parent \in {Under("Extends", <<"C">>), Under("Extends", <<"B">>), Under("Subset", <<"A", "E">>)},
            l \in {N(a) : a \in Words} \cup AtThis, o1 \in {"Join", "Intersect", "DomRestrict", "Arrow"}}

\* Calls, choices, and names bound by a quantifier, a comprehension, a sum or
\* a let.
Called1(f, args) == [k |-> "Box", l |-> N(f), args |-> args]
Bound(op, x, bound, body) ==
  [k |-> "Binder", op |-> op, decls |-> <<[name |-> x, bound |-> bound]>>, body |-> body]
Let1(x, value, body) == [k |-> "Let", name |-> x, value |-> value, body |-> body]
Ite(c, l, r) == [k |-> "Ite", c |-> c, l |-> l, r |-> r]
Block(args) == [k |-> "Block", args |-> args]
Some1(e) == Un("Some", e)
Set1 == {N("A"), N("C"), N("E"), Jn(N("A"), N("f")), Jn(N("C"), N("h")), N("f"), Bi("Union", N("A"), N("B"))}
Said(x, y) ==
  {Some1(Called1("k", <<x>>)), Some1(Jn(x, N("k"))), Called1("q", <<x>>), Jn(x, N("q")),
   Some1(Called1("same", <<x>>)), Some1(Jn(Called1("same", <<x>>), N("f"))), Called1("q", <<Jn(x, N("f"))>>),
   Some1(Ite(Some1(y), x, y)), Some1(Jn(Ite(Called1("q", <<y>>), x, y), N("f"))),
   Ite(Some1(x), Some1(y), Called1("q", <<y>>)), Block(<<Some1(x), Cmp("In", x, y)>>), Block(<<Some1(y)>>),
   Bound("All", "x", x, Some1(Jn(N("x"), N("f")))), Bound("Some", "x", Un("OneOf", x), Cmp("In", N("x"), y)),
   Some1(Jn(Bound("Comprehension", "x", x, Cmp("In", N("x"), y)), N("f"))),
   Cmp("Lt", Bound("Sum", "x", x, Un("Card", Jn(N("x"), N("f")))), Un("Card", y)),
   Let1("x", x, Some1(Jn(N("x"), N("f")))), Let1("A", y, Cmp("Eq", N("A"), x)),
   Let1("x", N("f"), Some1(Jn(x, N("x")))), Bound("Lone", "x", Un("SetOf", x), Some1(N("x"))),
   Bi("And", Un("Not", Some1(x)), Bi("Or", Some1(y), Called1("q", <<x>>))),
   Cmp("Lt", Bi("IntAdd", Un("Card", x), [k |-> "Num"]), Un("IntOf", y)), Some1(Un("Prime", x)),
   Some1(Un("ReflexiveClosure", Ar(x, y))), Some1(Jn(y, Un("Closure", Jn(N("f"), Un("Transpose", Ar(x, y)))))),
   Cmp("In", N("f"), [Ar(x, y) EXCEPT !.mult = TRUE]), Cmp("In", x, Un("LoneOf", y)), Some1(Un("SetOf", x))}
Varied == {Told(Said(x, y)) : x \in Set1, y \in Set1}

----------------------------------------------------------------------------
(* Declarations and commands, most of them wrong in a way of their own.    *)

AB == <<Top1("A"), Extending("B", "A")>>
Disjoint1(names, bound) == [names |-> names, bound |-> bound, disj |-> TRUE, var |-> FALSE]
VarSig(sig) == [sig EXCEPT !.var = TRUE]
None1 == [k |-> "Const", of |-> "none"]
Ks == Fun("k", <<Par("x", N("A"))>>, N("A"), N("x"))
Cmd1(cmd) == AB \o <<VarSig(Top1("V")), VarSig(Extending("W", "V")), Ks, Asserted("ok", Some1(N("A"))), cmd>>
Steps(start, end, exact, incr) ==
  [target |-> <<"steps">>, start |-> start, end |-> end, exact |-> exact, incr |-> incr]
Enum1 == [k |-> "Enum", name |-> "Color", variants |-> <<"Red", "Blue">>]
Mistaken ==
  {Alone(paras) : paras \in
    {AB \o <<Top1("A")>>, <<Top1("univ")>>, <<Enum1, Top1("Red")>>, <<Enum1, Extending("A", "Color")>>,
     <<Having(Top1("A"), <<Fld("f", N("A")), Fld("f", N("B"))>>), Top1("B")>>,
     <<Having(Top1("A"), <<Disjoint1(<<"f", "g">>, N("A")), Fld("h", Un("ExactlyOf", Jn(N("this"), N("f"))))>>)>>,
     <<Having(Top1("A"), <<Fld("f", Ar(None1, N("A")))>>)>>, <<Having(Top1("A"), <<Fld("f", Called1("k", <<N("A")>>))>>), Ks>>,
     <<Having(Top1("A"), <<Fld("h", N("f")), Fld("i", Un("ExactlyOf", N("f")))>>), Having(Top1("B"), <<Fld("f", N("A"))>>)>>,
     <<Having(Top1("A"), <<Fld("f", N("A"))>>), Having(Extending("B", "A"), <<Fld("f", N("A"))>>)>>,
     <<Having(Top1("A"), <<Fld("f", N("Z")), Fld("g", Un("SeqOf", N("A")))>>)>>,
     AB \o <<Fun("k", <<Par("x", N("A")), Par("x", N("B"))>>, N("A"), N("x"))>>,
     AB \o <<Fun("k", <<Par("x", N("A"))>>, N("A"), Ar(N("x"), N("x")))>>,
     AB \o <<Top1("C"), Fun("k", <<Par("x", N("A"))>>, N("C"), N("x"))>>,
     AB \o <<[Pred("q", <<Par("x", N("A"))>>, Cmp("In", N("x"), N("this"))) EXCEPT !.receiver = <<"B">>]>>,
     AB \o <<Fun("k", <<>>, N("A"), N("B")), Fun("l", <<Par("x", N("k"))>>, N("A"), N("x"))>>,
     AB \o <<Fun("l", <<Par("x", N("k"))>>, N("A"), N("x")), Fun("k", <<>>, N("A"), N("B"))>>,
     AB \o <<Asserted("ok", Some1(N("A"))), Asserted("ok", Some1(N("B")))>>,
     <<Top1("A"), Top1("S"), Top1("T"), [k |-> "Fact", body |-> Cmp("Eq", N("A"), N("S"))]>>}
    \cup {Cmd1(c) : c \in
           {Run(<<"k">>, <<For(<<"A">>, 3)>>), Run(<<"z">>, <<>>), Check(<<"ok">>), Check(<<"k">>), Run(<<"this", "k">>, <<>>),
            Run(<<"integer", "k">>, <<>>),
            Run(<<"k">>, <<For(<<"Z">>, 3)>>), Run(<<"k">>, <<For(<<"W">>, 3)>>), Run(<<"k">>, <<For(<<"V">>, 3)>>),
            Run(<<"k">>, <<[For(<<"V">>, 3) EXCEPT !.exact = TRUE]>>), [Run(<<>>, <<>>) EXCEPT !.block = <<Some1(N("Z"))>>],
            [Run(<<>>, <<>>) EXCEPT !.block = <<Some1(N("B"))>>]}
           \cup {Run(<<"k">>, <<Steps(s, e, x, i)>>) : s \in {1, 2}, e \in {Same1, NoEnd, 5}, x \in {FALSE, TRUE}, i \in {1, 2}}}}

\* With an enumeration, an order, sequences, the signatures of signatures, a
\* root with a parameter; and four that are knotted.
Dollar(of, own) == [of |-> of, own |-> own]
Ordered1 == Alone(<<Enum1, [Top1("A") EXCEPT !.fields = <<Fld("f", N("Color"))>>], Fact(Some1(Jn(N("A"), N("f"))))>>)
Extra(file) == Project(Path(<<"r">>) :> file)
Meta ==
  File(<<>>, <<>>, <<Having(Top1("A"), <<Fld("f", N("A"))>>), VarSig(Having(Extending("B", "A"), <<Fld("g", Ar(N("A"), N("B")))>>)),
                     SigOf("C", Under("Subset", <<"A">>)), Fact(Some1(Jn(N("A$"), N("fields")))),
                     Fact(Some1(Jn(Jn(N("B$"), N("subfields")), N("value")))), Fact(Some1(N("static$")))>>)
Knots ==
  {<<Extending("A", "B"), Extending("B", "A"), Top1("D"), SigOf("C", Under("Subset", <<"A", "D">>))>>,
   <<Top1("D"), SigOf("C", Under("Subset", <<"D", "A">>)), Extending("A", "B"), Extending("B", "A")>>,
   <<Extending("A", "A"), Top1("D"), SigOf("C", Under("Subset", <<"D", "A">>))>>,
   <<Extending("A", "A"), SigOf("B", Under("Subset", <<"A">>)), Top1("D"), SigOf("C", Under("Subset", <<"B", "D">>))>>}
Others ==
  {Ordered1} \cup {Extra([Meta EXCEPT !.dollars = {d}]) : d \in {Dollar("A", ""), Dollar("sig", ""), Dollar("B", "g"), Dollar("B", "z")}}
    \cup {Extra([File(<<>>, <<>>, <<Holder>>) EXCEPT !.params = <<[name |-> "elem", exact |-> x]>>]) : x \in {FALSE, TRUE}}
    \cup {Extra([File(<<"r">>, <<>>, AB) EXCEPT !.seqs = s]) : s \in {FALSE, TRUE}}
    \cup {Alone(paras) : paras \in Knots}

MCProjects ==
  Graphs1 \cup Parametric \cup Sought \cup Hierarchies \cup Simple \cup Nested \cup Compared
    \cup Rooted \cup Varied \cup Mistaken \cup Others

\* A field of one name in a signature and in a subset of it.
Clash ==
  {Alone(<<Having(Top1("A"), <<Fld("f", N("A"))>>),
           Having(SigOf("B", Under("Subset", <<"A">>)), <<Fld("f", N("A"))>>)>>)}
=============================================================================
