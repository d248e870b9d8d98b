------------------------------ MODULE MCTranslate ------------------------------
(***************************************************************************)
(* Goals over two atoms and the integers -2 .. 1: every context around     *)
(* every comparison, with the numbers that overflow and those that do not. *)
(***************************************************************************)
EXTENDS Translate

MCSigAtoms == 2
MCBitwidth == 2
MCStringAtoms == 0
MCRelations == {"A", "B", "E", "f", "g", "Int"}
MCRelLower == [r \in MCRelations |->
  CASE r = "B" -> {<<0>>} [] r = "Int" -> {<<i>> : i \in 2..5} [] OTHER -> {}]
MCRelUpper == [r \in MCRelations |->
  CASE r = "A" -> {<<0>>, <<1>>} [] r = "B" -> {<<0>>} [] r = "E" -> {}
    [] r = "f" -> {<<0, 1>>, <<1, 0>>, <<1, 1>>}
    [] r = "g" -> {<<0, 2>>, <<1, 5>>} [] r = "Int" -> {<<i>> : i \in 2..5}]
MCWidths == {2, 3}
MCOperands == (-4..3) \X (-4..3)

(*-------------------------------- building nodes --------------------------------*)
Rel(r)        == [k |-> "rel", r |-> r]
Var(v)        == [k |-> "var", v |-> v]
Bin(op, l, r) == [k |-> "bin", op |-> op, l |-> l, r |-> r]
Un(op, e)     == [k |-> "un", op |-> op, e |-> e]
Cast(i)       == [k |-> "cast", i |-> i]
Comp(v, b, body) == [k |-> "comp", decls |-> <<[v |-> v, b |-> b]>>, body |-> body]
Num(n)        == [k |-> "const", n |-> n]
Card(e)       == [k |-> "card", e |-> e]
IntOf(e)        == [k |-> "int", e |-> e]
IBin(op, l, r) == [k |-> "ibin", op |-> op, l |-> l, r |-> r]
ICmp(op, l, r) == [k |-> "icmp", op |-> op, l |-> l, r |-> r]
RCmp(op, l, r) == [k |-> "rcmp", op |-> op, l |-> l, r |-> r]
MTest(t, e)   == [k |-> "mult", test |-> t, e |-> e]
Neg(f)        == [k |-> "not", f |-> f]
Conj(fs)      == [k |-> "and", fs |-> fs]
Disj(fs)      == [k |-> "or", fs |-> fs]
Imp(a, b)     == [k |-> "imp", a |-> a, b |-> b]
Equiv(a, b)   == [k |-> "iff", a |-> a, b |-> b]
All(v, b, f)  == [k |-> "all", v |-> v, b |-> b, body |-> f]
Some(v, b, f) == [k |-> "some", v |-> v, b |-> b, body |-> f]
(* another copy of a node *)
Copy(n)       == n @@ [tag |-> 2]

A == Rel("A")
FieldF == Rel("f")
FieldG == Rel("g")
Ints == Rel("Int")
X == Var("x")
Choice(c, t, e) == [k |-> "rite", c |-> c, t |-> t, e |-> e]
IIte(c, t, e) == [k |-> "iite", c |-> c, t |-> t, e |-> e]
Sum(v, b, i) == [k |-> "isum", v |-> v, b |-> b, body |-> i]

Over == IBin("add", Card(A), Num(1))
CastOver == Cast(Over)
(* Numbers, some of which overflow in some of the instances. *)
Numbers ==
  {Num(3), Card(A), IntOf(CastOver), Card(Un("closure", FieldF)), IBin("add", Card(A), Num(1)),
   IntOf(Bin("join", A, FieldG)), Sum("x", A, Card(Bin("join", X, FieldF))),
   IIte(MTest("lone", A), IBin("mul", Card(FieldF), Num(-1)), Num(0)),
   Card(Bin("union", Cast(IBin("add", Card(A), Num(1))), A))}

(* Sets with a cast in them, or a test of one. *)
Sets ==
  {CastOver, Bin("union", CastOver, Rel("E")), Bin("union", Rel("B"), CastOver),
   Bin("diff", A, CastOver), Bin("intersect", CastOver, Ints),
   Bin("override", FieldG, Bin("product", A, CastOver)),
   Choice(MTest("some", Rel("E")), CastOver, A), Choice(MTest("one", A), CastOver, Rel("E")),
   Comp("x", A, ICmp("gt", IBin("add", Card(Bin("join", X, FieldF)), Card(A)), Num(0))),
   Bin("intersect", Un("closure", FieldF), [k |-> "iden"]), Un("rclosure", FieldF), Un("transpose", FieldF)}

Atomic == {ICmp("eq", n, Num(1)) : n \in Numbers}
          \cup {ICmp("ge", n, Num(1)) : n \in {Card(Un("closure", FieldF)), Over}}
          \cup {MTest(t, e) : t \in {"some", "one", "lone"}, e \in Sets}
          \cup {RCmp("in", e, Bin("diff", A, e)) : e \in Sets}
(* Comparisons that mention a variable x. *)
OfX == {ICmp("gt", IBin("add", IntOf(X), Card(A)), IntOf(X)),
        ICmp("eq", IBin("mul", IntOf(X), IntOf(X)), Card(A)),
        RCmp("in", Cast(IBin("sub", IntOf(X), Card(A))), Bin("join", A, FieldG)),
        ICmp("lt", Over, IntOf(X))}
InContext(p) ==
  {<<p>>, <<Neg(p)>>, <<Imp(p, MTest("some", A))>>, <<Equiv(p, MTest("one", A))>>,
   <<Disj(<<Neg(p), MTest("no", A)>>), MTest("some", FieldG)>>,
   <<Imp(MTest("some", A), p), Imp(Neg(MTest("some", A)), Neg(Copy(p)))>>,
   <<Disj(<<Neg(p), MTest("some", FieldG)>>), Disj(<<p, MTest("no", FieldG)>>)>>}
UnderBinder(p) ==
  {<<All("x", Ints, p)>>, <<Neg(All("x", Ints, p))>>, <<Some("x", Ints, p)>>,
   <<Neg(Some("x", Ints, p))>>, <<All("x", Bin("join", A, FieldG), p)>>,
   <<Some("x", CastOver, p)>>, <<All("y", A, Some("x", Bin("join", Var("y"), FieldG), Neg(p)))>>,
   <<All("x", Ints, Imp(p, MTest("lone", A)))>>}

Plain == {[goal |-> Conj(fs), members |-> <<>>] :
            fs \in UNION ({InContext(p) : p \in Atomic} \cup {UnderBinder(p) : p \in OfX})}

(* Copies of one formula: alike, alike but for the bound variable, bound   *)
(* outside, and no longer alike; in either polarity first.                 *)
Pairs(p, q) == {[goal |-> Conj(fs), members |-> <<<<p, q>>>>] :
   fs \in {<<Disj(<<p, MTest("no", A)>>), Neg(q)>>, <<Neg(p), Disj(<<q, MTest("some", FieldG)>>)>>,
           <<Imp(p, q)>>}}
OverSome(v) == Some(v, A, ICmp("gt", IBin("add", Card(Bin("join", Var(v), FieldF)), Card(A)), Num(0)))
Gt(v) == ICmp("gt", IBin("add", Card(Bin("join", Var(v), FieldF)), Card(A)), Num(0))
Reach(v, w) == Some("x", A, Some("y", Ints, RCmp("in", Var(v), Bin("join", Var(w), FieldG))))
Shared ==
  UNION {Pairs(OverSome("x"), OverSome("y")), Pairs(ICmp("ge", Over, Num(1)), Copy(ICmp("ge", Over, Num(1)))),
         Pairs(Reach("y", "x"), Reach("x", "y")), Pairs(OverSome("x"), Some("y", FieldF, Gt("y")))}
OpenShared ==
  {[goal |-> Conj(<<All("x", A, Some("y", A, Disj(<<Gt("x"), Neg(Gt("y"))>>)))>>),
    members |-> <<<<Gt("x"), Gt("y")>>>>],
   [goal |-> Conj(<<All("x", A, Disj(<<Some("y", A, Neg(Gt("x"))), Some("z", A, Gt("z"))>>))>>),
    members |-> <<<<Some("y", A, Neg(Gt("x"))), Some("z", A, Neg(Gt("z")))>>>>],
   [goal |-> Conj(<<All("x", A, Disj(<<Copy(Gt("x")), Neg(Gt("x"))>>))>>),
    members |-> <<<<Copy(Gt("x")), Gt("x")>>>>]}

MCGoals == Plain \cup Shared \cup OpenShared
=============================================================================
