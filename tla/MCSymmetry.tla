----------------------------- MODULE MCSymmetry -----------------------------
(***************************************************************************)
(* Three atoms and an integer for Symmetry: two unary relations, a binary  *)
(* one, a skolem and a metamodel field, with bounds of the shapes that the *)
(* bounds builder makes.                                                   *)
(***************************************************************************)
EXTENDS Symmetry

A == {<<0>>, <<1>>, <<2>>}
Pairs(S, T) == {<<s[1], t[1]>> : <<s, t>> \in S \X T}

MCRels   == {"mode", "sig", "edge", "Int", "$skolem", "$field"}
MCArity  == [r \in MCRels |-> IF r \in {"edge", "$field"} THEN 2 ELSE 1]
MCRank   == [r \in MCRels |-> CASE r = "$skolem" -> 1 [] r = "$field" -> 0 [] r = "mode" -> 2
                                [] r = "sig" -> 3 [] r = "edge" -> 4 [] r = "Int" -> 5]
MCBuiltins == {"Int"}
MCSkolems == {"$skolem"}
MCMetaFields == {"$field"}

Unary == {[lower |-> {}, upper |-> A],
          [lower |-> {<<0>>}, upper |-> A], [lower |-> {<<1>>}, upper |-> {<<1>>, <<2>>}],
          [lower |-> {<<0>>, <<1>>}, upper |-> {<<0>>, <<1>>}]}
Binary == {[lower |-> {}, upper |-> {}],
           [lower |-> {}, upper |-> Pairs({<<0>>, <<1>>}, {<<0>>, <<1>>})],
           [lower |-> {}, upper |-> Pairs(A, {<<3>>})],
           [lower |-> {<<0, 1>>, <<1, 2>>}, upper |-> {<<0, 1>>, <<1, 2>>}]}
Bound(m, s, e, k, f) ==
  [end \in {"lower", "upper"} |->
     [r \in MCRels |-> CASE r = "mode" -> m[end] [] r = "sig" -> s[end]
                         [] r = "edge" -> e[end] [] r = "$skolem" -> k[end]
                         [] r = "$field" -> f[end] [] r = "Int" -> {<<3>>}]]
Record(b) == [lower |-> b["lower"], upper |-> b["upper"]]

Empty == [lower |-> {}, upper |-> {}]
MCProblems == {Record(Bound(m, s, e, Empty, Empty)) : <<m, s, e>> \in Unary \X Unary \X Binary}
SkolemProblems ==
  {Record(Bound(m, s, Empty, [lower |-> {}, upper |-> s.upper], Empty)) :
     <<m, s>> \in Unary \X Unary}
FieldProblems ==
  {Record(Bound(m, s, Empty, Empty, [lower |-> {}, upper |-> Pairs(s.upper, {<<3>>})])) :
     <<m, s>> \in Unary \X Unary}
AllProblems == MCProblems \cup SkolemProblems \cup FieldProblems
MCCaps == {0, 1, 2, 20}
=============================================================================
