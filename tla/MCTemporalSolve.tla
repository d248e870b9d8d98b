-------------------------- MODULE MCTemporalSolve --------------------------
(***************************************************************************)
(* Small commands for TemporalSolve: nests of the temporal operators over  *)
(* one or two relations, conjuncts of every provenance, a hierarchy of     *)
(* subsignatures, and the limits.                                          *)
(***************************************************************************)
EXTENDS TemporalSolve

Not(f) == Node("not", <<f>>)
And(f, g) == Node("and", <<f, g>>)

UnaryOver(S) == {Node(op, <<f>>) : op \in Unary, f \in S}
BinaryOver(S, T) == {Node(op, <<f, g>>) : op \in Binary, f \in S, g \in T}

A == Read("A")
B == Read("B")
S == Read("S")

One == UnaryOver({A})
Two == UnaryOver(One)
Pairs == BinaryOver({A, Not(A)}, {B})

\* Three operators deep, past ones among them, and a binary one over or under another.
Formulas1 == {A} \cup Two \cup UnaryOver(UnaryOver({Node(op, <<A>>) : op \in Past \cap Unary}))
Formulas2 == UnaryOver(Pairs) \cup BinaryOver(UnaryOver({A}), {B}) \cup BinaryOver({A}, UnaryOver({B}))
             \cup BinaryOver(BinaryOver({A}, {B}), {Not(A)})

\* The alternation of the documentation: a past operator sees earlier passes.
Alternates == And(Not(A), Node("always", <<And(Not(And(A, Not(Node("after", <<Not(A)>>)))),
                                          Not(And(Not(A), Not(Node("after", <<A>>)))))>>))
SeesEarlierPasses ==
  And(Not(B), Node("always", <<Not(And(Node("once", <<A>>), Not(B)))>>))

CommandOf(conjuncts, variable, static, max) ==
  [conjuncts |-> conjuncts, variable |-> variable, static |-> static, min |-> 1, max |-> max,
   fits |-> 9, encodes |-> 9, budgeted |-> FALSE, kids |-> <<>>, rest |-> None, rigid |-> TRUE,
   fragments |-> {}]
From(from, f) == [from |-> from, formula |-> f]

\* The same of exactly its longest length, which a shorter trace would otherwise hide.
Exactly(c) == [c EXCEPT !.min = c.max]

Nested == {Exactly(CommandOf(<<From("command", f)>>, {"A"}, {}, 3)) : f \in Formulas1}
          \cup {Exactly(CommandOf(<<From("command", f)>>, {"A", "B"}, {}, 2)) : f \in Formulas2}

\* The whole sweep, to a trace or to none.
Swept == {CommandOf(<<From("command", f)>>, {"A"}, {}, 3) : f \in Two \cup {And(f, Not(f)) : f \in One}}

\* Every lasso of one length, and an evaluator on it.
Asked == {[Exactly(CommandOf(<<>>, {"A"}, {}, n)) EXCEPT !.fragments = Two] : n \in 1..3}

Probe == {CommandOf(<<From("fact", Alternates), From("command", SeesEarlierPasses)>>,
                    {"A", "B"}, {}, 2)}
Declared == {Exactly(CommandOf(<<From(from, f), From("fact", g)>>, {"A"}, {"S"}, 2)) :
             from \in Provenance, f \in {A, S, Not(And(A, Not(S)))} \cup UnaryOver({A, S}),
             g \in {Node("eventually", <<Not(A)>>), Node("once", <<S>>)}}
Limited == {[CommandOf(<<From("command", f)>>, {"A"}, {}, max) EXCEPT
               !.fits = n, !.encodes = m, !.budgeted = b, !.min = l] :
            f \in {Not(Node("after", <<A>>)), And(A, Node("after", <<Not(A)>>)), And(A, Not(A))},
            max \in {3, None}, n \in {1, 9}, m \in {1, 9}, b \in BOOLEAN, l \in {1, 2}}
Hierarchies == {[Exactly(CommandOf(<<From("fact", Node("eventually", <<f>>))>>,
                                   {"A", "B"}, {"S"}, 2)) EXCEPT
                   !.kids = kids, !.rest = rest, !.rigid = r] :
                f \in {A, B}, kids \in {<<"A", "B">>, <<"S", "A">>, <<"A", "S">>, <<"A">>},
                rest \in {None, "S", "B"}, r \in BOOLEAN}

MCCommands == Nested \cup Swept \cup Asked \cup Probe \cup Declared \cup Limited \cup
              {c \in Hierarchies : \A i \in DOMAIN c.kids : c.kids[i] # c.rest}

\* Every node of theirs.
RECURSIVE Within(_)
Within(n) == {n} \cup UNION {Within(n.args[i]) : i \in DOMAIN n.args}
MCFormulas ==
  UNION {UNION {Within(Node("always", <<c.conjuncts[i].formula>>)) : i \in DOMAIN c.conjuncts}
         \cup UNION {Within(n) : n \in c.fragments} : c \in MCCommands}
MCHeight[n \in MCFormulas] == 1 + Max({0} \cup {MCHeight[n.args[i]] : i \in DOMAIN n.args})
MCIndices == {-1, 0, 2, 4, 7}
=============================================================================
