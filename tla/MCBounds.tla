------------------------------ MODULE MCBounds ------------------------------
(***************************************************************************)
(* Worlds of two to four signatures for Bounds: every hierarchy shape, a   *)
(* child declared before its parent or after, one marked signature at a    *)
(* time, and every pair of scope entries up to two; then subset            *)
(* signatures, enums, orderings, strings and steps.                        *)
(***************************************************************************)
EXTENDS Bounds

World(parent, abstract, mult, var) ==
  [parent |-> parent, abstract |-> abstract, enum |-> {}, var |-> var, operators |-> FALSE,
   mult |-> mult, subsets |-> <<>>, fields |-> <<>>, ordering |-> {}]

Plain(parent) == [s \in DOMAIN parent |-> "any"]
Parents(parent) == {parent[s] : s \in DOMAIN parent} \ {Univ}

Hierarchies == {<<Univ, 1, 1>>, <<3, 3, Univ>>, <<Univ, 1, 2>>, <<2, 3, Univ>>, <<Univ, Univ, 2>>}
Family ==
  UNION {{World(h, abstract, [Plain(h) EXCEPT ![s] = m], var) :
            <<abstract, s, m, var>> \in {q \in (SUBSET Parents(h)) \X (1..3) \X Mults \X (SUBSET (1..3)) :
                                           /\ q[3] = "any" => q[2] = 1 /\ q[4] = {}
                                           /\ q[4] \in {{}, {q[2]}}}} :
           h \in Hierarchies}

Command(overall, scopes, ordered) ==
  [overall |-> overall, scopes |-> scopes, additionalExact |-> ordered,
   bitwidth |-> 1, maxseq |-> None, maxstring |-> None, stringExact |-> FALSE, literals |-> {},
   steps |-> FALSE]

EntriesUpTo(sigs, most) == [sig : sigs, scope : 0..most, exact : BOOLEAN]
\* Two exact entries only where the second is a zero.
Pairs(sigs, most) ==
  {<<>>} \cup {<<e>> : e \in EntriesUpTo(sigs, most)}
  \cup {<<e, f>> : <<e, f>> \in {p \in EntriesUpTo(sigs, most) \X EntriesUpTo(sigs, most) :
                                   p[1].sig < p[2].sig /\ (p[2].exact => p[2].scope = 0)}}

\* The two levels over which a difference meets a sum, both ways round.
Deep == {World(h, Parents(h), Plain(h), {}) :
           h \in {<<Univ, 1, 2, 2>>, <<2, 3, Univ, 2>>}}
          \cup {World(<<Univ, 1, 1, 1>>, {1}, Plain(<<1, 2, 3, 4>>), {})}
DeepScopes ==
  {<<[sig |-> s, scope |-> n, exact |-> e], [sig |-> t, scope |-> m, exact |-> FALSE]>> :
     <<s, n, e, t, m>> \in {q \in (1..4) \X (1..2) \X BOOLEAN \X (1..4) \X (0..2) : q[1] # q[4]}}

\* An in-signature over a child and another top-level signature, and an exact one.
Subsets(mult, isExact) ==
  [World(<<Univ, 1, Univ>>, {}, Plain(<<1, 2, 3>>), {}) EXCEPT
     !.subsets = [t \in {9} |-> [parents |-> {2, 3}, exact |-> isExact, mult |-> mult]]]
SubsetWorlds == {Subsets(m, e) : <<m, e>> \in Mults \X BOOLEAN}

\* util/ordering of a leaf (with and without its signature forced exact), of a parent
\* and of an enum: the one signature Ord is 3, elem is 1.
Ordered(parent, enum, abstract, mult) ==
  [World(parent, abstract, mult, {}) EXCEPT
     !.enum = enum,
     !.fields = [f \in {"first", "next"} |->
                   [owner |-> Len(parent),
                    columns |-> IF f = "first" THEN <<1>> ELSE <<1, 1>>]],
     !.ordering = {[elem |-> 1, first |-> "first", next |-> "next"]}]
OrderedWorlds ==
  {Ordered(<<Univ, Univ>>, {}, {}, <<m, n>>) : <<m, n>> \in {"any", "some", "lone"} \X {"one", "any"}}
  \cup {Ordered(<<Univ, 1, Univ>>, {}, a, <<"any", "any", "one">>) : a \in SUBSET {1}}
  \cup {Ordered(<<Univ, 1, 1, Univ>>, {1}, {1}, <<"any", "one", "one", "one">>),
        Ordered(<<Univ, Univ>>, {1}, {1}, <<"any", "one">>)}

OtherCommands ==
  {[Command(3, <<>>, {}) EXCEPT !.maxstring = n, !.stringExact = e, !.literals = l, !.steps = st,
                                !.bitwidth = b] :
     <<n, e, l, st, b>> \in {None, 0, 1, 2, 3} \X BOOLEAN \X (SUBSET {-1, 0, 1}) \X BOOLEAN
                              \X {None, 0, 2, 31}}

MCWorlds == Family \cup Deep \cup SubsetWorlds \cup OrderedWorlds
MCCommands(w) ==
     CASE w \in OrderedWorlds ->
            {Command(o, s, x) : <<o, s, x>> \in {None, 2} \X Pairs({1, 2}, 2) \X (SUBSET {1})}
            \cup (IF DOMAIN w.parent = 1..2 /\ w.mult = <<"any", "one">> THEN OtherCommands ELSE {})
       [] w \in SubsetWorlds ->
            {Command(2, s, {}) : s \in Pairs({1, 3}, 1) \cup {<<[sig |-> 9, scope |-> 1, exact |-> FALSE]>>}}
       [] w \in Deep -> {Command(o, s, {}) : <<o, s>> \in {None, 2} \X DeepScopes}
       [] OTHER -> {Command(None, s, {}) : s \in Pairs(1..3, 1)}
                   \cup {Command(2, s, {}) : s \in Pairs(1..3, 2)}
=============================================================================
