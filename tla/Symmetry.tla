------------------------------ MODULE Symmetry ------------------------------
(***************************************************************************)
(* Symmetry breaking (als-core: encode/symmetry.rs, generate_sbp of        *)
(* encode/mod.rs).                                                         *)
(*                                                                         *)
(* The atoms fall into classes that the bounds do not tell apart.  For     *)
(* each adjacent pair of a class one lex-leq circuit is conjoined with the *)
(* goal: it compares the cells of the relations with the same cells after  *)
(* the pair is swapped.  An instance is the set of floating cells that are *)
(* true; "kept" are the instances that satisfy the circuits so far.        *)
(***************************************************************************)
EXTENDS Integers, FiniteSets, SequencesExt

CONSTANTS
  Atoms,      \* 0..n-1, in the order of the universe
  IntStart,   \* the atoms from here on are integers and strings
  Rels,
  Arity,      \* of each relation
  Rank,       \* of each relation's name among the names
  Skolems, Builtins, MetaFields,  \* sets of relations
  Problems,   \* bounds: functions lower and upper from relations to tuple sets
  Caps        \* SolveOptions::symmetry

Tuples(r) == [1..Arity[r] -> Atoms]

ASSUME RelsAssumption == /\ IsFiniteSet(Rels)
                         /\ \A r \in Rels : Arity[r] \in Nat \ {0} /\ Rank[r] \in Int
                         /\ \A r, s \in Rels : Rank[r] = Rank[s] => r = s
                         /\ Skolems \cup Builtins \cup MetaFields \subseteq Rels
ASSUME AtomsAssumption == Atoms \subseteq Int /\ IsFiniteSet(Atoms)
ASSUME ProblemsAssumption ==
  \A b \in Problems : \A r \in Rels :
    /\ b.lower[r] \subseteq b.upper[r]
    /\ b.upper[r] \subseteq Tuples(r)
    /\ IsFiniteSet(b.upper[r])
ASSUME CapsAssumption == Caps \subseteq Nat

VARIABLES
  bounds,   \* the problem
  goal,     \* "static", "folded" (a static goal that is constant true) or "temporal"
  class,    \* the plan: the class of each atom
  cap,      \* the bound on the length of one circuit, 0 for none broken
  todo,     \* the adjacent pairs whose circuit is still to be added
  kept      \* the instances that the circuits so far allow

vars == <<bounds, goal, class, cap, todo, kept>>

-----------------------------------------------------------------------------
(* The partition (symmetry.rs).                                            *)

Free(b, r) == b.lower[r] # b.upper[r]

\* What refines the partition: each integer by itself, and the bounds of the
\* relations of the model, a lower bound only where it says more than the upper.
RefinesOn(r) == r \notin Skolems \cup Builtins \cup MetaFields

BoundSets(b, retained) ==
  ({b.upper[r] : r \in retained}
   \cup {b.lower[r] : r \in {s \in retained :
                               Cardinality(b.lower[s]) < Cardinality(b.upper[s])}}) \ {{}}

Singletons(first) == {{<<i>>} : i \in {a \in Atoms : a >= first}}

RefiningByUppers(b, g) ==
  {b.upper[r] : r \in {s \in Rels : RefinesOn(s)}} \cup Singletons(IntStart)

\* The residual problem of a folded goal is another problem: it has the free relations
\* only, skolems among them, and no integers.
Refining(b, g) ==
  IF g = "folded" THEN BoundSets(b, {r \in Rels : Free(b, r) /\ r \notin MetaFields})
  ELSE BoundSets(b, {r \in Rels : RefinesOn(r)}) \cup Singletons(IntStart)

\* Where an atom occurs in a set of tuples: the column, and the rest of the tuple.
Continuations(tuples, a) ==
  UNION {{<<i, RemoveAt(t, i)>> : i \in {j \in DOMAIN t : t[j] = a}} : t \in tuples}

ClassOfKeepingColumn(sets, a) ==
  {c \in Atoms : \A tuples \in sets :
     {t \in tuples : \E i \in DOMAIN t : t[i] = c}
       = {t \in tuples : \E i \in DOMAIN t : t[i] = a}}

\* The atoms that occur everywhere as this one does.
ClassOf(sets, a) ==
  {c \in Atoms : \A tuples \in sets :
     Continuations(tuples, c) = Continuations(tuples, a)}

\* What the atoms of tuples become when the atoms are renamed.
Image(f, tuples) == {[i \in DOMAIN t |-> f[t[i]]] : t \in tuples}

\* The relations left out of the partition are bounded by what is in it. Every atom of
\* Int, seq/Int or String stands alone in it (is_builtin_sig).
ASSUME BuiltinsAssumption ==
  \A b \in Problems : \A r \in Builtins : \A t \in b.upper[r] :
    \A i \in DOMAIN t : t[i] >= IntStart

\* A metamodel field is bounded by a union of products of its columns' signatures
\* (field_upper), from nothing.
Product(columns) ==
  {t \in [DOMAIN columns -> Atoms] : \A i \in DOMAIN columns : <<t[i]>> \in columns[i]}

ASSUME MetaFieldsAssumption ==
  \A b \in Problems : \A r \in MetaFields :
    /\ b.lower[r] = {}
    /\ \A t \in b.upper[r] :
         \E columns \in [DOMAIN t -> Refining(b, "static")] :
           t \in Product(columns) /\ Product(columns) \subseteq b.upper[r]

\* A skolem is bounded, from nothing, by what the bounds of other relations make of the
\* expression it ranges over (abstract_upper): a renaming that moves none of theirs
\* does not move its own.
ASSUME SkolemsAssumption ==
  \A b \in Problems : \A r \in Skolems :
    /\ b.lower[r] = {}
    /\ \A f \in [Atoms -> Atoms] :
         /\ \A a, c \in Atoms : f[a] = f[c] => a = c
         /\ \A tuples \in Refining(b, "static") : Image(f, tuples) = tuples
         => Image(f, b.upper[r]) = b.upper[r]

-----------------------------------------------------------------------------
(* The circuits (generate_sbp).                                            *)

\* The relations that contribute cells, by arity and then by name.
RelParts(b, g) ==
  {r \in Rels : /\ Free(b, r)
                /\ r \notin MetaFields
                /\ ~(g = "temporal" /\ r \in Skolems)}
RelBefore(r, s) == Arity[r] < Arity[s] \/ (Arity[r] = Arity[s] /\ Rank[r] < Rank[s])

LexBefore(t, u) ==
  \E i \in DOMAIN t : t[i] < u[i] /\ \A j \in 1..i-1 : t[j] = u[j]

\* A place is a relation and a tuple; the circuits go through them in this order.
Earlier(x, y) == RelBefore(x[1], y[1]) \/ (x[1] = y[1] /\ LexBefore(x[2], y[2]))

Swapped(t, a, c) ==
  [i \in DOMAIN t |-> IF t[i] = a THEN c ELSE IF t[i] = c THEN a ELSE t[i]]

\* A cell is a constant or a primary variable.
True == <<"true">>
False == <<"false">>
Cell(b, r, t) == IF t \in b.lower[r] THEN True
                 ELSE IF t \in b.upper[r] THEN <<r, t>>
                 ELSE False

\* What one place has to compare: its cell and that of its tuple after the swap.
Row(b, a, c, x) == [at |-> x, entry |-> Cell(b, x[1], x[2]),
                    image |-> Cell(b, x[1], Swapped(x[2], a, c))]

\* The rows of one relation, in ascending order of the tuples: fixed tuples are skipped.
WithRelation(b, r, a, c) ==
  {Row(b, a, c, <<r, t>>) : t \in {u \in b.upper[r] : Swapped(u, a, c) # u}}

Touches(b, r, atoms) == \E t \in b.upper[r] : \E i \in DOMAIN t : t[i] \in atoms

\* Mirror images of a pair already there are skipped.
Mirrors(x, y) == Earlier(y.at, x.at) /\ y.entry = x.image /\ y.image = x.entry
Compared(b, a, c) ==
  LET all == UNION {WithRelation(b, r, a, c) :
                      r \in {s \in RelParts(b, goal) : Touches(b, s, class[a])}}
  IN  {x \in all : ~\E y \in all : Mirrors(x, y)}

\* The rows that one pair's circuit compares.  The cap is looked at between relations
\* only: a relation is in whole, or it is out.
Rows(b, a, c) ==
  LET all == Compared(b, a, c)
  IN  {x \in all : Cardinality({y \in all : RelBefore(y.at[1], x.at[1])}) < cap}

Holds(cell, instance) == cell = True \/ cell \in instance

LexLeqUnguarded(rows, instance) ==
  \A x \in rows : Holds(x.entry, instance) => Holds(x.image, instance)

LexLeq(rows, instance) ==
  \A x \in rows :
    (\A y \in rows : Earlier(y.at, x.at)
                       => Holds(y.entry, instance) = Holds(y.image, instance))
      => (Holds(x.entry, instance) => Holds(x.image, instance))

-----------------------------------------------------------------------------

Cells(b) == UNION {{<<r, t>> : t \in b.upper[r] \ b.lower[r]} : r \in Rels}
Instances(b) == SUBSET Cells(b)

\* A folded goal is answered with the lower bounds first; what is enumerated after it
\* differs from it.
TrivialInstance == {}
Enumerated(b, g) == IF g = "folded" THEN Instances(b) \ {TrivialInstance} ELSE Instances(b)

AdjacentPairs(plan) ==
  UNION {{<<a, c>> : c \in {d \in plan[a] : a < d /\ \A e \in a+1..d-1 : e \notin plan[a]}} :
           a \in Atoms}

\* Nothing is broken when no relation is free, or at cap 0.  A goal with the fact that
\* pins a metamodel field does not fold.
Init ==
  /\ bounds \in Problems
  /\ goal \in {"static", "folded", "temporal"}
  /\ goal = "folded" => \A r \in MetaFields : ~Free(bounds, r)
  /\ LET sets == Refining(bounds, goal) IN class = [a \in Atoms |-> ClassOf(sets, a)]
  /\ cap \in Caps
  /\ todo = IF cap = 0 THEN {} ELSE AdjacentPairs(class)
  /\ kept = Enumerated(bounds, goal)

\* The circuits are conjoined: the order of the pairs does not tell.
Break(pair) ==
  /\ pair \in todo
  /\ \A other \in todo : pair[1] <= other[1]
  /\ todo' = todo \ {pair}
  /\ LET rows == Rows(bounds, pair[1], pair[2])
     IN  kept' = {instance \in kept : LexLeq(rows, instance)}
  /\ UNCHANGED <<bounds, goal, class, cap>>

Next == \E pair \in todo : Break(pair)

Spec == Init /\ [][Next]_vars

-----------------------------------------------------------------------------
(* Properties.                                                             *)

\* The renamings of atoms that stay within the classes.
Renamings ==
  {f \in [Atoms -> Atoms] : /\ \A a \in Atoms : f[a] \in class[a]
                            /\ \A a, c \in Atoms : f[a] = f[c] => a = c}

Renamed(f, instance) ==
  {<<cell[1], [i \in DOMAIN cell[2] |-> f[cell[2][i]]]>> : cell \in instance}

\* The bounds cannot tell the atoms of a class apart: no renaming within the classes
\* moves a bound of any relation that the problem has, those that do not refine the
\* partition included (a folded goal's residual has the free ones only). And it is
\* "exactly the coarsest sound partition": one over which every refining set is a
\* union of products of classes never joins atoms that ours separates.
Symmetric ==
  \A f \in Renamings : \A r \in Rels :
    goal # "folded" \/ Free(bounds, r) =>
    /\ Image(f, bounds.lower[r]) = bounds.lower[r]
    /\ Image(f, bounds.upper[r]) = bounds.upper[r]
Coarsest ==
  LET refining == Refining(bounds, goal)
  IN \A f \in [Atoms -> Atoms] :
    (\A tuples \in refining : \A t \in tuples :
       \A u \in [DOMAIN t -> Atoms] :
         (\A i \in DOMAIN t : f[u[i]] = f[t[i]]) => u \in tuples)
    => \A a, c \in Atoms : f[a] = f[c] => c \in class[a]
ClassesExact == Symmetric /\ Coarsest

\* "A lex-leader predicate is verdict-neutral": whatever the cap, and however many of
\* the circuits are in, every instance has a renaming that they keep, so that none is
\* lost to a verdict or, up to renaming, to an enumeration.
SomeRenamingKept ==
  LET renamings == Renamings
  IN  \A instance \in Enumerated(bounds, goal) :
        \E f \in renamings : Renamed(f, instance) \in kept
=============================================================================
