---------------------------- MODULE InstanceEnum ----------------------------
(***************************************************************************)
(* The instance enumerator of mettle (als-core, solve.rs): the distinct    *)
(* instances of one static command, one per call, from a solver that never *)
(* forgets a clause.                                                       *)
(*                                                                         *)
(* An assignment is the set of floating tuples (those of an upper bound    *)
(* and not of the lower one, skolems included) that it makes true; the     *)
(* instance it decodes to is the lower bounds and that set.  The solver's  *)
(* model also assigns auxiliary variables, so many models may decode to    *)
(* one instance.                                                           *)
(*                                                                         *)
(* A goal is what one translation yields: floating, the tuples that have a *)
(* primary variable; sat, the assignments that satisfy the formula;        *)
(* folded, whether its circuit folded to the constant true or false; and   *)
(* kept, the assignments that the lex-leader predicate keeps, all of them  *)
(* when symmetry is off.                                                   *)
(***************************************************************************)
EXTENDS Integers, FiniteSets

CONSTANTS
  Floating,        \* floating tuples
  Auxiliary,       \* assignments of the auxiliary variables
  Goals,           \* the translations explored
  ReportsEffort,   \* the backend has effort counters
  Budgets,         \* values of enum_effort_budget: effort, or None
  None

Assignments == SUBSET Floating

Goal == [floating : SUBSET Floating, sat : SUBSET Assignments,
         folded : BOOLEAN, kept : SUBSET Assignments]

ASSUME GoalAssumption ==
  /\ Goals \subseteq Goal
  /\ \A g \in Goals : /\ g.sat \subseteq SUBSET g.floating
                      /\ g.kept \subseteq SUBSET g.floating
                      /\ g.folded => g.sat \in {{}, SUBSET g.floating}
ASSUME BudgetAssumption == /\ Budgets \subseteq Nat \cup {None}
                           /\ ReportsEffort \in BOOLEAN
ASSUME AuxiliaryAssumption == Auxiliary # {}
ASSUME NoneAssumption == None \notin Nat

VARIABLES
  goal,            \* the translation enumerated
  models,          \* the models that the solver's clauses still admit
  pendingTrivial,  \* the trivial instance is still owed
  done,
  budgetRemaining, \* remaining effort, or None
  exhausted,       \* the budget ran out before the end
  reply,           \* the last call's reply: nothing yet, an instance, the end
                   \* of the sequence, or the refusal to enumerate at all
  yielded,         \* history: the instances yielded
  count            \* history: how many the caller has counted

solver == <<goal, models>>
vars == <<solver, pendingTrivial, done, budgetRemaining, exhausted, reply, yielded,
          count>>

Model == [tuples : Assignments, aux : Auxiliary]

\* The instance a model decodes to, and the models that share its projection
\* on the primary variables.
Decode(m) == m.tuples

ProjectionWithAux(m) == {m}
Projection(m) == {n \in Model : n.tuples = m.tuples}

-----------------------------------------------------------------------------
(* Translation.                                                            *)

\* The goal folded to true: every assignment satisfies it, and the clauses encode
\* only the residual question.
TriviallySat(g) == g.folded /\ g.sat # {}

TrivialInstance == {}

\* "Differs from the trivial instance", under the residual's own predicate.
ResidualWhole(g) == g.kept
Residual(g) == {a \in g.kept : a # TrivialInstance}

\* A folded goal carries no lex-leader predicate of its own.
Encoded(g) ==
  IF TriviallySat(g) THEN Residual(g)
  ELSE IF g.folded THEN g.sat
  ELSE g.sat \cap g.kept

\* The instances the enumeration is to yield.
Space(g) == Encoded(g) \cup (IF TriviallySat(g) THEN {TrivialInstance} ELSE {})

\* The instance of a reply that has none is the empty assignment.
Reply == [kind : {"Start", "Instance", "End", "Refused"}, instance : Assignments]

Says(kind) == [kind |-> kind, instance |-> {}]

TypeOK ==
  /\ goal \in Goals
  /\ models \subseteq Model
  /\ pendingTrivial \in BOOLEAN
  /\ done \in BOOLEAN
  /\ budgetRemaining \in Nat \cup {None}
  /\ exhausted \in BOOLEAN
  /\ reply \in Reply
  /\ yielded \subseteq Assignments
  /\ count \in Nat

\* A budget on a backend without counters is refused before any translation.
Init ==
  /\ goal \in Goals
  /\ models = {m \in Model : m.tuples \in Encoded(goal)}
  /\ pendingTrivial = TriviallySat(goal)
  /\ done = FALSE
  /\ budgetRemaining \in Budgets
  /\ exhausted = FALSE
  /\ reply = Says(IF budgetRemaining # None /\ ~ReportsEffort
                  THEN "Refused" ELSE "Start")
  /\ yielded = {}
  /\ count = 0

-----------------------------------------------------------------------------
(* The calls of next.                                                      *)

Called == reply.kind # "Refused" /\ UNCHANGED goal

Yields(a) == /\ reply' = [kind |-> "Instance", instance |-> a]
             /\ yielded' = yielded \cup {a}
             /\ count' = count + 1

NextAfterEnd ==
  /\ Called
  /\ done
  /\ reply' = Says("End")
  /\ UNCHANGED <<models, pendingTrivial, done, budgetRemaining, exhausted, yielded,
                 count>>

\* The trivial instance comes first, without a solver call and without a block.
NextTrivial ==
  /\ Called
  /\ ~done
  /\ pendingTrivial
  /\ pendingTrivial' = FALSE
  /\ Yields(TrivialInstance)
  /\ UNCHANGED <<models, done, budgetRemaining, exhausted>>

Solving == Called /\ ~done /\ ~pendingTrivial /\ UNCHANGED pendingTrivial

\* A solve may cost more than what is left: its conflicts are bounded, its
\* decisions and propagations are not.
Charged == /\ budgetRemaining # 0
           /\ budgetRemaining' \in
                (IF budgetRemaining = None THEN {None} ELSE 0..budgetRemaining)

StopsShortQuietly ==
  /\ Solving
  /\ budgetRemaining # None
  /\ done' = TRUE
  /\ reply' = Says("End")
  /\ UNCHANGED <<models, budgetRemaining, exhausted, yielded, count>>

\* The effort is spent, before the solve or in the middle of it.
StopsShort ==
  /\ Solving
  /\ budgetRemaining # None
  /\ exhausted' = TRUE
  /\ done' = TRUE
  /\ reply' = Says("End")
  /\ UNCHANGED <<models, budgetRemaining, yielded, count>>

Unsat ==
  /\ Solving
  /\ Charged
  /\ models = {}
  /\ done' = TRUE
  /\ reply' = Says("End")
  /\ UNCHANGED <<models, exhausted, yielded, count>>

\* With no primary variable the blocking clause is empty: it is not added, and
\* the one instance is the last.
Block(m) ==
  IF goal.floating = {} THEN /\ done' = TRUE
                             /\ UNCHANGED models
                        ELSE /\ models' = models \ Projection(m)
                             /\ UNCHANGED done

Sat(m) ==
  /\ Solving
  /\ Charged
  /\ m \in models
  /\ Block(m)
  /\ Yields(Decode(m))
  /\ UNCHANGED exhausted

Next ==
  \/ NextAfterEnd
  \/ NextTrivial
  \/ StopsShort
  \/ Unsat
  \/ \E m \in models : Sat(m)

Spec == Init /\ [][Next]_vars

-----------------------------------------------------------------------------
(* Why it is exact: the parts of an inductive invariant.                   *)

\* The solver's clauses admit exactly what has not been yielded yet.
ModelsLeft == ~done => models = {m \in Model : /\ m.tuples \in Encoded(goal)
                                              /\ m.tuples \notin yielded}

\* The trivial instance is owed before anything is yielded, and never again.
TrivialFirst == /\ pendingTrivial => TriviallySat(goal) /\ yielded = {} /\ ~done
                /\ TriviallySat(goal) /\ ~pendingTrivial => TrivialInstance \in yielded

EndsWhole == /\ yielded \subseteq Space(goal)
             /\ done /\ ~exhausted => yielded = Space(goal)
             /\ exhausted => done
             /\ reply.kind = "End" => done

CountsYielded == IsFiniteSet(yielded) /\ count = Cardinality(yielded)

EnumInv == ModelsLeft /\ TrivialFirst /\ EndsWhole /\ CountsYielded

-----------------------------------------------------------------------------
(* What the enumerator promises.                                           *)

\* No instance is yielded twice, however many models decode to it and whether or
\* not the trivial instance came first.
Distinct == [][reply'.kind = "Instance" => reply'.instance \notin yielded]_vars

\* The count is exact when the sequence ended and exhausted() is false, whatever a
\* budget, a folded goal or a goal without primary variables did on the way.
Exact == reply.kind = "End" /\ ~exhausted => /\ yielded = Space(goal)
                                            /\ count = Cardinality(Space(goal))

\* What the caller has been told of the end.
Said == IF exhausted THEN "truncated"
        ELSE IF reply.kind = "End" THEN "complete"
        ELSE "more"

\* It is an exact enumeration: every instance once, then complete or truncated,
\* and nothing after that.
E == INSTANCE Enumeration
       WITH Answers <- Assignments, space <- Space(goal), given <- yielded,
            said <- Said
IsEnumeration == E!EnumerationSpec
=============================================================================
