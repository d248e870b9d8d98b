------------------------ MODULE TemporalSolveProofs ------------------------
(***************************************************************************)
(* Theorems about TemporalSolve, for every command, formula, steps range   *)
(* and limit: the goal of every length has exactly the lassos whose        *)
(* infinite trace satisfies the command, the verdict is about the whole    *)
(* range, and the evaluator answers about the instant asked for.           *)
(*                                                                         *)
(* The argument goes by the truth of a formula over the infinite trace,    *)
(* Means.  From the loop target on it repeats, a pass later for each past  *)
(* operator that nests (MeansRepeats).  So a window of instants decides it *)
(* (WindowIsEnough), and so does a line with as many further copies of the *)
(* loop (ExpandsIsTrue, LowerIsExact), of which the branches of a length   *)
(* may share what looks at one state only (RemembersWhatIsSo).             *)
(***************************************************************************)
EXTENDS TemporalSolve, WellFoundedInduction, FiniteSetTheorems, TLAPS

----------------------------------------------------------------------------
(* Instants and states.                                                    *)

\* A lasso of a length has that many states and its loop target among them.
LEMMA LassoFields ==
  ASSUME NEW c, NEW n \in Nat, NEW x \in Lassos(c, n)
  PROVE  /\ n # 0
         /\ x.k = n
         /\ x.loop \in 0..n-1
         /\ x = [k |-> n, states |-> x.states, loop |-> x.loop, static |-> x.static]
BY DEF Lassos, WithLoop

\* Every instant of the infinite trace is at a state of the lasso, and every state is at
\* the instant of its number.
LEMMA InstantsAreStates ==
  ASSUME NEW c, NEW n \in Nat, NEW x \in Lassos(c, n)
  PROVE  /\ \A t \in Nat : \E s \in 0..n-1 : At(x, t) = x.states[s]
         /\ \A s \in 0..n-1 : At(x, s) = x.states[s]
<1>1. n # 0 /\ x.k = n /\ x.loop \in 0..n-1
  BY LassoFields
<1>2. ASSUME NEW t \in Nat
      PROVE  \E s \in 0..n-1 : At(x, t) = x.states[s]
  <2>1. CASE t < n
    BY <2>1, <1>1 DEF At, Position
  <2>2. CASE ~(t < n)
    <3>1. PICK span : span = n - x.loop
      OBVIOUS
    <3>2. span \in Nat \ {0} /\ t - x.loop \in Nat
      BY <3>1, <1>1, <2>2
    <3>3. (t - x.loop) % span \in 0..span-1
      BY <3>2
    <3>4. x.loop + ((t - x.loop) % span) \in 0..n-1
      BY <3>1, <3>3, <1>1
    <3> QED BY <2>2, <3>1, <3>4, <1>1 DEF At, Position
  <2> QED BY <2>1, <2>2
<1>3. ASSUME NEW s \in 0..n-1
      PROVE  At(x, s) = x.states[s]
  BY <1>1 DEF At, Position
<1> QED BY <1>2, <1>3

----------------------------------------------------------------------------
(* The hierarchy.                                                          *)

\* A set of numbers has a least one.
LEMMA LeastNumber ==
  ASSUME NEW T \in SUBSET Nat, T # {}
  PROVE  \E m \in T : \A i \in T : m <= i
<1>1. PICK m \in T : \A i \in T : <<i, m>> \notin OpToRel(<, Nat)
  BY NatLessThanWellFounded, WFMin
<1>2. \A i \in T : ~(i < m)
  BY <1>1 DEF OpToRel
<1>3. \A i \in T : m <= i
  BY <1>2
<1> QED BY <1>3

\* Min is it.
LEMMA LeastIndex ==
  ASSUME NEW T \in SUBSET Nat, T # {}
  PROVE  Min(T) \in T /\ \A i \in T : Min(T) <= i
<1>1. \E m \in T : \A i \in T : m <= i
  BY LeastNumber
<1> QED BY <1>1, Zenon DEF Min

\* Max of two numbers is one of them.
LEMMA GreaterOfTwo ==
  ASSUME NEW a \in Nat, NEW b \in Nat
  PROVE  Max({a, b}) \in {a, b} /\ Max({a, b}) >= a /\ Max({a, b}) >= b
<1>1. \E m \in {a, b} : \A i \in {a, b} : m >= i
  <2>1. CASE a >= b
    BY <2>1
  <2>2. CASE ~(a >= b)
    BY <2>2
  <2> QED BY <2>1, <2>2
<1> QED BY <1>1 DEF Max

\* Two relations are never both in at any states if one of them is never in at any
\* instant.
LEMMA ApartAtEveryInstant ==
  ASSUME NEW c, NEW n \in Nat, NEW x \in Lassos(c, n), NEW rel, NEW other
  PROVE  NeverBoth(x, n, rel, other)
         <=> ~((\E t \in 0..2*n : rel \in At(x, t) \cup x.static)
               /\ (\E t \in 0..2*n : other \in At(x, t) \cup x.static))
<1>1. \A r : (\E t \in 0..2*n : r \in At(x, t) \cup x.static)
             <=> (\E s \in 0..n-1 : HoldsAt(x, r, s))
  <2>1. ASSUME NEW r, NEW t \in 0..2*n, r \in At(x, t) \cup x.static
        PROVE  \E s \in 0..n-1 : HoldsAt(x, r, s)
    <3>1. PICK s \in 0..n-1 : At(x, t) = x.states[s]
      BY InstantsAreStates
    <3> QED BY <2>1, <3>1 DEF HoldsAt
  <2>2. ASSUME NEW r, NEW s \in 0..n-1, HoldsAt(x, r, s)
        PROVE  \E t \in 0..2*n : r \in At(x, t) \cup x.static
    <3>1. s \in 0..2*n /\ At(x, s) = x.states[s]
      BY InstantsAreStates
    <3> QED BY <2>2, <3>1 DEF HoldsAt
  <2> QED BY <2>1, <2>2
<1>2. NeverBoth(x, n, rel, other)
      <=> ~((\E s \in 0..n-1 : HoldsAt(x, rel, s)) /\ (\E s \in 0..n-1 : HoldsAt(x, other, s)))
  BY DEF NeverBoth
<1> QED BY <1>1, <1>2

\* A signature has the population of the first state at every other exactly if it has it
\* at every instant.
LEMMA SteadyAtEveryInstant ==
  ASSUME NEW c, NEW n \in Nat, NEW x \in Lassos(c, n)
  PROVE  (\A s \in 1..n-1 : Populated(c, x, s) = Populated(c, x, 0))
         <=> \A t \in 0..2*n : (Population(c) \cap (At(x, t) \cup x.static) # {})
                               = (Population(c) \cap (At(x, 0) \cup x.static) # {})
<1> DEFINE Inside(t) == Population(c) \cap (At(x, t) \cup x.static) # {}
           Here(s)   == Population(c) \cap (x.states[s] \cup x.static) # {}
<1>1. n # 0
  BY LassoFields
<1>2. \A s : Populated(c, x, s) = Here(s)
  BY DEF Populated, HoldsAt
<1>3. \A t \in 0..2*n : \E s \in 0..n-1 : Inside(t) = Here(s)
  <2>1. SUFFICES ASSUME NEW t \in 0..2*n
                 PROVE  \E s \in 0..n-1 : Inside(t) = Here(s)
    OBVIOUS
  <2>2. PICK s \in 0..n-1 : At(x, t) = x.states[s]
    BY InstantsAreStates
  <2> QED BY <2>2
<1>4. \A s \in 0..n-1 : Inside(s) = Here(s)
  BY InstantsAreStates
<1> HIDE DEF Inside, Here
<1>5. ASSUME \A s \in 1..n-1 : Here(s) = Here(0), NEW t \in 0..2*n
      PROVE  Inside(t) = Inside(0)
  <2>1. PICK s \in 0..n-1 : Inside(t) = Here(s)
    BY <1>3
  <2>2. s = 0 \/ s \in 1..n-1
    BY <2>1
  <2>3. 0 \in 0..n-1
    BY <1>1
  <2> QED BY <2>1, <2>2, <2>3, <1>4, <1>5
<1>6. ASSUME \A t \in 0..2*n : Inside(t) = Inside(0), NEW s \in 1..n-1
      PROVE  Here(s) = Here(0)
  <2>1. s \in 0..2*n /\ s \in 0..n-1 /\ 0 \in 0..n-1
    BY <1>1
  <2> QED BY <2>1, <1>4, <1>6
<1>7. (\A s \in 1..n-1 : Here(s) = Here(0)) <=> (\A t \in 0..2*n : Inside(t) = Inside(0))
  BY <1>5, <1>6
<1>8. (\A s \in 1..n-1 : Here(s) = Here(0))
      <=> (\A s \in 1..n-1 : Populated(c, x, s) = Populated(c, x, 0))
  BY <1>2
<1> QED BY <1>7, <1>8 DEF Inside

\* The pairs of subsignatures that may not share an atom: from the first variable one on,
\* each with each before it.
LEMMA FromTheFirstVariable ==
  ASSUME NEW c, IsCommand(c), VarKids(c) # {}, NEW i \in DOMAIN c.kids, NEW j \in DOMAIN c.kids
  PROVE  (i \in Max({2, Min(VarKids(c))})..Len(c.kids) /\ j \in 1..i-1)
         <=> (j < i /\ \E v \in VarKids(c) : v <= i)
<1>1. DOMAIN c.kids = 1..Len(c.kids) /\ Len(c.kids) \in Nat
  BY DEF IsCommand
<1>2. VarKids(c) \subseteq DOMAIN c.kids /\ VarKids(c) \in SUBSET Nat
  BY <1>1 DEF VarKids
<1>3. PICK first : first = Min(VarKids(c))
  OBVIOUS
<1>4. first \in VarKids(c) /\ \A v \in VarKids(c) : first <= v
  BY <1>2, <1>3, LeastIndex
<1>5. (\E v \in VarKids(c) : v <= i) <=> first <= i
  BY <1>1, <1>2, <1>4
<1>6. PICK from : from = Max({2, first})
  OBVIOUS
<1>7. from \in {2, first} /\ from >= 2 /\ from >= first
  BY <1>2, <1>4, <1>6, GreaterOfTwo
<1>8. (i \in from..Len(c.kids) /\ j \in 1..i-1) <=> (j < i /\ first <= i)
  BY <1>1, <1>2, <1>4, <1>7
<1> QED BY <1>3, <1>5, <1>6, <1>8

\* The facts about the states are what the hierarchy claims of the infinite trace.
LEMMA HierarchyIsExact ==
  ASSUME NEW c, IsCommand(c), NEW n \in Nat, NEW x \in Lassos(c, n)
  PROVE  HierarchyFacts(c, n, x) <=> ClaimsOfHierarchy(x, c)
<1> DEFINE Ever(rel)   == \E t \in 0..2*n : rel \in At(x, t) \cup x.static
           Inside(t)   == Population(c) \cap (At(x, t) \cup x.static) # {}
           Chosen(i, j) == j < i /\ \E v \in VarKids(c) : v <= i
           Steady      == \A t \in 0..2*n : Inside(t) = Inside(0)
<1>1. x.k = n
  BY LassoFields
<1>2. CASE VarKids(c) = {}
  BY <1>2 DEF HierarchyFacts, ClaimsOfHierarchy
<1>3. CASE VarKids(c) # {}
  <2>1. ClaimsOfHierarchy(x, c) <=>
          /\ \A i, j \in DOMAIN c.kids : Chosen(i, j) /\ Ever(c.kids[i]) => ~Ever(c.kids[j])
          /\ \A i \in DOMAIN c.kids : c.rest # None /\ Ever(c.rest) => ~Ever(c.kids[i])
          /\ c.rigid => Steady
    BY <1>1, <1>3 DEF ClaimsOfHierarchy
  <2>2. \A rel, other : NeverBoth(x, n, rel, other) <=> ~(Ever(rel) /\ Ever(other))
    BY ApartAtEveryInstant
  <2>3. (\A s \in 1..n-1 : Populated(c, x, s) = Populated(c, x, 0)) <=> Steady
    BY SteadyAtEveryInstant
  <2> DEFINE from    == Max({2, Min(VarKids(c))})
             Apart   == \A i \in from..Len(c.kids) : \A j \in 1..i-1 : NeverBoth(x, n, c.kids[i], c.kids[j])
             Remains == \A j \in DOMAIN c.kids : NeverBoth(x, n, c.kids[j], c.rest)
  <2>4. HierarchyFacts(c, n, x) <=> (c.rigid => Steady) /\ Apart /\ (c.rest # None => Remains)
    BY <1>3, <2>3 DEF HierarchyFacts
  <2>5. \A i, j \in DOMAIN c.kids : (i \in from..Len(c.kids) /\ j \in 1..i-1) <=> Chosen(i, j)
    BY <1>3, FromTheFirstVariable
  <2>6. \A i \in from..Len(c.kids) : \A j \in 1..i-1 : i \in DOMAIN c.kids /\ j \in DOMAIN c.kids
    <3>1. DOMAIN c.kids = 1..Len(c.kids) /\ Len(c.kids) \in Nat
      BY DEF IsCommand
    <3>2. VarKids(c) \subseteq DOMAIN c.kids /\ VarKids(c) \in SUBSET Nat
      BY <3>1 DEF VarKids
    <3>3. Min(VarKids(c)) \in Nat
      BY <1>3, <3>2, LeastIndex
    <3>4. from \in Nat /\ from >= 2
      BY <3>3, GreaterOfTwo
    <3> HIDE DEF from
    <3> QED BY <3>1, <3>4
  <2> HIDE DEF Ever, Steady, Chosen, from
  <2>7. Apart <=> \A i, j \in DOMAIN c.kids : Chosen(i, j) => ~(Ever(c.kids[i]) /\ Ever(c.kids[j]))
    BY <2>2, <2>5, <2>6
  <2>8. (c.rest # None => Remains)
        <=> \A i \in DOMAIN c.kids : c.rest # None /\ Ever(c.rest) => ~Ever(c.kids[i])
    BY <2>2
  <2> HIDE DEF Apart, Remains
  <2> QED BY <2>1, <2>4, <2>7, <2>8
<1> QED BY <1>2, <1>3

----------------------------------------------------------------------------
(* The sweep.                                                              *)

\* The sweep starts with nothing claimed.
LEMMA SweepStarts == Init => SweepInv /\ LoweringIsExact
<1> SUFFICES ASSUME Init
             PROVE  SweepInv /\ LoweringIsExact
  OBVIOUS
<1>1. command.min \in Nat
  BY CommandsAssumption DEF Init, IsCommand
<1> QED BY <1>1 DEF Init, SweepInv, SweepTypeOK, InsideRange, NoHole, AnswerHolds, LoweringIsExact, ConjunctsExact

\* The solver is given what the conjuncts and the hierarchy leave.
LEMMA ConjoinsExactly ==
  ASSUME SweepInv, ConjunctsExact, Conjoins
  PROVE  goal' = {x \in Lassos(command, k) : Satisfies(x, command)}
<1>1. IsCommand(command) /\ k \in Nat
  BY CommandsAssumption DEF SweepInv, SweepTypeOK
<1>2. goal = {x \in Lassos(command, k) :
                \A i \in DOMAIN command.conjuncts : Claims(x, command.conjuncts[i])}
  <2>1. goal = {x \in Lassos(command, k) :
                  /\ x.loop < k
                  /\ \A i \in DOMAIN command.conjuncts : Claims(x, command.conjuncts[i])}
    BY DEF Conjoins, ConjunctsExact
  <2>2. \A x \in Lassos(command, k) : x.loop < k
    BY <1>1, LassoFields
  <2> QED BY <2>1, <2>2
<1>3. goal' = {x \in goal : HierarchyFacts(command, k, x)}
  BY DEF Conjoins
<1>4. \A x \in Lassos(command, k) : HierarchyFacts(command, k, x) <=> ClaimsOfHierarchy(x, command)
  BY <1>1, HierarchyIsExact
<1> QED BY <1>2, <1>3, <1>4 DEF Satisfies

\* The loop target that the selector names is the trace's.
LEMMA LoopIsRecovered ==
  ASSUME NEW c, NEW n \in Nat, NEW x \in Lassos(c, n)
  PROVE  [x EXCEPT !.loop = RecoverLoopState(Selector(x))] = x
<1>1. /\ x.k = n /\ x.loop \in 0..n-1
      /\ x = [k |-> n, states |-> x.states, loop |-> x.loop, static |-> x.static]
  BY LassoFields
<1>2. \A s \in 0..n-1 : Selector(x)[s] <=> s = x.loop
  BY <1>1 DEF Selector
<1>3. DOMAIN Selector(x) = 0..n-1
  BY <1>1 DEF Selector
<1>4. RecoverLoopState(Selector(x)) = x.loop
  BY <1>1, <1>2, <1>3 DEF RecoverLoopState
<1> QED BY <1>1, <1>4

\* Each step keeps the invariant, as the goal of the length being solved is exact.
LEMMA SweepSteps ==
  ASSUME SweepInv, LoweringIsExact, [Next]_vars
  PROVE  SweepInv'
<1> USE DEF SweepInv, SweepTypeOK
<1>1. IsCommand(command) /\ command.min \in Nat /\ command.max \in Nat \cup {None}
  BY CommandsAssumption DEF IsCommand
<1>2. ASSUME Says("UnboundedSteps") \/ Says("PrimaryVarCap") \/ Says("Error") \/ Says("Unknown")
      PROVE  SweepInv'
  <2>1. /\ verdict'.kind \notin {"Sat", "Unsat", "None"} /\ pc' = "done"
        /\ UNCHANGED <<command, k>>
    BY <1>2 DEF Says
  <2> QED BY <2>1 DEF InsideRange, NoHole, AnswerHolds
<1>3. CASE Exhausts
  <2>1. /\ verdict'.kind = "Unsat" /\ pc' = "done" /\ UNCHANGED <<command, k>>
        /\ command.max \in Nat /\ k > command.max
    BY <1>1, <1>3 DEF Exhausts, Says
  <2> QED BY <2>1 DEF InsideRange, NoHole, AnswerHolds
<1>4. CASE Unrolls
  BY <1>1, <1>4 DEF Unrolls, InRange, InsideRange, NoHole, AnswerHolds
<1>5. CASE LowersBranch
  BY <1>5 DEF LowersBranch, InsideRange, NoHole, AnswerHolds
<1>6. CASE Conjoins
  BY <1>6 DEF Conjoins, InsideRange, NoHole, AnswerHolds
<1>7. CASE SolvesUnsat
  <2>1. pc = "solve" /\ goal = {}
    BY <1>7 DEF SolvesUnsat, Encodes
  <2>2. \A x \in Lassos(command, k) : ~Satisfies(x, command)
    BY <2>1 DEF LoweringIsExact
  <2>3. k' = k + 1 /\ pc' = "length" /\ UNCHANGED <<command, verdict>>
    BY <1>7 DEF SolvesUnsat, NextLength
  <2>4. \A n \in command.min..k'-1 : n = k \/ n \in command.min..k-1
    BY <1>1, <2>3
  <2>5. NoHole'
    BY <2>2, <2>3, <2>4 DEF NoHole
  <2> QED BY <1>1, <2>1, <2>3, <2>5 DEF InsideRange, AnswerHolds
<1>8. CASE SolvesSat
  <2>1. pc = "solve"
    BY <1>8 DEF SolvesSat, Encodes
  <2>2. PICK x \in goal : verdict' = [kind |-> "Sat",
                                     trace |-> [x EXCEPT !.loop = RecoverLoopState(Selector(x))]]
    BY <1>8 DEF SolvesSat
  <2>3. x \in Lassos(command, k) /\ Satisfies(x, command)
    BY <2>1, <2>2 DEF LoweringIsExact
  <2>4. verdict'.kind = "Sat" /\ verdict'.trace = x
    BY <2>2, <2>3, LoopIsRecovered
  <2>5. pc' = "done" /\ UNCHANGED <<command, k>>
    BY <1>8 DEF SolvesSat
  <2> QED BY <2>1, <2>3, <2>4, <2>5 DEF InsideRange, NoHole, AnswerHolds
<1>9. CASE \E n \in command.fragments, index \in Indices : Evaluate(n, index)
  BY <1>9 DEF Evaluate, InsideRange, NoHole, AnswerHolds
<1>10. CASE UNCHANGED vars
  BY <1>10 DEF vars, InsideRange, NoHole, AnswerHolds
<1> QED BY <1>2, <1>3, <1>4, <1>5, <1>6, <1>7, <1>8, <1>9, <1>10
        DEF Next, RefusesUnbounded, OverCap, CannotEncode, GivesUp

\* Each step keeps the goal exact where it keeps the conjuncts so.
LEMMA GoalSteps ==
  ASSUME SweepInv, LoweringIsExact, [Next]_vars, ConjunctsExact'
  PROVE  LoweringIsExact'
<1>1. CASE Conjoins
  <2>1. goal' = {x \in Lassos(command, k) : Satisfies(x, command)}
    BY <1>1, ConjoinsExactly DEF LoweringIsExact
  <2>2. UNCHANGED <<command, k>>
    BY <1>1 DEF Conjoins
  <2> QED BY <2>1, <2>2 DEF LoweringIsExact
<1>2. CASE UNCHANGED <<command, k, goal, pc>>
  BY <1>2 DEF LoweringIsExact
<1>3. CASE pc' # "solve"
  BY <1>3 DEF LoweringIsExact
<1>4. Conjoins \/ UNCHANGED <<command, k, goal, pc>> \/ pc' # "solve"
  BY DEF Next, vars, RefusesUnbounded, Exhausts, OverCap, Unrolls, LowersBranch, CannotEncode, GivesUp,
         SolvesUnsat, SolvesSat, NextLength, Says, Evaluate
<1> QED BY <1>1, <1>2, <1>3, <1>4

\* The invariant of the sweep says what the verdict is about.
LEMMA VerdictFollows == SweepInv => VerdictIsExact
<1> SUFFICES ASSUME SweepInv, verdict.kind \in {"Sat", "Unsat"}
             PROVE  VerdictIsExact
  BY DEF VerdictIsExact
<1>1. command.min \in Nat /\ k \in Nat /\ command.max \in Nat
  BY CommandsAssumption DEF SweepInv, SweepTypeOK, IsCommand, InsideRange, AnswerHolds
<1>2. verdict.kind = "Sat" => verdict.trace.k = k
  BY <1>1, LassoFields DEF SweepInv, AnswerHolds
<1>3. ASSUME NEW n \in command.min..command.max, verdict.kind = "Unsat" \/ n < verdict.trace.k
      PROVE  n \in command.min..k-1
  BY <1>1, <1>2, <1>3 DEF SweepInv, AnswerHolds
<1> QED BY <1>3 DEF SweepInv, NoHole, AnswerHolds, VerdictIsExact

----------------------------------------------------------------------------
(* What the evaluator relies on when it looks for an instant of a lasso on *)
(* a finite timeline, for every trace, loop target, depth and instant.     *)

\* A product with a positive factor is at least the other factor.
LEMMA ProductAtLeast ==
  ASSUME NEW n \in Nat \ {0}, NEW a \in Nat \ {0}
  PROVE  a * n >= n
  BY SMT

\* A product grows with a factor.
LEMMA ProductMonotone ==
  ASSUME NEW n \in Nat, NEW a \in Nat, NEW b \in Nat, a <= b
  PROVE  a * n <= b * n
  BY SMT

\* A remainder is unique.
LEMMA RemainderUnique ==
  ASSUME NEW n \in Nat \ {0}, NEW q \in Int, NEW w \in 0..n-1
  PROVE  (q * n + w) % n = w
<1> DEFINE x == q * n + w
           p == x \div n
           r == x % n
<1>1. x \in Int
  BY SMT
<1>2. p \in Int /\ r \in 0..n-1 /\ x = n * p + r
  BY <1>1, SMT
<1>3. (q - p) * n = r - w
  BY <1>2, SMT
<1>4. CASE q = p
  BY <1>2, <1>3, <1>4, SMT
<1>5. CASE q > p
  <2>1. (q - p) * n >= n
    BY <1>2, <1>5, ProductAtLeast, SMT
  <2>. QED
    BY <1>2, <1>3, <2>1, SMT
<1>6. CASE q < p
  <2>1. (p - q) * n >= n
    BY <1>2, <1>6, ProductAtLeast, SMT
  <2>. QED
    BY <1>2, <1>3, <2>1, SMT
<1>. QED
  BY <1>2, <1>4, <1>5, <1>6, SMT

\* eliminate_fragment_at_state: the logical time of an instant is on the timeline, and
\* at the state that the wrap rule names, whatever the trace, its loop target, the
\* depth to which past operators nest and the instant.
THEOREM LogicalTimeIsAtState ==
  ASSUME NEW len \in Nat \ {0}, NEW l \in 0..len-1, NEW d \in Nat, NEW index \in Int,
         NEW s, s.k = len, s.loop = l
  PROVE  LET i == IF index < 0 THEN 0 ELSE index
             t == LogicalTime(len, l, d, i)
         IN  /\ t \in DOMAIN Timeline(len, l, d)
             /\ Timeline(len, l, d)[t] = NormalizeState(s, index)
<1> DEFINE i == IF index < 0 THEN 0 ELSE index
           t == LogicalTime(len, l, d, i)
           n == len - l
           state(u) == IF u < len THEN u ELSE l + ((u - len) % n)
<1>1. i \in Nat /\ n \in Nat \ {0}
  BY SMT
<1>2. NormalizeState(s, index) = IF i > l THEN l + ((i - l) % n) ELSE i
  BY DEF NormalizeState
<1>3. SUFFICES /\ t \in 0..len + d * n - 1
               /\ state(t) = IF i > l THEN l + ((i - l) % n) ELSE i
  BY <1>2 DEF Timeline
<1>4. d * n \in Nat
  BY <1>1, SMT
<1> HIDE DEF n
<1>5. CASE i < len
  <2>1. t = i
    BY <1>5 DEF LogicalTime
  <2>2. i > l => (0 * n + (i - l)) % n = i - l
    <3>. SUFFICES ASSUME i > l PROVE (0 * n + (i - l)) % n = i - l
      OBVIOUS
    <3>1. i - l \in 0..n-1
      BY <1>1, <1>5, SMT DEF n
    <3>. QED
      BY <1>1, <3>1, RemainderUnique
  <2>3. i > l => (i - l) % n = i - l
    BY <1>1, <2>2, SMT
  <2>. QED
    BY <1>1, <1>4, <1>5, <2>1, <2>3, SMT
<1>6. CASE i >= len
  <2> DEFINE within == (i - len) % n
             pass   == (i - len) \div n + 1
             copy   == IF pass < d THEN pass ELSE d
  <2>1. /\ within \in 0..n-1
        /\ pass \in Nat \ {0}
        /\ i - len = (pass - 1) * n + within
    <3>1. PICK a \in Nat : a = i - len
      BY <1>1, <1>6, SMT
    <3>2. PICK m \in Nat \ {0} : m = n
      BY <1>1
    <3>3. a % m \in 0..m-1 /\ a \div m \in Nat /\ a = (a \div m) * m + (a % m)
      BY SMT
    <3> QED BY <3>1, <3>2, <3>3, SMT
  <2>2. t = IF d = 0 THEN l + within ELSE len + (copy - 1) * n + within
    BY <1>1, <1>6, SMT DEF LogicalTime, n
  <2> HIDE DEF within, pass
  <2>3. (i - l) % n = within
    <3>1. i - l = pass * n + within
      BY <1>1, <2>1, SMT DEF n
    <3>2. pass \in Int /\ n \in Nat \ {0} /\ within \in 0..n-1
      BY <1>1, <2>1, SMT
    <3>3. (pass * n + within) % n = within
      BY <3>2, RemainderUnique, Zenon
    <3>. QED
      BY <3>1, <3>3
  <2>4. i > l
    BY <1>6, SMT
  <2>5. CASE d = 0
    <3>1. t = l + within /\ t \in 0..len-1
      BY <2>1, <2>2, <2>5, SMT DEF n
    <3>. QED
      BY <1>1, <1>4, <2>1, <2>3, <2>4, <2>5, <3>1, SMT
  <2>6. CASE d # 0
    <3>1. copy \in Nat \ {0} /\ copy <= d
      BY <2>1, <2>6, SMT
    <3> HIDE DEF copy
    <3>2. t = len + (copy - 1) * n + within
      BY <2>2, <2>6
    <3>3. (copy - 1) * n \in Nat /\ (copy - 1) * n + n <= d * n
      BY <1>1, <3>1, ProductMonotone, SMT
    <3>4. t \in 0..len + d * n - 1 /\ t >= len
      BY <1>1, <1>4, <2>1, <3>2, <3>3, SMT
    <3>5. (t - len) % n = within
      <4>1. t - len = (copy - 1) * n + within
        BY <1>1, <2>1, <3>2, <3>3, SMT
      <4>. QED
        <5>1. PICK m \in Nat \ {0}, q \in Int, w \in Int : m = n /\ q = copy - 1 /\ w = within /\ w \in 0..m-1
          BY <1>1, <2>1, <3>1, SMT
        <5>2. (q * m + w) % m = w
          BY <5>1, RemainderUnique
        <5> QED BY <4>1, <5>1, <5>2
    <3>. QED
      BY <2>3, <2>4, <3>4, <3>5, SMT
  <2>. QED
    BY <2>5, <2>6
<1>. QED
  BY <1>1, <1>5, <1>6, SMT

----------------------------------------------------------------------------
(* Nodes: what is said of a node by what is said of its operands.          *)

\* A set of nodes with the operands of each.
Closed(S) == S \subseteq Formulas /\ \A n \in S : \A i \in DOMAIN n.args : n.args[i] \in S

OperandsOf(f, n) == [i \in DOMAIN n.args |-> f[n.args[i]]]

\* The operands of a formula are formulas.
LEMMA FormulasAreClosed == Closed(Formulas)
<1> SUFFICES ASSUME NEW n \in Formulas, NEW i \in DOMAIN n.args
             PROVE  n.args[i] \in Formulas
  BY DEF Closed
<1> QED BY FormulasAssumption DEF IsNode

\* Operands are nodes of less height.
LEMMA OperandsAreLower ==
  ASSUME NEW n \in Formulas, NEW i \in DOMAIN n.args
  PROVE  /\ n.args[i] \in Formulas
         /\ Height[n] \in Nat /\ Height[n.args[i]] \in Nat
         /\ Height[n.args[i]] < Height[n]
<1>1. Height \in [Formulas -> Nat] /\ IsNode(n)
  BY FormulasAssumption
<1>2. n.args[i] \in Formulas
  BY <1>1 DEF IsNode
<1> QED BY <1>1, <1>2 DEF IsNode

\* What holds of a node once it holds of its operands holds of every node.
LEMMA FormulaInduction ==
  ASSUME NEW S, Closed(S), NEW T,
         \A n \in S : (\A i \in DOMAIN n.args : n.args[i] \in T) => n \in T
  PROVE  S \subseteq T
<1> DEFINE off == {Height[n] : n \in S \ T}
<1>1. \A n \in S : n \in Formulas /\ Height[n] \in Nat
  BY FormulasAssumption DEF Closed
<1>2. off = {}
  <2>1. SUFFICES ASSUME off # {} PROVE FALSE
    OBVIOUS
  <2>2. off \in SUBSET Nat
    BY <1>1
  <2>3. PICK m \in off : \A j \in off : m <= j
    BY <2>1, <2>2, LeastNumber
  <2>4. PICK n \in S \ T : m = Height[n]
    BY <2>3
  <2>5. \A i \in DOMAIN n.args : n.args[i] \in T
    <3>1. SUFFICES ASSUME NEW i \in DOMAIN n.args, n.args[i] \notin T PROVE FALSE
      OBVIOUS
    <3>2. n.args[i] \in S \ T
      BY <2>4, <3>1 DEF Closed
    <3>3. Height[n.args[i]] \in Nat /\ Height[n] \in Nat /\ Height[n.args[i]] < Height[n]
      BY <1>1, <2>4, OperandsAreLower
    <3>4. Height[n] <= Height[n.args[i]]
      BY <2>3, <2>4, <3>2
    <3> QED BY <3>3, <3>4
  <2> QED BY <2>4, <2>5
<1> QED BY <1>2

\* A function given at each node by its values at the operands exists.
Gives(G, S, V) == \A n \in S : \A v \in [DOMAIN n.args -> V] : G[n][v] \in V
Solves(f, G, S, V) == f \in [S -> V] /\ \A n \in S : f[n] = G[n][OperandsOf(f, n)]

\* So a recursive function on nodes is defined.
LEMMA FormulaRecursion ==
  ASSUME NEW S, Closed(S), NEW V, NEW G, Gives(G, S, V)
  PROVE  \E f : Solves(f, G, S, V)
<1> USE DEF Gives, Solves
<1> DEFINE Below(m) == {n \in S : Height[n] < m}
           Right(f, m) == /\ f \in [Below(m) -> V]
                          /\ \A n \in Below(m) : f[n] = G[n][OperandsOf(f, n)]
           bad == {m \in Nat : ~\E f : Right(f, m)}
<1>1. \A n \in S : n \in Formulas /\ Height[n] \in Nat
  BY FormulasAssumption DEF Closed
<1>2. \A n \in S : \A i \in DOMAIN n.args : n.args[i] \in S /\ Height[n.args[i]] \in Nat /\ Height[n.args[i]] < Height[n]
  BY <1>1, OperandsAreLower DEF Closed
<1>3. ASSUME NEW m \in Nat, NEW f, Right(f, m)
      PROVE  LET h == [n \in Below(m + 1) |-> IF n \in Below(m) THEN f[n] ELSE G[n][OperandsOf(f, n)]]
             IN  Right(h, m + 1)
  <2> DEFINE h == [n \in Below(m + 1) |-> IF n \in Below(m) THEN f[n] ELSE G[n][OperandsOf(f, n)]]
  <2>1. ASSUME NEW n \in Below(m + 1)
        PROVE  /\ OperandsOf(h, n) = OperandsOf(f, n)
               /\ OperandsOf(f, n) \in [DOMAIN n.args -> V]
    <3>1. \A i \in DOMAIN n.args : n.args[i] \in Below(m) /\ n.args[i] \in Below(m + 1)
      <4> SUFFICES ASSUME NEW i \in DOMAIN n.args
                   PROVE  n.args[i] \in Below(m) /\ n.args[i] \in Below(m + 1)
        OBVIOUS
      <4>1. Height[n] \in Nat /\ Height[n] < m + 1 /\ n.args[i] \in S
            /\ Height[n.args[i]] \in Nat /\ Height[n.args[i]] < Height[n]
        BY <1>1, <1>2
      <4> QED BY <4>1
    <3>2. \A i \in DOMAIN n.args : h[n.args[i]] = f[n.args[i]] /\ f[n.args[i]] \in V
      BY <3>1, <1>3
    <3> HIDE DEF h, Below
    <3> QED BY <3>2 DEF OperandsOf
  <2>2. \A n \in Below(m + 1) : h[n] = G[n][OperandsOf(f, n)]
    <3> SUFFICES ASSUME NEW n \in Below(m + 1), n \in Below(m)
                 PROVE  f[n] = G[n][OperandsOf(f, n)]
      OBVIOUS
    <3> QED BY <1>3
  <2>3. \A n \in Below(m + 1) : G[n][OperandsOf(f, n)] \in V
    BY <2>1
  <2>4. h \in [Below(m + 1) -> V]
    <3>1. DOMAIN h = Below(m + 1) /\ h = [n \in DOMAIN h |-> h[n]]
      OBVIOUS
    <3> HIDE DEF h, Below
    <3> QED BY <2>2, <2>3, <3>1
  <2> HIDE DEF h, Below
  <2> QED BY <2>1, <2>2, <2>4 DEF h
<1>4. bad = {}
  <2>1. SUFFICES ASSUME bad # {} PROVE FALSE
    OBVIOUS
  <2>2. PICK m \in bad : \A i \in bad : m <= i
    <3> HIDE DEF Right
    <3> QED BY <2>1, LeastNumber
  <2>3. CASE m = 0
    <3>1. Below(0) = {}
      BY <1>1
    <3>2. Right([n \in Below(0) |-> {}], 0)
      BY <3>1
    <3> HIDE DEF Right
    <3> QED BY <3>2, <2>2, <2>3
  <2>4. CASE m # 0
    <3> HIDE DEF Right
    <3>1. m \in Nat /\ m - 1 \in Nat /\ ~(m <= m - 1) /\ (m - 1) + 1 = m
      BY <2>2, <2>4
    <3>2. m - 1 \notin bad
      <4> HIDE DEF bad
      <4> QED BY <3>1, <2>2
    <3>3. PICK f : Right(f, m - 1)
      BY <3>1, <3>2
    <3>4. PICK h : Right(h, (m - 1) + 1)
      BY <1>3, <3>1, <3>3
    <3> QED BY <2>2, <3>1, <3>4
  <2> QED BY <2>3, <2>4
<1> DEFINE part == [m \in Nat |-> CHOOSE f : Right(f, m)]
           whole == [n \in S |-> part[Height[n] + 1][n]]
<1>5. \A m \in Nat : Right(part[m], m)
  <2> HIDE DEF Right
  <2> QED BY <1>4
<1>6. \A m \in Nat : \A j \in Nat : \A n \in S : Height[n] < m /\ Height[n] < j => part[m][n] = part[j][n]
  <2> DEFINE T == {n \in S : \A m \in Nat : \A j \in Nat :
                     Height[n] < m /\ Height[n] < j => part[m][n] = part[j][n]}
  <2> HIDE DEF part
  <2>1. ASSUME NEW n \in S, \A i \in DOMAIN n.args : n.args[i] \in T
        PROVE  n \in T
    <3>1. SUFFICES ASSUME NEW m \in Nat, NEW j \in Nat, Height[n] < m, Height[n] < j
                   PROVE  part[m][n] = part[j][n]
      OBVIOUS
    <3>2. \A i \in DOMAIN n.args : part[m][n.args[i]] = part[j][n.args[i]]
      <4> SUFFICES ASSUME NEW i \in DOMAIN n.args
                   PROVE  part[m][n.args[i]] = part[j][n.args[i]]
        OBVIOUS
      <4>1. Height[n.args[i]] < m /\ Height[n.args[i]] < j
        BY <1>1, <1>2, <3>1
      <4> QED BY <2>1, <4>1
    <3>3. OperandsOf(part[m], n) = OperandsOf(part[j], n)
      BY <3>2 DEF OperandsOf
    <3>4. n \in Below(m) /\ n \in Below(j)
      BY <3>1
    <3>5. part[m][n] = G[n][OperandsOf(part[m], n)] /\ part[j][n] = G[n][OperandsOf(part[j], n)]
      <4> HIDE DEF Below
      <4> QED BY <1>5, <3>4
    <3> QED BY <3>3, <3>5
  <2>2. S \subseteq T
    <3> HIDE DEF T
    <3> QED BY <2>1, FormulaInduction
  <2> QED BY <2>2
<1>7. ASSUME NEW n \in S
      PROVE  whole[n] = G[n][OperandsOf(whole, n)] /\ whole[n] \in V
  <2> DEFINE m == Height[n] + 1
  <2>1. m \in Nat /\ Height[n] < m /\ n \in Below(m)
    BY <1>1
  <2> HIDE DEF part
  <2>2. \A i \in DOMAIN n.args : whole[n.args[i]] = part[m][n.args[i]]
    <3> SUFFICES ASSUME NEW i \in DOMAIN n.args
                 PROVE  whole[n.args[i]] = part[m][n.args[i]]
      OBVIOUS
    <3>1. n.args[i] \in S /\ Height[n.args[i]] \in Nat /\ Height[n.args[i]] < Height[n]
      BY <1>2
    <3>2. Height[n.args[i]] < m /\ Height[n.args[i]] + 1 \in Nat /\ Height[n.args[i]] < Height[n.args[i]] + 1
      BY <1>1, <2>1, <3>1
    <3> HIDE DEF m
    <3> QED BY <1>6, <2>1, <3>1, <3>2
  <2>3. OperandsOf(whole, n) = OperandsOf(part[m], n)
    <3> HIDE DEF m, whole
    <3> QED BY <2>2 DEF OperandsOf
  <2>4. part[m][n] = G[n][OperandsOf(part[m], n)] /\ part[m][n] \in V
    <3> HIDE DEF m, Below
    <3> QED BY <1>5, <2>1
  <2>5. whole[n] = part[m][n]
    OBVIOUS
  <2> HIDE DEF whole, m
  <2> QED BY <2>3, <2>4, <2>5
<1>8. whole \in [S -> V]
  <2>1. DOMAIN whole = S /\ whole = [n \in S |-> whole[n]]
    OBVIOUS
  <2> HIDE DEF whole
  <2> QED BY <1>7, <2>1
<1> HIDE DEF whole
<1> QED BY <1>7, <1>8

\* SubnodesOf is what its equation says.
LEMMA SubnodesAreDefined ==
  SubnodesOf = [n \in Formulas |-> {n} \cup UNION {SubnodesOf[n.args[i]] : i \in DOMAIN n.args}]
<1> DEFINE V == SUBSET Formulas
           F(n, v) == {n} \cup UNION {v[i] : i \in DOMAIN n.args}
           G == [n \in Formulas |-> [v \in [DOMAIN n.args -> V] |-> F(n, v)]]
<1>1. ASSUME NEW n \in Formulas, NEW v \in [DOMAIN n.args -> V]
      PROVE  G[n][v] = F(n, v) /\ F(n, v) \in V
  OBVIOUS
<1>2. PICK f : f \in [Formulas -> V] /\ \A n \in Formulas : f[n] = G[n][OperandsOf(f, n)]
  <2>1. Gives(G, Formulas, V)
    BY <1>1 DEF Gives
  <2> HIDE DEF G, F, V
  <2>2. PICK f : Solves(f, G, Formulas, V)
    BY <2>1, FormulasAreClosed, FormulaRecursion
  <2> QED BY <2>2 DEF Solves
<1>3. ASSUME NEW n \in Formulas
      PROVE  f[n] = {n} \cup UNION {f[n.args[i]] : i \in DOMAIN n.args}
  <2>1. OperandsOf(f, n) \in [DOMAIN n.args -> V]
    BY <1>2, FormulasAreClosed DEF OperandsOf, Closed
  <2>2. f[n] = F(n, OperandsOf(f, n))
    <3> HIDE DEF G, F, V
    <3> QED BY <1>1, <1>2, <2>1
  <2>3. \A i \in DOMAIN n.args : OperandsOf(f, n)[i] = f[n.args[i]]
    BY DEF OperandsOf
  <2> QED BY <2>2, <2>3
<1> HIDE DEF G, F, V
<1> DEFINE H == [n \in Formulas |-> {n} \cup UNION {f[n.args[i]] : i \in DOMAIN n.args}]
<1>4. f = H
  <2>1. f = [n \in Formulas |-> f[n]] /\ DOMAIN H = Formulas /\ H = [n \in Formulas |-> H[n]]
    BY <1>2
  <2>2. \A n \in Formulas : f[n] = H[n]
    BY <1>3
  <2> HIDE DEF H
  <2> QED BY <2>1, <2>2
<1> QED BY <1>4, Zenon DEF SubnodesOf

\* The subnodes of a node are itself and those of its operands.
LEMMA SubnodesOfNode ==
  ASSUME NEW n \in Formulas
  PROVE  SubnodesOf[n] = {n} \cup UNION {SubnodesOf[n.args[i]] : i \in DOMAIN n.args}
BY SubnodesAreDefined, Zenon

\* A node is a subnode of itself, and subnodes come with their operands.
LEMMA SubnodesAreClosed ==
  ASSUME NEW n \in Formulas
  PROVE  n \in Subnodes(n) /\ Closed(Subnodes(n))
<1> DEFINE T == {m \in Formulas : Closed(SubnodesOf[m])}
<1>1. ASSUME NEW m \in Formulas, \A i \in DOMAIN m.args : m.args[i] \in T
      PROVE  m \in T
  <2>1. SubnodesOf[m] = {m} \cup UNION {SubnodesOf[m.args[i]] : i \in DOMAIN m.args}
    BY SubnodesOfNode
  <2>2. \A i \in DOMAIN m.args : m.args[i] \in Formulas /\ Closed(SubnodesOf[m.args[i]])
    BY <1>1
  <2>3. SubnodesOf[m] \subseteq Formulas
    BY <2>1, <2>2 DEF Closed
  <2>4. ASSUME NEW o \in SubnodesOf[m], NEW j \in DOMAIN o.args
        PROVE  o.args[j] \in SubnodesOf[m]
    <3>1. CASE o = m
      <4>1. m.args[j] \in SubnodesOf[m.args[j]]
        BY <2>2, <2>4, <3>1, SubnodesOfNode
      <4> QED BY <2>1, <2>4, <3>1, <4>1
    <3>2. CASE o # m
      <4>1. PICK i \in DOMAIN m.args : o \in SubnodesOf[m.args[i]]
        BY <2>1, <3>2
      <4>2. o.args[j] \in SubnodesOf[m.args[i]]
        BY <2>2, <4>1 DEF Closed
      <4> QED BY <2>1, <4>2
    <3> QED BY <3>1, <3>2
  <2> QED BY <2>3, <2>4 DEF Closed
<1>2. Formulas \subseteq T
  <2> HIDE DEF T
  <2> QED BY <1>1, FormulasAreClosed, FormulaInduction
<1>3. n \in SubnodesOf[n]
  BY SubnodesOfNode
<1> QED BY <1>2, <1>3 DEF Subnodes

\* What looks at one state only is a reading of such.
LEMMA PureIsReading ==
  ASSUME NEW n \in Formulas, ~HasOperator(n)
  PROVE  n.op \in Reading /\ \A i \in DOMAIN n.args : ~HasOperator(n.args[i])
<1>1. SubnodesOf[n] = {n} \cup UNION {SubnodesOf[n.args[i]] : i \in DOMAIN n.args}
  BY SubnodesOfNode
<1> QED BY <1>1 DEF HasOperator, Subnodes

\* What is not temporal is a reading of such, and of no variable relation.
LEMMA RigidIsReading ==
  ASSUME NEW c, NEW n \in Formulas, ~IsTemporal(c, n)
  PROVE  /\ n.op \in Reading
         /\ n.op = "read" => n.rel \notin c.variable
         /\ \A i \in DOMAIN n.args : ~IsTemporal(c, n.args[i])
<1>1. SubnodesOf[n] = {n} \cup UNION {SubnodesOf[n.args[i]] : i \in DOMAIN n.args}
  BY SubnodesOfNode
<1> QED BY <1>1 DEF IsTemporal, HasOperator, Subnodes

----------------------------------------------------------------------------
(* How deep past operators nest.                                           *)

\* Max of finitely many numbers, and 0, is a number and none of them is greater.
LEMMA GreatestOf ==
  ASSUME NEW m \in Nat, NEW g, \A i \in 1..m : g[i] \in Nat
  PROVE  /\ Max({0} \cup {g[i] : i \in 1..m}) \in Nat
         /\ \A i \in 1..m : g[i] <= Max({0} \cup {g[j] : j \in 1..m})
<1> DEFINE Upto(j) == {0} \cup {g[i] : i \in 1..j}
           bad == {j \in 0..m : ~\E a \in Upto(j) : \A b \in Upto(j) : a >= b}
<1>1. \A j \in 0..m : Upto(j) \subseteq Nat
  OBVIOUS
<1>2. bad = {}
  <2>1. SUFFICES ASSUME bad # {} PROVE FALSE
    OBVIOUS
  <2>2. PICK j \in bad : \A i \in bad : j <= i
    <3>1. bad \in SUBSET Nat
      OBVIOUS
    <3> HIDE DEF bad
    <3> QED BY <2>1, <3>1, LeastNumber
  <2>3. CASE j = 0
    <3>1. Upto(0) = {0}
      OBVIOUS
    <3> QED BY <2>2, <2>3, <3>1
  <2>4. CASE j # 0
    <3>1. j - 1 \in 0..m /\ ~(j <= j - 1) /\ j \in 1..m
      BY <2>2, <2>4
    <3>2. j - 1 \notin bad
      <4> HIDE DEF bad
      <4> QED BY <3>1, <2>2
    <3>3. PICK a \in Upto(j - 1) : \A b \in Upto(j - 1) : a >= b
      BY <3>1, <3>2
    <3>4. Upto(j) = Upto(j - 1) \cup {g[j]}
      <4>1. \A i : i \in 1..j <=> i \in 1..j-1 \/ i = j
        BY <3>1
      <4> QED BY <4>1
    <3>5. a \in Nat /\ g[j] \in Nat /\ Upto(j - 1) \subseteq Nat
      BY <1>1, <3>1, <3>3
    <3> HIDE DEF Upto
    <3>6. CASE a >= g[j]
      <4>1. a \in Upto(j) /\ \A b \in Upto(j) : a >= b
        BY <3>3, <3>4, <3>6
      <4> QED BY <2>2, <4>1
    <3>7. CASE ~(a >= g[j])
      <4>1. g[j] \in Upto(j) /\ \A b \in Upto(j) : g[j] >= b
        BY <3>3, <3>4, <3>5, <3>7
      <4> QED BY <2>2, <4>1
    <3> QED BY <3>6, <3>7
  <2> QED BY <2>3, <2>4
<1>3. \E a \in Upto(m) : \A b \in Upto(m) : a >= b
  <2>1. m \in 0..m /\ m \notin bad
    BY <1>2
  <2> HIDE DEF Upto
  <2> QED BY <2>1
<1>4. Max(Upto(m)) \in Upto(m) /\ \A b \in Upto(m) : Max(Upto(m)) >= b
  <2> HIDE DEF Upto
  <2> QED BY <1>3, Zenon DEF Max
<1>5. Max(Upto(m)) \in Nat
  <2>1. Upto(m) \subseteq Nat
    BY <1>1
  <2> HIDE DEF Upto
  <2> QED BY <2>1, <1>4
<1>6. \A i \in 1..m : g[i] \in Upto(m)
  OBVIOUS
<1>7. \A i \in 1..m : g[i] <= Max(Upto(m))
  <2> HIDE DEF Upto
  <2> QED BY <1>4, <1>5, <1>6
<1> QED BY <1>5, <1>7

\* The depth of a node, from those of its operands.
DepthFrom(n, v) == Max({0} \cup {v[i] : i \in DOMAIN n.args}) + (IF n.op \in Past THEN 1 ELSE 0)

\* PastDepthOf is a number that operands do not exceed, and are below under a past operator.
LEMMA DepthIsDefined ==
  PastDepthOf \in [Formulas -> Nat]
  /\ \A n \in Formulas : /\ \A i \in DOMAIN n.args : PastDepthOf[n.args[i]] <= PastDepthOf[n]
                         /\ n.op \in Past =>
                              \A i \in DOMAIN n.args : PastDepthOf[n.args[i]] + 1 <= PastDepthOf[n]
<1> DEFINE G == [n \in Formulas |-> [v \in [DOMAIN n.args -> Nat] |-> DepthFrom(n, v)]]
<1>0. ASSUME NEW n \in Formulas, NEW v, \A i \in DOMAIN n.args : v[i] \in Nat
      PROVE  /\ DepthFrom(n, v) \in Nat
             /\ \A i \in DOMAIN n.args : v[i] <= DepthFrom(n, v)
             /\ n.op \in Past => \A i \in DOMAIN n.args : v[i] + 1 <= DepthFrom(n, v)
  <2>1. Len(n.args) \in Nat /\ DOMAIN n.args = 1..Len(n.args)
    BY FormulasAssumption DEF IsNode
  <2>2. PICK m \in Nat : m = Len(n.args)
    BY <2>1
  <2>3. /\ Max({0} \cup {v[i] : i \in 1..m}) \in Nat
        /\ \A i \in 1..m : v[i] <= Max({0} \cup {v[j] : j \in 1..m})
    BY <1>0, <2>1, <2>2, GreatestOf
  <2>4. PICK top : top = Max({0} \cup {v[i] : i \in 1..m})
    OBVIOUS
  <2>5. DepthFrom(n, v) = top + (IF n.op \in Past THEN 1 ELSE 0)
    BY <2>1, <2>2, <2>4 DEF DepthFrom
  <2>6. top \in Nat /\ \A i \in DOMAIN n.args : v[i] <= top /\ v[i] \in Nat
    BY <1>0, <2>1, <2>2, <2>3, <2>4
  <2> QED BY <2>5, <2>6
<1>1. ASSUME NEW n \in Formulas, NEW v \in [DOMAIN n.args -> Nat]
      PROVE  G[n][v] = DepthFrom(n, v) /\ DepthFrom(n, v) \in Nat
  <2>1. DepthFrom(n, v) \in Nat
    BY <1>0
  <2> QED BY <2>1
<1>2. PICK f : f \in [Formulas -> Nat] /\ \A n \in Formulas : f[n] = G[n][OperandsOf(f, n)]
  <2>1. Gives(G, Formulas, Nat)
    BY <1>1 DEF Gives
  <2> HIDE DEF G
  <2>2. PICK f : Solves(f, G, Formulas, Nat)
    BY <2>1, FormulasAreClosed, FormulaRecursion
  <2> QED BY <2>2 DEF Solves
<1>3. ASSUME NEW n \in Formulas
      PROVE  f[n] = Max({0} \cup {f[n.args[i]] : i \in DOMAIN n.args}) + (IF n.op \in Past THEN 1 ELSE 0)
  <2>1. OperandsOf(f, n) \in [DOMAIN n.args -> Nat]
    BY <1>2, FormulasAreClosed DEF OperandsOf, Closed
  <2>2. f[n] = DepthFrom(n, OperandsOf(f, n))
    <3> HIDE DEF G
    <3> QED BY <1>1, <1>2, <2>1
  <2>3. {OperandsOf(f, n)[i] : i \in DOMAIN n.args} = {f[n.args[i]] : i \in DOMAIN n.args}
    BY DEF OperandsOf
  <2> QED BY <2>2, <2>3 DEF DepthFrom
<1> HIDE DEF G
<1> DEFINE H == [n \in Formulas |-> Max({0} \cup {f[n.args[i]] : i \in DOMAIN n.args}) + (IF n.op \in Past THEN 1 ELSE 0)]
<1>4. f = H
  <2>1. f = [n \in Formulas |-> f[n]] /\ DOMAIN H = Formulas /\ H = [n \in Formulas |-> H[n]]
    BY <1>2
  <2>2. \A n \in Formulas : f[n] = H[n]
    BY <1>3
  <2> HIDE DEF H
  <2> QED BY <2>1, <2>2
<1>5. PastDepthOf = [n \in Formulas |-> Max({0} \cup {PastDepthOf[n.args[i]] : i \in DOMAIN n.args})
                                          + (IF n.op \in Past THEN 1 ELSE 0)]
  BY <1>4, Zenon DEF PastDepthOf
<1>6. ASSUME NEW n \in Formulas
      PROVE  PastDepthOf[n] = DepthFrom(n, OperandsOf(PastDepthOf, n))
  <2>1. PastDepthOf[n] = Max({0} \cup {PastDepthOf[n.args[i]] : i \in DOMAIN n.args})
                          + (IF n.op \in Past THEN 1 ELSE 0)
    BY <1>5, Zenon
  <2>3. {OperandsOf(PastDepthOf, n)[i] : i \in DOMAIN n.args} = {PastDepthOf[n.args[i]] : i \in DOMAIN n.args}
    BY DEF OperandsOf
  <2> QED BY <2>1, <2>3 DEF DepthFrom
<1> DEFINE T == {n \in Formulas : PastDepthOf[n] \in Nat}
<1>7. ASSUME NEW n \in Formulas, \A i \in DOMAIN n.args : n.args[i] \in T
      PROVE  n \in T
  <2>1. \A i \in DOMAIN n.args : OperandsOf(PastDepthOf, n)[i] \in Nat
    BY <1>7 DEF OperandsOf
  <2> QED BY <2>1, <1>0, <1>6
<1>8. Formulas \subseteq T
  <2> HIDE DEF T
  <2> QED BY <1>7, FormulasAreClosed, FormulaInduction
<1>9. PastDepthOf \in [Formulas -> Nat]
  <2>1. \A n \in Formulas : PastDepthOf[n] \in Nat
    BY <1>8
  <2>2. PastDepthOf = [n \in Formulas |-> PastDepthOf[n]]
    BY <1>5
  <2> QED BY <2>1, <2>2
<1>10. ASSUME NEW n \in Formulas
       PROVE  /\ \A i \in DOMAIN n.args : PastDepthOf[n.args[i]] <= PastDepthOf[n]
              /\ n.op \in Past => \A i \in DOMAIN n.args : PastDepthOf[n.args[i]] + 1 <= PastDepthOf[n]
  <2>1. \A i \in DOMAIN n.args : OperandsOf(PastDepthOf, n)[i] = PastDepthOf[n.args[i]]
                                 /\ PastDepthOf[n.args[i]] \in Nat
    BY <1>9, FormulasAreClosed DEF OperandsOf, Closed
  <2> QED BY <2>1, <1>0, <1>6
<1> QED BY <1>9, <1>10

----------------------------------------------------------------------------
(* Sets of instants that repeat from some instant on.                      *)

Repeats(p, m, S) == \A t \in Nat : t >= m => (t + p \in S <=> t \in S)

From(t) == {u \in Nat : u >= t}
Not(S) == Nat \ S

Until(left, right, t, later) == \E u \in later : u \in right /\ \A z \in t..u-1 : z \in left
Since(left, right, t) == \E u \in 0..t : u \in right /\ \A z \in u+1..t : z \in left

\* What repeats from an instant on repeats from each later one on, and so does its opposite.
LEMMA RepeatsLater ==
  ASSUME NEW p \in Nat, NEW m \in Nat, NEW j \in Nat, m <= j, NEW S, Repeats(p, m, S)
  PROVE  Repeats(p, j, S) /\ Repeats(p, j, Not(S)) /\ Repeats(p, j, Nat)
BY DEF Repeats, Not

\* A witness is found before all has been seen.
LEMMA WitnessIsNear ==
  ASSUME NEW p \in Nat \ {0}, NEW m \in Nat, NEW left, NEW right, Repeats(p, m, right),
         NEW t \in Nat, Until(left, right, t, From(t))
  PROVE  \E u \in From(t) : /\ u \in right /\ \A z \in t..u-1 : z \in left
                            /\ u < m + p \/ u < t + p
<1> DEFINE T == {u \in From(t) : u \in right /\ \A z \in t..u-1 : z \in left}
<1>1. T \in SUBSET Nat /\ T # {}
  BY DEF Until, From
<1>2. PICK u \in T : \A y \in T : u <= y
  <2> HIDE DEF T
  <2> QED BY <1>1, LeastNumber
<1>3. SUFFICES ASSUME u >= m + p, u >= t + p
               PROVE  FALSE
  <2>1. u \in Nat
    BY <1>1
  <2> QED BY <1>2, <2>1
<1>4. u - p \in Nat /\ u - p >= m /\ u - p >= t /\ (u - p) + p = u /\ ~(u <= u - p)
  BY <1>1, <1>3
<1>5. u - p \in right
  BY <1>2, <1>4 DEF Repeats
<1>6. \A z \in t..(u - p)-1 : z \in t..u-1
  BY <1>1, <1>4
<1>7. u - p \in T
  BY <1>2, <1>4, <1>5, <1>6 DEF From
<1> QED BY <1>2, <1>4, <1>7

\* Until is decided by a window to the end of the first pass that repeats.
LEMMA WindowSuffices ==
  ASSUME NEW p \in Nat \ {0}, NEW m \in Nat, NEW left, NEW right, Repeats(p, m, right),
         NEW t \in Nat, NEW w \in Nat, w >= m + p - 1
  PROVE  Until(left, right, t, t..t+w) <=> Until(left, right, t, From(t))
<1>1. ASSUME Until(left, right, t, From(t))
      PROVE  Until(left, right, t, t..t+w)
  <2>1. PICK u \in From(t) : /\ u \in right /\ \A z \in t..u-1 : z \in left
                             /\ u < m + p \/ u < t + p
    BY <1>1, WitnessIsNear
  <2>2. u \in t..t+w
    BY <2>1 DEF From
  <2> QED BY <2>1, <2>2 DEF Until
<1>2. \A u \in t..t+w : u \in From(t)
  BY DEF From
<1> QED BY <1>1, <1>2 DEF Until

\* Until repeats where its operands do.
LEMMA UntilRepeats ==
  ASSUME NEW p \in Nat \ {0}, NEW m \in Nat, NEW left, NEW right,
         Repeats(p, m, left), Repeats(p, m, right), NEW t \in Nat, t >= m
  PROVE  Until(left, right, t + p, From(t + p)) <=> Until(left, right, t, From(t))
<1>1. ASSUME NEW u \in From(t + p), u \in right, \A z \in t+p..u-1 : z \in left
      PROVE  Until(left, right, t, From(t))
  <2>1. u - p \in From(t) /\ u - p >= m /\ (u - p) + p = u /\ u - p \in Nat
    BY <1>1 DEF From
  <2>2. u - p \in right
    BY <1>1, <2>1 DEF Repeats
  <2>3. ASSUME NEW z \in t..(u - p)-1
        PROVE  z \in left
    <3>1. z + p \in t+p..u-1 /\ z \in Nat /\ z >= m
      BY <1>1, <2>1
    <3> QED BY <1>1, <3>1 DEF Repeats
  <2> QED BY <2>1, <2>2, <2>3 DEF Until
<1>2. ASSUME NEW u \in From(t), u \in right, \A z \in t..u-1 : z \in left
      PROVE  Until(left, right, t + p, From(t + p))
  <2>1. u + p \in From(t + p) /\ u >= m /\ u \in Nat
    BY <1>2 DEF From
  <2>2. u + p \in right
    BY <1>2, <2>1 DEF Repeats
  <2>3. ASSUME NEW z \in t+p..(u + p)-1
        PROVE  z \in left
    <3>1. z - p \in t..u-1 /\ z - p \in Nat /\ z - p >= m /\ (z - p) + p = z
      BY <1>2, <2>1
    <3> QED BY <1>2, <3>1 DEF Repeats
  <2> QED BY <2>1, <2>2, <2>3 DEF Until
<1> QED BY <1>1, <1>2 DEF Until

\* One pass later, a past operator sees what it saw a pass before.
LEMMA SinceRepeats ==
  ASSUME NEW p \in Nat \ {0}, NEW m \in Nat, NEW left, NEW right,
         Repeats(p, m, left), Repeats(p, m, right), NEW t \in Nat, t >= m + p
  PROVE  Since(left, right, t + p) <=> Since(left, right, t)
<1>1. ASSUME NEW u \in 0..t+p, u \in right, \A z \in u+1..t+p : z \in left
      PROVE  Since(left, right, t)
  <2>1. CASE u >= m + p
    <3>1. u - p \in 0..t /\ u - p >= m /\ (u - p) + p = u /\ u - p \in Nat
      BY <2>1
    <3>2. u - p \in right
      BY <1>1, <3>1 DEF Repeats
    <3>3. ASSUME NEW z \in (u - p)+1..t
          PROVE  z \in left
      <4>1. z + p \in u+1..t+p /\ z \in Nat /\ z >= m
        BY <3>1
      <4> QED BY <1>1, <4>1 DEF Repeats
    <3> QED BY <3>1, <3>2, <3>3 DEF Since
  <2>2. CASE ~(u >= m + p)
    <3>1. u \in 0..t /\ \A z \in u+1..t : z \in u+1..t+p
      BY <2>2
    <3> QED BY <1>1, <3>1 DEF Since
  <2> QED BY <2>1, <2>2
<1>2. ASSUME NEW u \in 0..t, u \in right, \A z \in u+1..t : z \in left
      PROVE  Since(left, right, t + p)
  <2>1. CASE u >= m
    <3>1. u + p \in 0..t+p /\ u + p \in right
      BY <1>2, <2>1 DEF Repeats
    <3>2. ASSUME NEW z \in (u + p)+1..t+p
          PROVE  z \in left
      <4>1. z - p \in u+1..t /\ z - p \in Nat /\ z - p >= m /\ (z - p) + p = z
        BY <2>1
      <4> QED BY <1>2, <4>1 DEF Repeats
    <3> QED BY <3>1, <3>2 DEF Since
  <2>2. CASE ~(u >= m)
    <3>1. ASSUME NEW z \in u+1..t+p
          PROVE  z \in left
      <4>1. CASE z <= t
        BY <1>2, <4>1
      <4>2. CASE ~(z <= t)
        <5>1. z - p \in u+1..t /\ z - p \in Nat /\ z - p >= m /\ (z - p) + p = z
          BY <2>2, <4>2
        <5> QED BY <1>2, <5>1 DEF Repeats
      <4> QED BY <4>1, <4>2
    <3>2. u \in 0..t+p
      OBVIOUS
    <3> QED BY <1>2, <3>1, <3>2 DEF Since
  <2> QED BY <2>1, <2>2
<1> QED BY <1>1, <1>2 DEF Since

----------------------------------------------------------------------------
(* The paths of a timeline of size instants that loops back by p.          *)

Ends(line, size, p) == /\ DOMAIN line.states = 0..size-1
                       /\ line.loopAt = size - p

\* End is the size.
LEMMA EndIsSize ==
  ASSUME NEW line, NEW size \in Nat, NEW p, Ends(line, size, p)
  PROVE  End(line) = size
<1>1. 0 \in Int /\ size - 1 \in Int
  OBVIOUS
<1>2. Cardinality(0..size-1) = IF 0 > size - 1 THEN 0 ELSE (size - 1) - 0 + 1
  BY <1>1, FS_Interval
<1> QED BY <1>2 DEF Ends, End

\* The path shows at its i-th place what holds i - 1 instants later.
Shows(path, size, p, t) ==
  /\ DOMAIN path = 1..(size - t) + p
  /\ \A i \in 1..(size - t) + p : path[i] \in 0..size-1
  /\ \A S : Repeats(p, size - p, S) => \A i \in 1..(size - t) + p : (path[i] \in S <=> t + i - 1 \in S)

\* FuturePath shows the instants from a time on, to the end and then the loop once more.
LEMMA PathShowsFuture ==
  ASSUME NEW line, NEW size \in Nat, NEW p \in 1..size, Ends(line, size, p), NEW t \in 0..size-1
  PROVE  Shows(FuturePath(line, t), size, p, t)
<1>1. End(line) = size /\ line.loopAt = size - p
  BY EndIsSize DEF Ends
<1>2. FuturePath(line, t) = [i \in 1..(size - t) + (size - (size - p)) |->
                               IF i <= size - t THEN t + i - 1 ELSE (size - p) + (i - 1 - (size - t))]
  BY <1>1 DEF FuturePath
<1>3. (size - t) + (size - (size - p)) = (size - t) + p
  OBVIOUS
<1>4. FuturePath(line, t) = [i \in 1..(size - t) + p |->
                               IF i <= size - t THEN t + i - 1 ELSE (size - p) + (i - 1 - (size - t))]
  BY <1>2, <1>3
<1>5. ASSUME NEW i \in 1..(size - t) + p
      PROVE  /\ FuturePath(line, t)[i] \in 0..size-1
             /\ \A S : Repeats(p, size - p, S) =>
                          (FuturePath(line, t)[i] \in S <=> t + i - 1 \in S)
  <2>1. CASE i <= size - t
    <3>1. FuturePath(line, t)[i] = t + i - 1
      BY <1>4, <2>1
    <3> QED BY <2>1, <3>1
  <2>2. CASE ~(i <= size - t)
    <3>1. FuturePath(line, t)[i] = (size - p) + (i - 1 - (size - t))
      BY <1>4, <2>2
    <3> DEFINE u == (t + i - 1) - p
    <3>2. (size - p) + (i - 1 - (size - t)) = u /\ u \in Nat /\ u >= size - p /\ u + p = t + i - 1 /\ u \in 0..size-1
      BY <2>2
    <3> QED BY <3>1, <3>2 DEF Repeats
  <2> QED BY <2>1, <2>2
<1>6. DOMAIN FuturePath(line, t) = 1..(size - t) + p
  BY <1>4
<1>7. \A S : Repeats(p, size - p, S) =>
              \A i \in 1..(size - t) + p : (FuturePath(line, t)[i] \in S <=> t + i - 1 \in S)
  BY <1>5
<1> QED BY <1>5, <1>6, <1>7 DEF Shows

\* A witness on the path is one in the future.
LEMMA PathIsUntil ==
  ASSUME NEW line, NEW size \in Nat, NEW p \in 1..size, Ends(line, size, p), NEW t \in 0..size-1,
         NEW left, NEW right, Repeats(p, size - p, left), Repeats(p, size - p, right)
  PROVE  LET path == FuturePath(line, t)
         IN  (\E i \in DOMAIN path : path[i] \in right /\ \A j \in 1..i-1 : path[j] \in left)
             <=> Until(left, right, t, From(t))
<1> DEFINE path == FuturePath(line, t)
<1>1. /\ DOMAIN path = 1..(size - t) + p
      /\ \A i \in 1..(size - t) + p : /\ path[i] \in right <=> t + i - 1 \in right
                                      /\ path[i] \in left <=> t + i - 1 \in left
  <2>1. Shows(path, size, p, t)
    BY PathShowsFuture
  <2> HIDE DEF path
  <2> QED BY <2>1 DEF Shows
<1> HIDE DEF path
<1>2. ASSUME NEW i \in 1..(size - t) + p, path[i] \in right, \A j \in 1..i-1 : path[j] \in left
      PROVE  Until(left, right, t, From(t))
  <2>1. t + i - 1 \in From(t) /\ t + i - 1 \in right
    BY <1>1, <1>2 DEF From
  <2>2. ASSUME NEW z \in t..(t + i - 1)-1
        PROVE  z \in left
    <3>1. PICK j \in 1..i-1 : j = z - t + 1
      OBVIOUS
    <3>2. j \in 1..(size - t) + p /\ t + j - 1 = z
      BY <3>1
    <3> QED BY <1>1, <1>2, <3>2
  <2> QED BY <2>1, <2>2 DEF Until
<1>3. ASSUME Until(left, right, t, From(t))
      PROVE  \E i \in 1..(size - t) + p : path[i] \in right /\ \A j \in 1..i-1 : path[j] \in left
  <2>1. p \in Nat \ {0} /\ size - p \in Nat /\ t \in Nat
    OBVIOUS
  <2>2. PICK u \in From(t) : /\ u \in right /\ \A z \in t..u-1 : z \in left
                             /\ u < (size - p) + p \/ u < t + p
    BY <1>3, <2>1, WitnessIsNear
  <2>3. PICK i \in 1..(size - t) + p : u = t + i - 1
    <3>1. u \in Nat /\ u >= t /\ u - t + 1 \in 1..(size - t) + p /\ u = t + (u - t + 1) - 1
      BY <2>2 DEF From
    <3> QED BY <3>1
  <2>4. ASSUME NEW j \in 1..i-1
        PROVE  path[j] \in left
    <3>1. j \in 1..(size - t) + p /\ t + j - 1 \in t..u-1
      BY <2>3
    <3> QED BY <1>1, <2>2, <3>1
  <2> QED BY <1>1, <2>2, <2>3, <2>4
<1> QED BY <1>1, <1>2, <1>3 DEF path

\* A witness on PastPath is a Since.
LEMMA PathIsSince ==
  ASSUME NEW t \in Nat, NEW left, NEW right
  PROVE  LET path == PastPath(t)
         IN  (\E i \in DOMAIN path : path[i] \in right /\ \A j \in 1..i-1 : path[j] \in left)
             <=> Since(left, right, t)
<1> DEFINE path == PastPath(t)
<1>1. DOMAIN path = 1..t+1 /\ \A i \in 1..t+1 : path[i] = t + 1 - i
  BY DEF PastPath
<1> HIDE DEF path
<1>2. ASSUME NEW i \in 1..t+1, path[i] \in right, \A j \in 1..i-1 : path[j] \in left
      PROVE  Since(left, right, t)
  <2>1. t + 1 - i \in 0..t /\ t + 1 - i \in right
    BY <1>1, <1>2
  <2>2. ASSUME NEW z \in (t + 1 - i)+1..t
        PROVE  z \in left
    <3>1. PICK j \in 1..i-1 : j = t + 1 - z
      BY <2>1
    <3>2. j \in 1..t+1 /\ t + 1 - j = z
      BY <3>1
    <3> QED BY <1>1, <1>2, <3>2
  <2> QED BY <2>1, <2>2 DEF Since
<1>3. ASSUME NEW u \in 0..t, u \in right, \A z \in u+1..t : z \in left
      PROVE  \E i \in 1..t+1 : path[i] \in right /\ \A j \in 1..i-1 : path[j] \in left
  <2>1. t + 1 - u \in 1..t+1 /\ t + 1 - (t + 1 - u) = u
    OBVIOUS
  <2>2. ASSUME NEW j \in 1..(t + 1 - u)-1
        PROVE  path[j] \in left
    <3>1. j \in 1..t+1 /\ t + 1 - j \in u+1..t
      BY <2>1
    <3> QED BY <1>1, <1>3, <3>1
  <2> QED BY <1>1, <1>3, <2>1, <2>2
<1> QED BY <1>1, <1>2, <1>3 DEF path, Since

----------------------------------------------------------------------------
(* The truth of a node over the infinite trace, of that of its operands.   *)

\* A tuple of sets of instants, one for each operand.
SetsFor(n, v) == v \in [DOMAIN n.args -> SUBSET Nat]

\* The operators that look ahead or back, by a witness or as the dual of one.
LEMMA TrueAsWitness ==
  ASSUME NEW x, NEW n \in Formulas, NEW v, SetsFor(n, v), NEW t \in Nat, NEW later \in SUBSET Nat
  PROVE  /\ n.op = "always" => (TrueAt(x, n, v, t, later) <=> ~Until(Nat, Not(v[1]), t, later))
         /\ n.op = "eventually" => (TrueAt(x, n, v, t, later) <=> Until(Nat, v[1], t, later))
         /\ n.op = "until" => (TrueAt(x, n, v, t, later) <=> Until(v[1], v[2], t, later))
         /\ n.op = "releases" => (TrueAt(x, n, v, t, later) <=> ~Until(Not(v[1]), Not(v[2]), t, later))
         /\ n.op = "historically" => (TrueAt(x, n, v, t, later) <=> ~Since(Nat, Not(v[1]), t))
         /\ n.op = "once" => (TrueAt(x, n, v, t, later) <=> Since(Nat, v[1], t))
         /\ n.op = "since" => (TrueAt(x, n, v, t, later) <=> Since(v[1], v[2], t))
         /\ n.op = "triggered" => (TrueAt(x, n, v, t, later) <=> ~Since(Not(v[1]), Not(v[2]), t))
<1>1. \A u \in later : u \in Nat /\ \A z \in t..u-1 : z \in Nat
  OBVIOUS
<1>2. \A u \in 0..t : u \in Nat /\ \A z \in u+1..t : z \in Nat
  OBVIOUS
<1>3. CASE n.op = "always"
  BY <1>1, <1>3 DEF TrueAt, Until, Not
<1>4. CASE n.op = "eventually"
  BY <1>1, <1>4 DEF TrueAt, Until, Not
<1>5. CASE n.op = "until"
  BY <1>5 DEF TrueAt, Until
<1>6. CASE n.op = "releases"
  BY <1>1, <1>6 DEF TrueAt, Until, Not
<1>7. CASE n.op = "historically"
  BY <1>2, <1>7 DEF TrueAt, Since, Not
<1>8. CASE n.op = "once"
  BY <1>2, <1>8 DEF TrueAt, Since, Not
<1>9. CASE n.op = "since"
  BY <1>9 DEF TrueAt, Since
<1>10. CASE n.op = "triggered"
  BY <1>2, <1>10 DEF TrueAt, Since, Not
<1> QED BY <1>3, <1>4, <1>5, <1>6, <1>7, <1>8, <1>9, <1>10

\* How many operands there are.
LEMMA OperandsOfNode ==
  ASSUME NEW n \in Formulas
  PROVE  /\ n.op \in Unary => DOMAIN n.args = {1}
         /\ n.op \in Binary => DOMAIN n.args = {1, 2}
         /\ n.op \in Reading \cup Future \cup Past
<1>1. /\ n.op \in Reading \cup Future \cup Past
      /\ n.args \in Seq(Formulas)
      /\ n.op \in Unary => Len(n.args) = 1
      /\ n.op \in Binary => Len(n.args) = 2
  BY FormulasAssumption DEF IsNode
<1>2. DOMAIN n.args = 1..Len(n.args)
  BY <1>1
<1>3. 1..1 = {1} /\ 1..2 = {1, 2}
  OBVIOUS
<1> QED BY <1>1, <1>2, <1>3

----------------------------------------------------------------------------
(* A lasso's contents repeat from its loop target on.                      *)

IsLasso(x) == x.k \in Nat \ {0} /\ x.loop \in 0..x.k-1

Pass(x) == x.k - x.loop

\* Division with remainder.
LEMMA DivisionOf ==
  ASSUME NEW a \in Nat, NEW p \in Nat \ {0}
  PROVE  a \div p \in Nat /\ a % p \in 0..p-1 /\ a = (a \div p) * p + (a % p)
BY SMT

\* A lasso holds the same a pass later.
LEMMA ContentsRepeat ==
  ASSUME NEW x, IsLasso(x), NEW t \in Nat, t >= x.loop
  PROVE  At(x, t + Pass(x)) = At(x, t)
<1>1. PICK p \in Nat \ {0} : p = x.k - x.loop
  BY DEF IsLasso
<1>2. PICK a \in Nat : a = t - x.loop
  BY DEF IsLasso
<1>3. PICK q \in Nat, r \in 0..p-1 : a = q * p + r
  BY DivisionOf
<1>4. (q * p + r) % p = r /\ ((q + 1) * p + r) % p = r
  <2>1. q \in Int /\ q + 1 \in Int
    OBVIOUS
  <2> QED BY <2>1, RemainderUnique, Zenon
<1>5. (q + 1) * p + r = a + p
  BY <1>3, SMT
<1>6. a % p = r /\ (a + p) % p = r
  BY <1>3, <1>4, <1>5
<1>7. Position(x, t + p) = x.loop + r
  <2>1. ~(t + p < x.k) /\ (t + p) - x.loop = a + p
    BY <1>1, <1>2 DEF IsLasso
  <2> QED BY <1>1, <1>6, <2>1 DEF Position
<1>8. Position(x, t) = x.loop + r
  <2>1. CASE t < x.k
    <3>1. a \in 0..p-1 /\ a = 0 * p + a /\ 0 \in Int
      BY <1>1, <1>2, <2>1 DEF IsLasso
    <3>2. a % p = a
      <4>1. (0 * p + a) % p = a
        BY <3>1, RemainderUnique, Zenon
      <4> QED BY <3>1, <4>1
    <3> QED BY <1>2, <1>6, <2>1, <3>2 DEF Position, IsLasso
  <2>2. CASE ~(t < x.k)
    BY <1>1, <1>2, <1>6, <2>2 DEF Position
  <2> QED BY <2>1, <2>2
<1> QED BY <1>1, <1>7, <1>8 DEF At, Pass

\* From where on a node repeats, of its past depth.
Settled(x, depth) == x.loop + depth * Pass(x)

\* A node settles the later the deeper its past operators nest, by a pass for each.
LEMMA SettledLater ==
  ASSUME NEW x, IsLasso(x), NEW d \in Nat, NEW e \in Nat, d <= e
  PROVE  /\ Settled(x, d) \in Nat /\ Settled(x, e) \in Nat
         /\ Settled(x, d) <= Settled(x, e)
         /\ Settled(x, d + 1) = Settled(x, d) + Pass(x)
         /\ x.loop <= Settled(x, d)
         /\ Pass(x) \in Nat \ {0}
<1>1. PICK p \in Nat \ {0} : p = x.k - x.loop
  BY DEF IsLasso
<1>2. d * p \in Nat /\ e * p \in Nat /\ d * p <= e * p /\ (d + 1) * p = d * p + p
  BY ProductMonotone, SMT
<1>3. x.loop \in Nat
  BY DEF IsLasso
<1> QED BY <1>1, <1>2, <1>3 DEF Settled, Pass

Means(x) ==
  LET means[n \in Formulas] ==
        {t \in Nat : TrueAt(x, n, [i \in DOMAIN n.args |-> means[n.args[i]]], t, From(t))}
  IN  means

\* One node: where the operands repeat, so does it.
LEMMA NodeRepeats ==
  ASSUME NEW x, IsLasso(x), NEW n \in Formulas, NEW v, SetsFor(n, v),
         \A i \in DOMAIN n.args : Repeats(Pass(x), Settled(x, PastDepthOf[n.args[i]]), v[i])
  PROVE  Repeats(Pass(x), Settled(x, PastDepthOf[n]), {t \in Nat : TrueAt(x, n, v, t, From(t))})
<1> DEFINE p == Pass(x)
           m == Settled(x, PastDepthOf[n])
<1>1. p \in Nat \ {0} /\ m \in Nat /\ x.loop <= m
  BY SettledLater, DepthIsDefined
<1>2. \A i \in DOMAIN n.args : PastDepthOf[n.args[i]] \in Nat /\ PastDepthOf[n] \in Nat
                               /\ PastDepthOf[n.args[i]] <= PastDepthOf[n]
                               /\ (n.op \in Past => PastDepthOf[n.args[i]] + 1 <= PastDepthOf[n])
  BY DepthIsDefined, FormulasAreClosed DEF Closed
<1>3. \A i \in DOMAIN n.args : Repeats(p, m, v[i]) /\ Repeats(p, m, Not(v[i]))
  <2> SUFFICES ASSUME NEW i \in DOMAIN n.args
               PROVE  Repeats(p, m, v[i]) /\ Repeats(p, m, Not(v[i]))
    OBVIOUS
  <2>1. Settled(x, PastDepthOf[n.args[i]]) \in Nat /\ Settled(x, PastDepthOf[n.args[i]]) <= m
    BY <1>2, SettledLater
  <2> HIDE DEF p, m
  <2> QED BY <1>1, <2>1, RepeatsLater DEF p
<1>4. SUFFICES ASSUME NEW t \in Nat, t >= m
               PROVE  TrueAt(x, n, v, t + p, From(t + p)) <=> TrueAt(x, n, v, t, From(t))
  BY <1>1 DEF Repeats
<1>5. t + p \in Nat /\ From(t) \in SUBSET Nat /\ From(t + p) \in SUBSET Nat
  BY <1>1 DEF From
<1>6. Repeats(p, m, Nat)
  BY <1>1 DEF Repeats
<1>7. ASSUME n.op \in Past
      PROVE  \E j \in Nat : /\ m = j + p
                            /\ \A i \in DOMAIN n.args : Repeats(p, j, v[i]) /\ Repeats(p, j, Not(v[i]))
                            /\ Repeats(p, j, Nat)
  <2>1. 1 \in DOMAIN n.args
    BY <1>7, OperandsOfNode DEF Past, Unary, Binary
  <2>2. PICK d \in Nat : PastDepthOf[n] = d + 1
    <3>1. PastDepthOf[n] \in Nat /\ PastDepthOf[n] - 1 \in Nat /\ PastDepthOf[n] = (PastDepthOf[n] - 1) + 1
      BY <1>2, <1>7, <2>1
    <3> QED BY <3>1
  <2> DEFINE j == Settled(x, d)
  <2>3. j \in Nat /\ m = j + p
    BY <2>2, SettledLater
  <2>4. ASSUME NEW i \in DOMAIN n.args
        PROVE  Repeats(p, j, v[i]) /\ Repeats(p, j, Not(v[i]))
    <3>1. PastDepthOf[n.args[i]] \in Nat /\ PastDepthOf[n.args[i]] <= d
      BY <1>2, <1>7, <2>2
    <3>2. Settled(x, PastDepthOf[n.args[i]]) \in Nat /\ Settled(x, PastDepthOf[n.args[i]]) <= j
      BY <3>1, SettledLater
    <3> HIDE DEF p, j
    <3> QED BY <1>1, <2>3, <3>2, RepeatsLater DEF p
  <2>5. Repeats(p, j, Nat)
    BY <1>1 DEF Repeats
  <2> QED BY <2>3, <2>4, <2>5
<1>8. /\ n.op \in Unary => 1 \in DOMAIN n.args
      /\ n.op \in Binary => 1 \in DOMAIN n.args /\ 2 \in DOMAIN n.args
      /\ n.op \in Reading \cup Future \cup Past
  BY OperandsOfNode
<1> HIDE DEF p, m
<1>9. \A left, right : Repeats(p, m, left) /\ Repeats(p, m, right)
                        => (Until(left, right, t + p, From(t + p)) <=> Until(left, right, t, From(t)))
  BY <1>1, <1>4, UntilRepeats
<1>10. \A left, right : \A j \in Nat : Repeats(p, j, left) /\ Repeats(p, j, right) /\ m = j + p
                        => (Since(left, right, t + p) <=> Since(left, right, t))
  BY <1>1, <1>4, SinceRepeats
<1>11. CASE n.op \in {"always", "eventually"}
  <2>1. Repeats(p, m, v[1]) /\ Repeats(p, m, Not(v[1]))
    BY <1>3, <1>8, <1>11 DEF Unary, Binary, Future
  <2> QED BY <1>5, <1>6, <1>9, <1>11, <2>1, TrueAsWitness
<1>12. CASE n.op \in {"until", "releases"}
  <2>1. Repeats(p, m, v[1]) /\ Repeats(p, m, Not(v[1])) /\ Repeats(p, m, v[2]) /\ Repeats(p, m, Not(v[2]))
    BY <1>3, <1>8, <1>12 DEF Binary
  <2> QED BY <1>5, <1>9, <1>12, <2>1, TrueAsWitness
<1>13. CASE n.op \in {"historically", "once", "since", "triggered"}
  <2>1. PICK j \in Nat : /\ m = j + p
                          /\ \A i \in DOMAIN n.args : Repeats(p, j, v[i]) /\ Repeats(p, j, Not(v[i]))
                          /\ Repeats(p, j, Nat)
    BY <1>7, <1>13 DEF Past
  <2>2. 1 \in DOMAIN n.args /\ (n.op \in {"since", "triggered"} => 2 \in DOMAIN n.args)
    BY <1>8, <1>13 DEF Unary, Binary, Past
  <2> QED BY <1>5, <1>10, <1>13, <2>1, <2>2, TrueAsWitness
<1>14. CASE n.op = "before"
  <2>1. PICK j \in Nat : /\ m = j + p
                          /\ \A i \in DOMAIN n.args : Repeats(p, j, v[i])
    BY <1>7, <1>14 DEF Past
  <2>2. 1 \in DOMAIN n.args
    BY <1>8, <1>14 DEF Unary, Binary, Past
  <2>3. t - 1 \in Nat /\ t - 1 >= j /\ (t - 1) + p = (t + p) - 1 /\ t > 0 /\ t + p > 0
    BY <1>1, <1>4, <2>1
  <2>4. (t - 1) + p \in v[1] <=> t - 1 \in v[1]
    BY <2>1, <2>2, <2>3 DEF Repeats
  <2> QED BY <1>14, <2>3, <2>4 DEF TrueAt
<1>15. CASE n.op \in {"prime", "after"}
  <2>1. Repeats(p, m, v[1])
    BY <1>3, <1>8, <1>15 DEF Unary, Binary, Future
  <2>2. t + 1 \in Nat /\ t + 1 >= m /\ (t + 1) + p = (t + p) + 1
    BY <1>1, <1>4
  <2>3. (t + 1) + p \in v[1] <=> t + 1 \in v[1]
    BY <2>1, <2>2 DEF Repeats
  <2> QED BY <1>15, <2>2, <2>3 DEF TrueAt
<1>16. CASE n.op = "read"
  <2>1. At(x, t + p) = At(x, t)
    <3>1. t >= x.loop
      BY <1>1, <1>4 DEF IsLasso
    <3> QED BY <3>1, ContentsRepeat DEF p
  <2> QED BY <1>16, <2>1 DEF TrueAt
<1>17. CASE n.op = "not"
  <2>1. Repeats(p, m, v[1])
    BY <1>3, <1>8, <1>17 DEF Unary, Binary
  <2> QED BY <1>4, <1>17, <2>1 DEF TrueAt, Repeats
<1>18. CASE n.op = "and"
  <2>1. DOMAIN v = DOMAIN n.args
    BY DEF SetsFor
  <2>2. \A i \in DOMAIN v : t + p \in v[i] <=> t \in v[i]
    BY <1>3, <1>4, <2>1 DEF Repeats
  <2> QED BY <1>18, <2>2 DEF TrueAt
<1> QED BY <1>8, <1>11, <1>12, <1>13, <1>14, <1>15, <1>16, <1>17, <1>18 DEF Reading, Future, Past

\* Truth by operands, where each instant looks ahead to some others.
IsTruth(f, x, S, Ahead) ==
  f = [n \in S |-> {t \in Nat : TrueAt(x, n, OperandsOf(f, n), t, Ahead[t])}]

\* It has a solution, wherever they look.
LEMMA TruthHasSolution ==
  ASSUME NEW x, NEW S, Closed(S), NEW Ahead
  PROVE  \E f : IsTruth(f, x, S, Ahead)
<1> DEFINE V == SUBSET Nat
           F(n, v) == {t \in Nat : TrueAt(x, n, v, t, Ahead[t])}
           G == [n \in S |-> [v \in [DOMAIN n.args -> V] |-> F(n, v)]]
<1>1. ASSUME NEW n \in S, NEW v \in [DOMAIN n.args -> V]
      PROVE  G[n][v] = F(n, v) /\ F(n, v) \in V
  OBVIOUS
<1>2. PICK f : f \in [S -> V] /\ \A n \in S : f[n] = G[n][OperandsOf(f, n)]
  <2>1. Gives(G, S, V)
    BY <1>1 DEF Gives
  <2> HIDE DEF G, F, V
  <2>2. PICK f : Solves(f, G, S, V)
    BY <2>1, FormulaRecursion
  <2> QED BY <2>2 DEF Solves
<1>3. ASSUME NEW n \in S
      PROVE  f[n] = F(n, OperandsOf(f, n))
  <2>1. OperandsOf(f, n) \in [DOMAIN n.args -> V]
    BY <1>2 DEF OperandsOf, Closed
  <2> HIDE DEF G, F, V
  <2> QED BY <1>1, <1>2, <2>1
<1> HIDE DEF G
<1> DEFINE H == [n \in S |-> F(n, OperandsOf(f, n))]
<1>4. f = H
  <2>1. f = [n \in S |-> f[n]] /\ DOMAIN H = S /\ H = [n \in S |-> H[n]]
    BY <1>2
  <2>2. \A n \in S : f[n] = H[n]
    BY <1>3
  <2> HIDE DEF H, F, V
  <2> QED BY <2>1, <2>2
<1>5. IsTruth(f, x, S, Ahead)
  BY <1>4 DEF IsTruth
<1> QED BY <1>5

\* The truth over the infinite trace is what its equations say.
LEMMA MeansIsDefined ==
  ASSUME NEW x, NEW n \in Formulas
  PROVE  /\ Means(x)[n] = {t \in Nat : TrueAt(x, n, OperandsOf(Means(x), n), t, From(t))}
         /\ SetsFor(n, OperandsOf(Means(x), n))
<1> DEFINE Ahead == [t \in Nat |-> From(t)]
           Is(f) == f = [m \in Formulas |->
                           {t \in Nat : TrueAt(x, m, [i \in DOMAIN m.args |-> f[m.args[i]]], t, From(t))}]
<1>1. PICK f : IsTruth(f, x, Formulas, Ahead)
  <2> HIDE DEF Ahead
  <2> QED BY FormulasAreClosed, TruthHasSolution
<1>2. \A t \in Nat : Ahead[t] = From(t)
  OBVIOUS
<1>3. \A m \in Formulas : {t \in Nat : TrueAt(x, m, OperandsOf(f, m), t, Ahead[t])}
                          = {t \in Nat : TrueAt(x, m, OperandsOf(f, m), t, From(t))}
  <2> HIDE DEF Ahead
  <2> QED BY <1>2
<1>4. Is(f)
  <2> DEFINE H == [m \in Formulas |-> {t \in Nat : TrueAt(x, m, OperandsOf(f, m), t, From(t))}]
  <2>1. \A m \in Formulas : f[m] = {t \in Nat : TrueAt(x, m, OperandsOf(f, m), t, Ahead[t])}
    <3> HIDE DEF Ahead
    <3> QED BY <1>1, Zenon DEF IsTruth
  <2>2. \A m \in Formulas : f[m] = H[m]
    BY <1>3, <2>1
  <2>3. f = [m \in Formulas |-> f[m]] /\ H = [m \in Formulas |-> H[m]]
    BY <1>1 DEF IsTruth
  <2>4. f = H
    <3> HIDE DEF H
    <3> QED BY <2>2, <2>3
  <2> QED BY <2>4 DEF OperandsOf
<1>5. Is(Means(x))
  <2> HIDE DEF Ahead
  <2> QED BY <1>4, Zenon DEF Means
<1>6. \A m \in Formulas : Means(x)[m] = {t \in Nat : TrueAt(x, m, OperandsOf(Means(x), m), t, From(t))}
  BY <1>5, Zenon DEF OperandsOf
<1>7. \A m \in Formulas : Means(x)[m] \in SUBSET Nat
  BY <1>6
<1>8. OperandsOf(Means(x), n) \in [DOMAIN n.args -> SUBSET Nat]
  <2>1. \A i \in DOMAIN n.args : Means(x)[n.args[i]] \in SUBSET Nat
    BY <1>7, FormulasAreClosed DEF Closed
  <2> QED BY <2>1 DEF OperandsOf
<1> QED BY <1>6, <1>8 DEF SetsFor

\* The same, of one instant.
LEMMA MeansAtInstant ==
  ASSUME NEW x, NEW n \in Formulas, NEW t \in Nat
  PROVE  t \in Means(x)[n] <=> TrueAt(x, n, OperandsOf(Means(x), n), t, From(t))
BY MeansIsDefined

\* The truth of a node repeats from the loop target on, one pass later for each past
\* operator that nests in it.
LEMMA MeansRepeats ==
  ASSUME NEW x, IsLasso(x), NEW n \in Formulas
  PROVE  Repeats(Pass(x), Settled(x, PastDepthOf[n]), Means(x)[n])
<1> DEFINE T == {m \in Formulas : Repeats(Pass(x), Settled(x, PastDepthOf[m]), Means(x)[m])}
<1>1. ASSUME NEW m \in Formulas, \A i \in DOMAIN m.args : m.args[i] \in T
      PROVE  m \in T
  <2> DEFINE v == OperandsOf(Means(x), m)
  <2>1. SetsFor(m, v) /\ Means(x)[m] = {t \in Nat : TrueAt(x, m, v, t, From(t))}
    BY MeansIsDefined
  <2>2. \A i \in DOMAIN m.args : Repeats(Pass(x), Settled(x, PastDepthOf[m.args[i]]), v[i])
    BY <1>1 DEF OperandsOf
  <2> HIDE DEF v
  <2>3. Repeats(Pass(x), Settled(x, PastDepthOf[m]), {t \in Nat : TrueAt(x, m, v, t, From(t))})
    BY <2>1, <2>2, NodeRepeats
  <2> QED BY <2>1, <2>3
<1>2. Formulas \subseteq T
  <2> HIDE DEF T
  <2> QED BY <1>1, FormulasAreClosed, FormulaInduction
<1> QED BY <1>2

\* No subnode nests past operators deeper.
LEMMA SubnodesAreShallower ==
  ASSUME NEW n \in Formulas
  PROVE  \A m \in Subnodes(n) : PastDepthOf[m] <= PastDepthOf[n]
<1> DEFINE T == {o \in Formulas : \A m \in SubnodesOf[o] : PastDepthOf[m] <= PastDepthOf[o]}
<1>1. ASSUME NEW o \in Formulas, \A i \in DOMAIN o.args : o.args[i] \in T
      PROVE  o \in T
  <2>1. SubnodesOf[o] = {o} \cup UNION {SubnodesOf[o.args[i]] : i \in DOMAIN o.args}
    BY SubnodesOfNode
  <2>2. PastDepthOf[o] \in Nat
    BY DepthIsDefined
  <2>3. ASSUME NEW m \in SubnodesOf[o]
        PROVE  PastDepthOf[m] <= PastDepthOf[o]
    <3>1. CASE m = o
      BY <2>2, <3>1
    <3>2. CASE m # o
      <4>1. PICK i \in DOMAIN o.args : m \in SubnodesOf[o.args[i]]
        BY <2>1, <3>2
      <4>2. PastDepthOf[m] <= PastDepthOf[o.args[i]] /\ o.args[i] \in Formulas
        BY <1>1, <4>1
      <4>3. m \in Formulas
        BY <4>1, <4>2, SubnodesAreClosed DEF Closed, Subnodes
      <4>4. PastDepthOf[o.args[i]] <= PastDepthOf[o] /\ PastDepthOf[o.args[i]] \in Nat /\ PastDepthOf[m] \in Nat
        BY <4>2, <4>3, DepthIsDefined
      <4> QED BY <2>2, <4>2, <4>4
    <3> QED BY <3>1, <3>2
  <2> QED BY <2>3
<1>2. Formulas \subseteq T
  <2> HIDE DEF T
  <2> QED BY <1>1, FormulasAreClosed, FormulaInduction
<1> QED BY <1>2 DEF Subnodes

\* Where the operands repeat, a window of as many instants shows all there is to see.
LEMMA NodeInWindow ==
  ASSUME NEW x, IsLasso(x), NEW n \in Formulas, NEW v, SetsFor(n, v), NEW w \in Nat, NEW m \in Nat,
         \A i \in DOMAIN n.args : Repeats(Pass(x), m, v[i]),
         w >= m + Pass(x) - 1, NEW t \in Nat
  PROVE  TrueAt(x, n, v, t, t..t+w) <=> TrueAt(x, n, v, t, From(t))
<1> DEFINE p == Pass(x)
<1>1. p \in Nat \ {0}
  BY DEF Pass, IsLasso
<1> HIDE DEF p
<1>2. \A i \in DOMAIN n.args : Repeats(p, m, v[i]) /\ Repeats(p, m, Not(v[i]))
  BY <1>1, RepeatsLater DEF p
<1>3. Repeats(p, m, Nat)
  BY <1>1 DEF Repeats
<1>4. \A left, right : Repeats(p, m, right)
                       => (Until(left, right, t, t..t+w) <=> Until(left, right, t, From(t)))
  BY <1>1, WindowSuffices DEF p
<1>5. t..t+w \in SUBSET Nat /\ From(t) \in SUBSET Nat
  BY DEF From
<1>6. /\ n.op \in Unary => 1 \in DOMAIN n.args
      /\ n.op \in Binary => 1 \in DOMAIN n.args /\ 2 \in DOMAIN n.args
      /\ n.op \in Reading \cup Future \cup Past
  BY OperandsOfNode
<1>7. CASE n.op \in {"always", "eventually"}
  <2>1. Repeats(p, m, v[1]) /\ Repeats(p, m, Not(v[1]))
    BY <1>2, <1>6, <1>7 DEF Unary, Binary, Future
  <2> QED BY <1>4, <1>5, <1>7, <2>1, TrueAsWitness
<1>8. CASE n.op \in {"until", "releases"}
  <2>1. Repeats(p, m, v[2]) /\ Repeats(p, m, Not(v[2]))
    BY <1>2, <1>6, <1>8 DEF Binary
  <2> QED BY <1>4, <1>5, <1>8, <2>1, TrueAsWitness
<1>9. CASE n.op \in Reading \cup Past \cup {"prime", "after"}
  BY <1>9 DEF Reading, Past, TrueAt
<1> QED BY <1>6, <1>7, <1>8, <1>9 DEF Future

\* The window of a formula goes to the end of a pass that all of it repeats.
LEMMA WindowIsWide ==
  ASSUME NEW x, IsLasso(x), NEW root \in Formulas
  PROVE  Window(x, root) \in Nat /\ Window(x, root) >= Settled(x, PastDepthOf[root]) + Pass(x) - 1
<1>1. PICK d \in Nat : d = PastDepthOf[root]
  BY DepthIsDefined
<1>2. PICK n \in Nat \ {0} : n = x.k
  BY DEF IsLasso
<1>3. PICK l \in 0..n-1 : l = x.loop
  BY <1>2 DEF IsLasso
<1>4. PICK p \in Nat \ {0} : p = n - l
  OBVIOUS
<1>5. d * n \in Nat /\ d * p \in Nat
  BY SMT
<1>6. (d + 1) * n = d * n + n
  BY SMT
<1>7. p * d <= n * d
  BY <1>4, ProductMonotone
<1>8. d * p <= d * n
  BY <1>7, SMT
<1>9. Window(x, root) = (d + 1) * n /\ Settled(x, PastDepthOf[root]) = l + d * p /\ Pass(x) = p
  BY <1>1, <1>2, <1>3, <1>4 DEF Window, Settled, Pass
<1>10. d * n + n \in Nat /\ d * n + n >= (l + d * p) + p - 1
  BY <1>4, <1>5, <1>8
<1> QED BY <1>6, <1>9, <1>10

\* The window of Truth is enough: what it gives is the truth over the infinite trace, for
\* every formula, however its operators nest, and every lasso.
THEOREM WindowIsEnough ==
  ASSUME NEW x, IsLasso(x), NEW root \in Formulas
  PROVE  Truth(x, root) = Means(x)[root]
<1> DEFINE w == Window(x, root)
           S == Subnodes(root)
           Ahead == [t \in Nat |-> t..t+w]
           Is(f) == f = [n \in Subnodes(root) |->
                           {t \in Nat : TrueAt(x, n, [i \in DOMAIN n.args |-> f[n.args[i]]], t,
                                               t..t+Window(x, root))}]
           truth == CHOOSE f : Is(f)
<1>1. root \in S /\ Closed(S)
  BY SubnodesAreClosed
<1>2. PICK f : IsTruth(f, x, S, Ahead)
  <2> HIDE DEF Ahead, S
  <2> QED BY <1>1, TruthHasSolution
<1>3. \A n \in S : {t \in Nat : TrueAt(x, n, OperandsOf(f, n), t, Ahead[t])}
                   = {t \in Nat : TrueAt(x, n, OperandsOf(f, n), t, t..t+w)}
  <2>1. \A t \in Nat : Ahead[t] = t..t+w
    OBVIOUS
  <2> HIDE DEF Ahead, w, S
  <2> QED BY <2>1
<1>4. Is(f)
  <2> DEFINE H == [n \in S |-> {t \in Nat : TrueAt(x, n, OperandsOf(f, n), t, t..t+w)}]
  <2>1. \A n \in S : f[n] = {t \in Nat : TrueAt(x, n, OperandsOf(f, n), t, Ahead[t])}
    <3> HIDE DEF Ahead, S
    <3> QED BY <1>2, Zenon DEF IsTruth
  <2>2. \A n \in S : f[n] = H[n]
    <3> HIDE DEF Ahead, w
    <3> QED BY <1>3, <2>1
  <2>3. f = [n \in S |-> f[n]] /\ H = [n \in S |-> H[n]]
    <3> HIDE DEF Ahead, S
    <3> QED BY <1>2 DEF IsTruth
  <2>4. f = H
    <3> HIDE DEF H, S
    <3> QED BY <2>2, <2>3
  <2> QED BY <2>4 DEF OperandsOf
<1>5. Is(truth)
  <2> HIDE DEF Is
  <2> QED BY <1>4, Zenon
<1>6. Truth(x, root) = truth[root]
  BY Zenon DEF Truth
<1>7. \A n \in S : truth[n] = {t \in Nat : TrueAt(x, n, OperandsOf(truth, n), t, t..t+w)}
  <2> HIDE DEF truth
  <2> QED BY <1>5, Zenon DEF OperandsOf
<1> HIDE DEF truth, w
<1> DEFINE T == {n \in S : truth[n] = Means(x)[n]}
<1>8. ASSUME NEW n \in S, \A i \in DOMAIN n.args : n.args[i] \in T
      PROVE  n \in T
  <2>1. n \in Formulas /\ \A i \in DOMAIN n.args : n.args[i] \in S /\ n.args[i] \in Formulas
    BY <1>1 DEF Closed
  <2> DEFINE v == OperandsOf(Means(x), n)
  <2>2. SetsFor(n, v) /\ Means(x)[n] = {t \in Nat : TrueAt(x, n, v, t, From(t))}
    BY <2>1, MeansIsDefined
  <2>3. OperandsOf(truth, n) = v
    <3>1. \A i \in DOMAIN n.args : truth[n.args[i]] = Means(x)[n.args[i]]
      BY <1>8
    <3> QED BY <3>1 DEF OperandsOf
  <2>4. Settled(x, PastDepthOf[root]) \in Nat
    BY SettledLater, DepthIsDefined
  <2>5. w \in Nat /\ w >= Settled(x, PastDepthOf[root]) + Pass(x) - 1
    BY WindowIsWide DEF w
  <2>6. ASSUME NEW i \in DOMAIN n.args
        PROVE  Repeats(Pass(x), Settled(x, PastDepthOf[root]), v[i])
    <3>1. PastDepthOf[n.args[i]] \in Nat /\ PastDepthOf[root] \in Nat /\ PastDepthOf[n.args[i]] <= PastDepthOf[root]
      BY <2>1, DepthIsDefined, SubnodesAreShallower
    <3>2. v[i] = Means(x)[n.args[i]]
      BY DEF OperandsOf
    <3>3. Repeats(Pass(x), Settled(x, PastDepthOf[n.args[i]]), v[i])
      BY <2>1, <3>2, MeansRepeats
    <3>4. /\ Settled(x, PastDepthOf[n.args[i]]) \in Nat
          /\ Settled(x, PastDepthOf[n.args[i]]) <= Settled(x, PastDepthOf[root])
          /\ Pass(x) \in Nat
      BY <3>1, SettledLater
    <3> HIDE DEF v
    <3> QED BY <2>4, <3>3, <3>4, RepeatsLater
  <2> HIDE DEF v, S
  <2>7. \A t \in Nat : TrueAt(x, n, v, t, t..t+w) <=> TrueAt(x, n, v, t, From(t))
    BY <2>1, <2>2, <2>4, <2>5, <2>6, NodeInWindow
  <2>8. truth[n] = {t \in Nat : TrueAt(x, n, v, t, t..t+w)}
    BY <1>7, <2>3
  <2> QED BY <2>2, <2>7, <2>8
<1>9. S \subseteq T
  <2> HIDE DEF T, S
  <2> QED BY <1>1, <1>8, FormulaInduction
<1> QED BY <1>1, <1>6, <1>9

\* What holds up to the end of the window holds for ever.
LEMMA WindowShowsAlways ==
  ASSUME NEW x, IsLasso(x), NEW n \in Formulas
  PROVE  (\A t \in 0..Window(x, n) : t \in Means(x)[n]) <=> (\A t \in Nat : t \in Means(x)[n])
<1> DEFINE p == Pass(x)
           m == Settled(x, PastDepthOf[n])
           R == Not(Means(x)[n])
           w == Window(x, n)
<1>1. p \in Nat \ {0} /\ m \in Nat
  BY SettledLater, DepthIsDefined
<1>2. Repeats(p, m, R)
  BY <1>1, MeansRepeats, RepeatsLater
<1>3. w \in Nat /\ w >= m + p - 1
  BY WindowIsWide
<1> HIDE DEF p, m, w
<1>4. Until(Nat, R, 0, 0..0+w) <=> Until(Nat, R, 0, From(0))
  <2> HIDE DEF R
  <2> QED BY <1>1, <1>2, <1>3, WindowSuffices
<1>5. Until(Nat, R, 0, From(0)) <=> \E t \in Nat : t \notin Means(x)[n]
  BY DEF Until, From, Not
<1>6. Until(Nat, R, 0, 0..0+w) <=> \E t \in 0..w : t \notin Means(x)[n]
  BY <1>3 DEF Until, Not
<1> QED BY <1>4, <1>5, <1>6 DEF w

----------------------------------------------------------------------------
(* What time does not matter to.                                           *)

\* A reading, of its operands.
LEMMA TrueOfReading ==
  ASSUME NEW x, NEW n \in Formulas, n.op \in Reading, NEW t \in Nat
  PROVE  t \in Means(x)[n] <=>
           /\ n.op = "read" => n.rel \in At(x, t) \cup x.static
           /\ n.op = "not" => t \notin Means(x)[n.args[1]]
           /\ n.op = "and" => \A i \in DOMAIN n.args : t \in Means(x)[n.args[i]]
<1> DEFINE v == OperandsOf(Means(x), n)
<1>1. t \in Means(x)[n] <=> TrueAt(x, n, v, t, From(t))
  BY MeansAtInstant
<1>2. DOMAIN v = DOMAIN n.args /\ \A i \in DOMAIN n.args : v[i] = Means(x)[n.args[i]]
  BY DEF OperandsOf
<1>3. n.op = "not" => 1 \in DOMAIN n.args
  BY OperandsOfNode DEF Unary, Binary
<1> HIDE DEF v
<1>4. CASE n.op = "read"
  BY <1>1, <1>4 DEF TrueAt
<1>5. CASE n.op = "not"
  BY <1>1, <1>2, <1>3, <1>5 DEF TrueAt
<1>6. CASE n.op = "and"
  BY <1>1, <1>2, <1>6 DEF TrueAt
<1> QED BY <1>4, <1>5, <1>6 DEF Reading

\* One without operators depends on what holds at the instant, and so on no loop target.
LEMMA PureLooksAtState ==
  ASSUME NEW x, NEW y, NEW t \in Nat, NEW u \in Nat, At(x, t) \cup x.static = At(y, u) \cup y.static,
         NEW n \in Formulas, ~HasOperator(n)
  PROVE  t \in Means(x)[n] <=> u \in Means(y)[n]
<1> DEFINE T == {o \in Formulas : ~HasOperator(o) => (t \in Means(x)[o] <=> u \in Means(y)[o])}
<1>1. ASSUME NEW o \in Formulas, \A i \in DOMAIN o.args : o.args[i] \in T, ~HasOperator(o)
      PROVE  t \in Means(x)[o] <=> u \in Means(y)[o]
  <2>1. o.op \in Reading /\ \A i \in DOMAIN o.args : ~HasOperator(o.args[i])
    BY <1>1, PureIsReading
  <2>2. \A i \in DOMAIN o.args : t \in Means(x)[o.args[i]] <=> u \in Means(y)[o.args[i]]
    BY <1>1, <2>1
  <2>3. o.op = "not" => 1 \in DOMAIN o.args
    BY OperandsOfNode DEF Unary, Binary
  <2> QED BY <2>1, <2>2, <2>3, TrueOfReading
<1>2. Formulas \subseteq T
  <2>1. \A o \in Formulas : (\A i \in DOMAIN o.args : o.args[i] \in T) => o \in T
    BY <1>1
  <2> HIDE DEF T
  <2> QED BY <2>1, FormulasAreClosed, FormulaInduction
<1> QED BY <1>2

\* One without variable relations, either, is the same at all instants.
LEMMA RigidIsConstant ==
  ASSUME NEW x, NEW c, NEW t \in Nat, NEW u \in Nat,
         At(x, t) \subseteq c.variable, At(x, u) \subseteq c.variable,
         NEW n \in Formulas, ~IsTemporal(c, n)
  PROVE  t \in Means(x)[n] <=> u \in Means(x)[n]
<1> DEFINE T == {o \in Formulas : ~IsTemporal(c, o) => (t \in Means(x)[o] <=> u \in Means(x)[o])}
<1>1. ASSUME NEW o \in Formulas, \A i \in DOMAIN o.args : o.args[i] \in T, ~IsTemporal(c, o)
      PROVE  t \in Means(x)[o] <=> u \in Means(x)[o]
  <2>1. /\ o.op \in Reading
        /\ o.op = "read" => o.rel \notin c.variable
        /\ \A i \in DOMAIN o.args : ~IsTemporal(c, o.args[i])
    BY <1>1, RigidIsReading
  <2>2. \A i \in DOMAIN o.args : t \in Means(x)[o.args[i]] <=> u \in Means(x)[o.args[i]]
    BY <1>1, <2>1
  <2>3. o.op = "not" => 1 \in DOMAIN o.args
    BY OperandsOfNode DEF Unary, Binary
  <2>4. o.op = "read" => (o.rel \in At(x, t) \cup x.static <=> o.rel \in At(x, u) \cup x.static)
    BY <2>1
  <2> QED BY <2>1, <2>2, <2>3, <2>4, TrueOfReading
<1>2. Formulas \subseteq T
  <2>1. \A o \in Formulas : (\A i \in DOMAIN o.args : o.args[i] \in T) => o \in T
    BY <1>1
  <2> HIDE DEF T
  <2> QED BY <2>1, FormulasAreClosed, FormulaInduction
<1> QED BY <1>2

----------------------------------------------------------------------------
(* The timeline of a branch.                                               *)

Size(x, d) == x.k + d * Pass(x)

\* The line of a branch: its size, the state at each time, and where it loops back to.
LEMMA LineOfBranch ==
  ASSUME NEW x, IsLasso(x), NEW d \in Nat
  PROVE  LET line == Line(x.k, x.loop, d)
             size == Size(x, d)
         IN  /\ size \in Nat /\ Pass(x) \in 1..size /\ x.k <= size
             /\ Ends(line, size, Pass(x))
             /\ size - Pass(x) = Settled(x, d)
             /\ \A t \in 0..size-1 : line.states[t] = Position(x, t) /\ line.states[t] \in 0..x.k-1
             /\ \A s \in 0..x.k-1 : line.states[s] = s
<1>1. PICK n \in Nat \ {0} : n = x.k
  BY DEF IsLasso
<1>2. PICK l \in 0..n-1 : l = x.loop
  BY <1>1 DEF IsLasso
<1>3. PICK p \in Nat \ {0} : p = n - l
  OBVIOUS
<1>4. PICK e \in Nat : e = d * p
  BY SMT
<1>5. PICK size : size = n + e
  OBVIOUS
<1>6. Size(x, d) = size /\ Pass(x) = p /\ Settled(x, d) = l + e
  BY <1>1, <1>2, <1>3, <1>4, <1>5 DEF Size, Pass, Settled
<1>7. size \in Nat /\ p \in 1..size /\ n <= size /\ size - p = l + e
  BY <1>3, <1>5
<1> DEFINE line == Line(n, l, d)
<1>8. /\ line.states = [t \in 0..size-1 |-> IF t < n THEN t ELSE l + ((t - n) % p)]
      /\ line.loopAt = LoopAt(n, l, d)
  <2>1. n + d * (n - l) - 1 = size - 1
    BY <1>3, <1>4, <1>5
  <2> QED BY <1>3, <2>1 DEF Line, Timeline
<1>9. line.loopAt = size - p
  <2>1. CASE d = 0
    <3>1. e = 0
      BY <1>4, <2>1
    <3> QED BY <1>3, <1>5, <1>8, <2>1, <3>1 DEF LoopAt
  <2>2. CASE d # 0
    <3>1. (d - 1) * p = e - p
      BY <1>4, SMT
    <3> QED BY <1>3, <1>5, <1>8, <2>2, <3>1 DEF LoopAt
  <2> QED BY <2>1, <2>2
<1> HIDE DEF line
<1>10. ASSUME NEW t \in 0..size-1
       PROVE  line.states[t] = Position(x, t) /\ line.states[t] \in 0..n-1
  <2>1. CASE t < n
    BY <1>1, <1>8, <2>1 DEF Position
  <2>2. CASE ~(t < n)
    <3>1. PICK a \in Nat : a = t - n
      BY <2>2
    <3>2. PICK q \in Nat, r \in 0..p-1 : a = q * p + r
      BY DivisionOf
    <3>3. (q * p + r) % p = r /\ ((q + 1) * p + r) % p = r
      <4>1. q \in Int /\ q + 1 \in Int
        OBVIOUS
      <4> QED BY <4>1, RemainderUnique, Zenon
    <3>4. (q + 1) * p + r = a + p
      BY <3>2, SMT
    <3>5. a % p = r /\ (a + p) % p = r /\ t - l = a + p
      BY <1>3, <3>1, <3>2, <3>3, <3>4
    <3>6. Position(x, t) = l + r
      BY <1>1, <1>2, <1>3, <2>2, <3>5 DEF Position
    <3>7. line.states[t] = l + r /\ l + r \in 0..n-1
      BY <1>3, <1>8, <2>2, <3>1, <3>5
    <3> QED BY <3>6, <3>7
  <2> QED BY <2>1, <2>2
<1>11. \A s \in 0..n-1 : line.states[s] = s
  BY <1>7, <1>8
<1>12. Ends(line, size, p)
  BY <1>8, <1>9 DEF Ends
<1> QED BY <1>1, <1>2, <1>6, <1>7, <1>10, <1>11, <1>12 DEF line

----------------------------------------------------------------------------
(* The expansion of one node.                                              *)

\* The expansion of a node on a line is its truth, of operands that repeat from its loop back on.
LEMMA ExpandsIsTrue ==
  ASSUME NEW x, NEW n \in Formulas, NEW v, SetsFor(n, v), NEW line, NEW size \in Nat, NEW p \in 1..size,
         Ends(line, size, p), NEW operand, DOMAIN operand = DOMAIN n.args, NEW content,
         \A i \in DOMAIN n.args : Repeats(p, size - p, v[i]),
         \A i \in DOMAIN n.args : \A u \in 0..size-1 : content \in operand[i][u] <=> u \in v[i],
         NEW t \in 0..size-1,
         n.op = "read" => (HoldsAt(content, n.rel, line.states[t]) <=> n.rel \in At(x, t) \cup x.static)
  PROVE  Expands(n, operand, line, t, content) <=> TrueAt(x, n, v, t, From(t))
<1> DEFINE path == FuturePath(line, t)
           past == PastPath(t)
<1>1. p \in Nat \ {0} /\ size - p \in Nat /\ t \in Nat /\ From(t) \in SUBSET Nat
  BY DEF From
<1>2. /\ n.op \in Unary => 1 \in DOMAIN n.args
      /\ n.op \in Binary => 1 \in DOMAIN n.args /\ 2 \in DOMAIN n.args
      /\ n.op \in Reading \cup Future \cup Past
  BY OperandsOfNode
<1>3. Shows(path, size, p, t)
  BY PathShowsFuture
<1>4. \A i \in DOMAIN path : path[i] \in 0..size-1 /\ path[i] \in Nat
  <2> HIDE DEF path
  <2> QED BY <1>3 DEF Shows
<1>5. DOMAIN past = 1..t+1 /\ \A i \in DOMAIN past : past[i] \in 0..size-1 /\ past[i] \in Nat
  BY DEF PastPath
<1>6. \A i \in DOMAIN path : \A j \in 1..i-1 : j \in DOMAIN path
  <2>1. DOMAIN path = 1..(size - t) + p
    <3> HIDE DEF path
    <3> QED BY <1>3 DEF Shows
  <2> HIDE DEF path
  <2> QED BY <2>1
<1>7. \A i \in DOMAIN past : \A j \in 1..i-1 : j \in DOMAIN past
  <2> HIDE DEF past
  <2> QED BY <1>5
<1>8. \A i \in DOMAIN n.args : Repeats(p, size - p, v[i]) /\ Repeats(p, size - p, Not(v[i]))
  BY <1>1, RepeatsLater
<1>9. Repeats(p, size - p, Nat)
  BY <1>1 DEF Repeats
<1>10. \A left, right : Repeats(p, size - p, left) /\ Repeats(p, size - p, right) =>
         ((\E i \in DOMAIN path : path[i] \in right /\ \A j \in 1..i-1 : path[j] \in left)
          <=> Until(left, right, t, From(t)))
  BY PathIsUntil
<1>11. \A left, right :
         (\E i \in DOMAIN past : past[i] \in right /\ \A j \in 1..i-1 : past[j] \in left)
          <=> Since(left, right, t)
  BY <1>1, PathIsSince
<1> HIDE DEF path, past
<1>12. CASE n.op = "read"
  BY <1>12 DEF Expands, TrueAt
<1>13. CASE n.op = "not"
  <2>1. content \in operand[1][t] <=> t \in v[1]
    BY <1>2, <1>13 DEF Unary, Binary
  <2> QED BY <1>13, <2>1 DEF Expands, TrueAt
<1>14. CASE n.op = "and"
  <2>1. \A i \in DOMAIN n.args : content \in operand[i][t] <=> t \in v[i]
    OBVIOUS
  <2>2. DOMAIN v = DOMAIN n.args
    BY DEF SetsFor
  <2> QED BY <1>14, <2>1, <2>2 DEF Expands, TrueAt
<1>15. CASE n.op \in {"prime", "after"}
  <2>1. 1 \in DOMAIN n.args
    BY <1>2, <1>15 DEF Unary, Binary, Future
  <2>2. End(line) = size /\ line.loopAt = size - p
    BY EndIsSize DEF Ends
  <2>3. Succ(line, t) \in 0..size-1 /\ (Succ(line, t) \in v[1] <=> t + 1 \in v[1])
    <3>1. CASE t + 1 < size
      BY <2>2, <3>1 DEF Succ
    <3>2. CASE ~(t + 1 < size)
      <4>1. Succ(line, t) = size - p /\ t + 1 = (size - p) + p /\ size - p \in 0..size-1
        BY <2>2, <3>2 DEF Succ
      <4>2. (size - p) + p \in v[1] <=> size - p \in v[1]
        BY <1>1, <1>8, <2>1 DEF Repeats
      <4> QED BY <4>1, <4>2
    <3> QED BY <3>1, <3>2
  <2>4. content \in operand[1][Succ(line, t)] <=> t + 1 \in v[1]
    BY <2>1, <2>3
  <2> QED BY <1>15, <2>4 DEF Expands, TrueAt
<1>16. CASE n.op = "before"
  <2>1. 1 \in DOMAIN n.args
    BY <1>2, <1>16 DEF Unary, Binary, Past
  <2>2. t > 0 => t - 1 \in 0..size-1
    OBVIOUS
  <2>3. t > 0 => (content \in operand[1][t - 1] <=> t - 1 \in v[1])
    BY <2>1, <2>2
  <2> QED BY <1>16, <2>3 DEF Expands, TrueAt
<1>17. CASE n.op \in {"historically", "once"}
  <2>1. 1 \in DOMAIN n.args
    BY <1>2, <1>17 DEF Unary, Binary, Past
  <2>2. \A u \in 0..t : content \in operand[1][u] <=> u \in v[1]
    <3>1. \A u \in 0..t : u \in 0..size-1
      OBVIOUS
    <3> QED BY <2>1, <3>1
  <2> QED BY <1>17, <2>2 DEF Expands, TrueAt
<1>18. CASE n.op \in {"always", "eventually"}
  <2>1. 1 \in DOMAIN n.args
    BY <1>2, <1>18 DEF Unary, Binary, Future
  <2>2. \A i \in DOMAIN path : content \in operand[1][path[i]] <=> path[i] \in v[1]
    BY <1>4, <2>1
  <2>3. (\E i \in DOMAIN path : path[i] \in v[1]) <=> Until(Nat, v[1], t, From(t))
    BY <1>4, <1>6, <1>8, <1>9, <1>10, <2>1
  <2>4. (\E i \in DOMAIN path : path[i] \in Not(v[1])) <=> Until(Nat, Not(v[1]), t, From(t))
    BY <1>4, <1>6, <1>8, <1>9, <1>10, <2>1
  <2>5. (\E i \in DOMAIN path : path[i] \in Not(v[1])) <=> ~\A i \in DOMAIN path : path[i] \in v[1]
    BY <1>4 DEF Not
  <2>6. CASE n.op = "always"
    <3>1. Expands(n, operand, line, t, content) <=> \A i \in DOMAIN path : content \in operand[1][path[i]]
      BY <2>6 DEF Expands, path
    <3> QED BY <1>1, <2>2, <2>4, <2>5, <2>6, <3>1, TrueAsWitness
  <2>7. CASE n.op = "eventually"
    <3>1. Expands(n, operand, line, t, content) <=> \E i \in DOMAIN path : content \in operand[1][path[i]]
      BY <2>7 DEF Expands, path
    <3> QED BY <1>1, <2>2, <2>3, <2>7, <3>1, TrueAsWitness
  <2> QED BY <1>18, <2>6, <2>7
<1>19. CASE n.op \in {"until", "releases"}
  <2>1. 1 \in DOMAIN n.args /\ 2 \in DOMAIN n.args
    BY <1>2, <1>19 DEF Binary
  <2>2. \A i \in DOMAIN path : /\ content \in operand[1][path[i]] <=> path[i] \in v[1]
                               /\ content \in operand[2][path[i]] <=> path[i] \in v[2]
    BY <1>4, <2>1
  <2>3. CASE n.op = "until"
    <3>1. Expands(n, operand, line, t, content) <=> Witnessed(operand[1], operand[2], path, content)
      BY <2>3 DEF Expands, path
    <3>2. Witnessed(operand[1], operand[2], path, content)
          <=> \E i \in DOMAIN path : path[i] \in v[2] /\ \A j \in 1..i-1 : path[j] \in v[1]
      BY <1>6, <2>2 DEF Witnessed
    <3> QED BY <1>1, <1>8, <1>10, <2>1, <2>3, <3>1, <3>2, TrueAsWitness
  <2>4. CASE n.op = "releases"
    <3>1. Expands(n, operand, line, t, content) <=> Unreleased(operand[1], operand[2], path, content)
      BY <2>4 DEF Expands, path
    <3>2. Unreleased(operand[1], operand[2], path, content)
          <=> ~\E i \in DOMAIN path : path[i] \in Not(v[2]) /\ \A j \in 1..i-1 : path[j] \in Not(v[1])
      BY <1>4, <1>6, <2>2 DEF Unreleased, Not
    <3> QED BY <1>1, <1>8, <1>10, <2>1, <2>4, <3>1, <3>2, TrueAsWitness
  <2> QED BY <1>19, <2>3, <2>4
<1>20. CASE n.op \in {"since", "triggered"}
  <2>1. 1 \in DOMAIN n.args /\ 2 \in DOMAIN n.args
    BY <1>2, <1>20 DEF Binary
  <2>2. \A i \in DOMAIN past : /\ content \in operand[1][past[i]] <=> past[i] \in v[1]
                               /\ content \in operand[2][past[i]] <=> past[i] \in v[2]
    BY <1>5, <2>1
  <2>3. CASE n.op = "since"
    <3>1. Expands(n, operand, line, t, content) <=> Witnessed(operand[1], operand[2], past, content)
      BY <2>3 DEF Expands, past
    <3>2. Witnessed(operand[1], operand[2], past, content)
          <=> \E i \in DOMAIN past : past[i] \in v[2] /\ \A j \in 1..i-1 : past[j] \in v[1]
      BY <1>7, <2>2 DEF Witnessed
    <3> QED BY <1>1, <1>11, <2>3, <3>1, <3>2, TrueAsWitness
  <2>4. CASE n.op = "triggered"
    <3>1. Expands(n, operand, line, t, content) <=> Unreleased(operand[1], operand[2], past, content)
      BY <2>4 DEF Expands, past
    <3>2. Unreleased(operand[1], operand[2], past, content)
          <=> ~\E i \in DOMAIN past : past[i] \in Not(v[2]) /\ \A j \in 1..i-1 : past[j] \in Not(v[1])
      BY <1>5, <1>7, <2>2 DEF Unreleased, Not
    <3> QED BY <1>1, <1>11, <2>4, <3>1, <3>2, TrueAsWitness
  <2> QED BY <1>20, <2>3, <2>4
<1> QED BY <1>2, <1>12, <1>13, <1>14, <1>15, <1>16, <1>17, <1>18, <1>19, <1>20 DEF Reading, Future, Past

----------------------------------------------------------------------------
(* The lowering of a formula on the timeline of a branch.                  *)

\* Those of some contents of whose lasso, with one loop target, a node is true at an
\* instant.
Among(contents, n, l, node, t) == {content \in contents : t \in Means(WithLoop(content, n, l))[node]}

\* A memo remembers what is so, whatever the loop target.
Recalls(memo, contents, n) ==
  \A node \in Formulas, s \in 0..n-1 :
    <<node, s>> \in DOMAIN memo => \A l \in 0..n-1 : memo[<<node, s>>] = Among(contents, n, l, node, s)

\* How many logical times the line of a branch has.
Times(n, l, d) == n + d * (n - l)

\* The line of a branch follows the lasso of some contents.
Follows(line, x, content, n, size, d) ==
  /\ IsLasso(x)
  /\ size \in Nat /\ Pass(x) \in 1..size /\ n <= size
  /\ Ends(line, size, Pass(x))
  /\ size - Pass(x) = Settled(x, d)
  /\ \A t \in 0..size-1 : /\ line.states[t] \in 0..n-1 /\ line.states[t] \in 0..size-1
                          /\ At(x, t) = content.states[line.states[t]]
  /\ x.static = content.static
  /\ \A s \in 0..n-1 : line.states[s] = s
  /\ DOMAIN line.states = 0..size-1

\* It does, of every contents and loop target.
LEMMA LineFollows ==
  ASSUME NEW n \in Nat \ {0}, NEW l \in 0..n-1, NEW d \in Nat, NEW content, NEW size, size = Times(n, l, d)
  PROVE  Follows(Line(n, l, d), WithLoop(content, n, l), content, n, size, d)
<1>1. PICK x : x = WithLoop(content, n, l)
  OBVIOUS
<1>2. x.k = n /\ x.loop = l /\ x.states = content.states /\ x.static = content.static
  BY <1>1 DEF WithLoop
<1>3. IsLasso(x)
  BY <1>2 DEF IsLasso
<1>4. Size(x, d) = size
  BY <1>2 DEF Size, Pass, Times
<1>5. PICK line : line = Line(x.k, x.loop, d)
  OBVIOUS
<1>6. /\ size \in Nat /\ Pass(x) \in 1..size /\ x.k <= size
      /\ Ends(line, size, Pass(x))
      /\ size - Pass(x) = Settled(x, d)
      /\ \A t \in 0..size-1 : line.states[t] = Position(x, t) /\ line.states[t] \in 0..x.k-1
      /\ \A s \in 0..x.k-1 : line.states[s] = s
  BY <1>3, <1>4, <1>5, LineOfBranch
<1>7. DOMAIN line.states = 0..size-1
  BY <1>6 DEF Ends
<1>8. \A t \in 0..size-1 : /\ line.states[t] \in 0..n-1 /\ line.states[t] \in 0..size-1
                           /\ At(x, t) = content.states[line.states[t]]
  BY <1>2, <1>6 DEF At
<1>9. Follows(line, x, content, n, size, d)
  BY <1>2, <1>3, <1>6, <1>7, <1>8 DEF Follows
<1> QED BY <1>1, <1>2, <1>5, <1>9

\* The tables of a node's operands show them.
Shown(operand, contents, n, l, node, size) ==
  /\ DOMAIN operand = DOMAIN node.args
  /\ \A i \in DOMAIN node.args : \A u \in 0..size-1 :
       operand[i][u] = Among(contents, n, l, node.args[i], u)

FreshAt(node, operand, line, t, contents) == {content \in contents : Expands(node, operand, line, t, content)}

\* One node, from its operands.
LEMMA FreshIsExact ==
  ASSUME NEW n \in Nat \ {0}, NEW l \in 0..n-1, NEW d \in Nat, NEW contents, NEW size,
         size = Times(n, l, d), NEW node \in Formulas, PastDepthOf[node] <= d,
         NEW operand, Shown(operand, contents, n, l, node, size),
         NEW t \in 0..size-1
  PROVE  FreshAt(node, operand, Line(n, l, d), t, contents) = Among(contents, n, l, node, t)
<1> SUFFICES ASSUME NEW content \in contents
             PROVE  Expands(node, operand, Line(n, l, d), t, content)
                    <=> t \in Means(WithLoop(content, n, l))[node]
  BY DEF Among, FreshAt
<1> DEFINE x == WithLoop(content, n, l)
           line == Line(n, l, d)
           v == OperandsOf(Means(x), node)
           p == Pass(x)
<1>1. /\ IsLasso(x)
      /\ size \in Nat /\ p \in 1..size
      /\ Ends(line, size, p)
      /\ size - p = Settled(x, d)
      /\ At(x, t) = content.states[line.states[t]]
      /\ x.static = content.static
  <2>1. Follows(line, x, content, n, size, d)
    BY LineFollows
  <2> HIDE DEF x, line
  <2> QED BY <2>1 DEF Follows
<1> HIDE DEF x, line, p
<1>2. SetsFor(node, v) /\ (t \in Means(x)[node] <=> TrueAt(x, node, v, t, From(t)))
  <2>1. t \in Nat
    BY <1>1
  <2> QED BY <2>1, MeansIsDefined, MeansAtInstant
<1>3. ASSUME NEW i \in DOMAIN node.args
      PROVE  /\ Repeats(p, size - p, v[i])
             /\ \A u \in 0..size-1 : content \in operand[i][u] <=> u \in v[i]
  <2>1. /\ node.args[i] \in Formulas
        /\ PastDepthOf[node.args[i]] \in Nat /\ PastDepthOf[node] \in Nat
        /\ PastDepthOf[node.args[i]] <= PastDepthOf[node]
    BY DepthIsDefined, OperandsAreLower
  <2>2. v[i] = Means(x)[node.args[i]]
    BY DEF OperandsOf
  <2>3. /\ Settled(x, PastDepthOf[node.args[i]]) \in Nat /\ Settled(x, d) \in Nat
        /\ Settled(x, PastDepthOf[node.args[i]]) <= Settled(x, d)
    BY <1>1, <2>1, SettledLater
  <2>4. Repeats(p, Settled(x, PastDepthOf[node.args[i]]), v[i])
    BY <1>1, <2>1, <2>2, MeansRepeats DEF p
  <2>5. p \in Nat \ {0}
    BY <1>1
  <2> HIDE DEF v
  <2>6. Repeats(p, size - p, v[i])
    BY <1>1, <2>3, <2>4, <2>5, RepeatsLater
  <2>7. \A u \in 0..size-1 : content \in operand[i][u] <=> u \in v[i]
    BY <2>2 DEF Among, x, Shown
  <2> QED BY <2>6, <2>7
<1>4. node.op = "read" => (HoldsAt(content, node.rel, line.states[t]) <=> node.rel \in At(x, t) \cup x.static)
  BY <1>1 DEF HoldsAt
<1> HIDE DEF v
<1>6. /\ \A i \in DOMAIN node.args : Repeats(p, size - p, v[i])
      /\ \A i \in DOMAIN node.args : \A u \in 0..size-1 : content \in operand[i][u] <=> u \in v[i]
  BY <1>3
<1>7. DOMAIN operand = DOMAIN node.args
  BY DEF Shown
<1>5. Expands(node, operand, line, t, content) <=> TrueAt(x, node, v, t, From(t))
  BY <1>1, <1>2, <1>4, <1>6, <1>7, ExpandsIsTrue
<1> QED BY <1>2, <1>5 DEF x, line

\* What looks at one state only is the same at all the times at that state.
LEMMA AmongAtState ==
  ASSUME NEW n \in Nat \ {0}, NEW l \in 0..n-1, NEW d \in Nat, NEW contents,
         NEW size, size = Times(n, l, d), NEW node \in Formulas, ~HasOperator(node), NEW t \in 0..size-1
  PROVE  Among(contents, n, l, node, Line(n, l, d).states[t]) = Among(contents, n, l, node, t)
<1> SUFFICES ASSUME NEW content \in contents
             PROVE  Line(n, l, d).states[t] \in Means(WithLoop(content, n, l))[node]
                    <=> t \in Means(WithLoop(content, n, l))[node]
  BY DEF Among
<1> DEFINE x == WithLoop(content, n, l)
           line == Line(n, l, d)
           s == line.states[t]
<1>2. /\ size \in Nat
      /\ \A u \in 0..size-1 : /\ line.states[u] \in 0..n-1 /\ line.states[u] \in 0..size-1
                              /\ At(x, u) = content.states[line.states[u]]
      /\ \A u \in 0..n-1 : line.states[u] = u
  <2>1. Follows(line, x, content, n, size, d)
    BY LineFollows
  <2> HIDE DEF x, line
  <2> QED BY <2>1 DEF Follows
<1> HIDE DEF x, line
<1>3. s \in Nat /\ t \in Nat /\ At(x, s) = At(x, t)
  BY <1>2
<1>4. s \in Means(x)[node] <=> t \in Means(x)[node]
  <2> HIDE DEF s
  <2> QED BY <1>3, PureLooksAtState
<1> QED BY <1>4 DEF x, line

\* Nor does the loop target matter to it.
LEMMA AmongAnyLoop ==
  ASSUME NEW n \in Nat \ {0}, NEW l \in 0..n-1, NEW j \in 0..n-1, NEW contents,
         NEW node \in Formulas, ~HasOperator(node), NEW s \in 0..n-1
  PROVE  Among(contents, n, l, node, s) = Among(contents, n, j, node, s)
<1> SUFFICES ASSUME NEW content \in contents
             PROVE  s \in Means(WithLoop(content, n, l))[node] <=> s \in Means(WithLoop(content, n, j))[node]
  BY DEF Among
<1> DEFINE x == WithLoop(content, n, l)
           y == WithLoop(content, n, j)
<1>1. At(x, s) \cup x.static = At(y, s) \cup y.static
  BY DEF At, Position, WithLoop
<1> HIDE DEF x, y
<1>2. s \in Means(x)[node] <=> s \in Means(y)[node]
  BY <1>1, PureLooksAtState
<1> QED BY <1>2 DEF x, y

\* So one node is lowered exactly, from its operands and a memo that remembers what is so.
LEMMA LowerAtIsExact ==
  ASSUME NEW n \in Nat \ {0}, NEW l \in 0..n-1, NEW d \in Nat, NEW contents, NEW size,
         size = Times(n, l, d), NEW memo, Recalls(memo, contents, n),
         NEW node \in Formulas, PastDepthOf[node] <= d,
         NEW operand, Shown(operand, contents, n, l, node, size),
         NEW t \in 0..size-1
  PROVE  LowerAt(node, operand, Line(n, l, d), memo, contents)[t] = Among(contents, n, l, node, t)
<1> DEFINE line == Line(n, l, d)
           s == line.states[t]
<1>1. size \in Nat /\ s \in 0..n-1 /\ s \in 0..size-1 /\ DOMAIN line.states = 0..size-1
  <2>1. \A content : Follows(line, WithLoop(content, n, l), content, n, size, d)
    BY LineFollows
  <2> HIDE DEF line
  <2> QED BY <2>1 DEF Follows
<1>2. \A u \in 0..size-1 : FreshAt(node, operand, line, u, contents) = Among(contents, n, l, node, u)
  BY FreshIsExact
<1>3. ~HasOperator(node) => Among(contents, n, l, node, s) = Among(contents, n, l, node, t)
  BY AmongAtState
<1>4. LowerAt(node, operand, line, memo, contents)[t]
      = IF HasOperator(node) THEN FreshAt(node, operand, line, t, contents)
        ELSE IF <<node, s>> \in DOMAIN memo THEN memo[<<node, s>>]
             ELSE FreshAt(node, operand, line, s, contents)
  <2>1. t \in DOMAIN line.states
    BY <1>1
  <2> HIDE DEF line
  <2> QED BY <2>1 DEF LowerAt, FreshAt
<1>5. <<node, s>> \in DOMAIN memo => memo[<<node, s>>] = Among(contents, n, l, node, s)
  <2> HIDE DEF s
  <2> QED BY <1>1 DEF Recalls
<1> HIDE DEF s, line
<1> QED BY <1>1, <1>2, <1>3, <1>4, <1>5 DEF line

\* The table of a formula's nodes exists.
IsTable(f, S, line, memo, contents) ==
  f = [n \in S |-> LowerAt(n, OperandsOf(f, n), line, memo, contents)]

\* By the operands' recursion.
LEMMA TableExists ==
  ASSUME NEW S, Closed(S), NEW line, NEW memo, NEW contents
  PROVE  \E f : IsTable(f, S, line, memo, contents)
<1> DEFINE kept == {memo[key] : key \in DOMAIN memo}
           W == (SUBSET contents) \cup kept
           V == [DOMAIN line.states -> W]
           F(n, v) == LowerAt(n, v, line, memo, contents)
           G == [n \in S |-> [v \in [DOMAIN n.args -> V] |-> F(n, v)]]
<1>1. ASSUME NEW n, NEW v
      PROVE  F(n, v) \in V
  <2> DEFINE s(t) == line.states[t]
             g(t) == IF HasOperator(n) THEN FreshAt(n, v, line, t, contents)
                     ELSE IF <<n, s(t)>> \in DOMAIN memo THEN memo[<<n, s(t)>>]
                     ELSE FreshAt(n, v, line, s(t), contents)
  <2>1. F(n, v) = [t \in DOMAIN line.states |-> g(t)]
    BY Zenon DEF LowerAt, FreshAt
  <2>2. \A t : FreshAt(n, v, line, t, contents) \in W
    BY DEF FreshAt
  <2>3. \A key \in DOMAIN memo : memo[key] \in W
    <3>1. \A key \in DOMAIN memo : memo[key] \in kept
      BY Zenon
    <3> HIDE DEF kept
    <3> QED BY <3>1
  <2> HIDE DEF W, s
  <2>4. \A t : g(t) \in W
    BY <2>2, <2>3
  <2> HIDE DEF g, F
  <2> QED BY <2>1, <2>4
<1>2. ASSUME NEW n \in S, NEW v \in [DOMAIN n.args -> V]
      PROVE  G[n][v] = F(n, v) /\ F(n, v) \in V
  <2> HIDE DEF F, V
  <2> QED BY <1>1
<1>3. PICK f : f \in [S -> V] /\ \A n \in S : f[n] = G[n][OperandsOf(f, n)]
  <2>1. Gives(G, S, V)
    BY <1>2 DEF Gives
  <2> HIDE DEF G, F, V
  <2>2. PICK f : Solves(f, G, S, V)
    BY <2>1, FormulaRecursion
  <2> QED BY <2>2 DEF Solves
<1>4. ASSUME NEW n \in S
      PROVE  f[n] = F(n, OperandsOf(f, n))
  <2>1. OperandsOf(f, n) \in [DOMAIN n.args -> V]
    <3> HIDE DEF G, F, V
    <3> QED BY <1>3 DEF OperandsOf, Closed
  <2> HIDE DEF G, F, V
  <2> QED BY <1>2, <1>3, <2>1
<1> HIDE DEF G
<1> DEFINE H == [n \in S |-> F(n, OperandsOf(f, n))]
<1>5. f = H
  <2>1. f = [n \in S |-> f[n]] /\ DOMAIN H = S /\ H = [n \in S |-> H[n]]
    <3> HIDE DEF F, V
    <3> QED BY <1>3
  <2>2. \A n \in S : f[n] = H[n]
    <3> HIDE DEF F, V
    <3> QED BY <1>4
  <2> HIDE DEF H, F, V
  <2> QED BY <2>1, <2>2
<1>6. IsTable(f, S, line, memo, contents)
  BY <1>5 DEF IsTable
<1> QED BY <1>6

\* A table has the contents of which a node is true, at each logical time.
Lowered(table, contents, n, l, node, size) ==
  \A t \in 0..size-1 : table[t] = Among(contents, n, l, node, t)

\* LowerCtx::formula on the timeline of a branch: a formula becomes those contents of which
\* it is true, at each logical time, where the line is long enough for the nesting of its
\* past operators and the memo remembers what is so.
THEOREM LowerIsExact ==
  ASSUME NEW n \in Nat \ {0}, NEW l \in 0..n-1, NEW d \in Nat, NEW contents, NEW memo,
         Recalls(memo, contents, n), NEW root \in Formulas, PastDepthOf[root] <= d
  PROVE  Lowered(Lower(root, Line(n, l, d), memo, contents), contents, n, l, root, Times(n, l, d))
<1> DEFINE S == Subnodes(root)
           line == Line(n, l, d)
           Is(f) == f = [m \in Subnodes(root) |->
                           LowerAt(m, [i \in DOMAIN m.args |-> f[m.args[i]]], line, memo, contents)]
           table == CHOOSE f : Is(f)
<1>1. root \in S /\ Closed(S)
  BY SubnodesAreClosed
<1>2. \E f : Is(f)
  <2>1. PICK f : IsTable(f, S, line, memo, contents)
    BY <1>1, TableExists
  <2> QED BY <2>1, Zenon DEF IsTable, OperandsOf
<1>3. Is(table)
  <2> HIDE DEF Is
  <2> QED BY <1>2, Zenon
<1>4. Lower(root, line, memo, contents) = table[root]
  BY Zenon DEF Lower
<1>5. \A m \in S : table[m] = LowerAt(m, OperandsOf(table, m), line, memo, contents)
  <2> HIDE DEF table
  <2> QED BY <1>3, Zenon DEF OperandsOf
<1>6. PICK size : size = Times(n, l, d)
  OBVIOUS
<1> HIDE DEF table
<1> DEFINE T == {m \in S : Lowered(table[m], contents, n, l, m, size)}
<1>7. ASSUME NEW m \in S, \A i \in DOMAIN m.args : m.args[i] \in T
      PROVE  m \in T
  <2>1. m \in Formulas /\ PastDepthOf[m] <= d
    <3>1. m \in Formulas /\ PastDepthOf[m] <= PastDepthOf[root]
      BY <1>1, SubnodesAreShallower DEF Closed
    <3>2. PastDepthOf[m] \in Nat /\ PastDepthOf[root] \in Nat
      BY <3>1, DepthIsDefined
    <3> QED BY <3>1, <3>2
  <2> DEFINE operand == OperandsOf(table, m)
  <2>2. Shown(operand, contents, n, l, m, size)
    <3>1. DOMAIN operand = DOMAIN m.args /\ \A i \in DOMAIN m.args : operand[i] = table[m.args[i]]
      BY DEF OperandsOf
    <3>2. \A i \in DOMAIN m.args : Lowered(table[m.args[i]], contents, n, l, m.args[i], size)
      BY <1>7
    <3> HIDE DEF operand, S
    <3> QED BY <3>1, <3>2 DEF Shown, Lowered
  <2> HIDE DEF operand, S, line
  <2>3. ASSUME NEW t \in 0..size-1
        PROVE  LowerAt(m, operand, Line(n, l, d), memo, contents)[t] = Among(contents, n, l, m, t)
    BY <1>6, <2>1, <2>2, LowerAtIsExact
  <2>4. table[m] = LowerAt(m, operand, Line(n, l, d), memo, contents)
    BY <1>5 DEF operand, line
  <2> QED BY <2>3, <2>4 DEF Lowered
<1>8. S \subseteq T
  <2> HIDE DEF T, S
  <2> QED BY <1>1, <1>7, FormulaInduction
<1> QED BY <1>1, <1>4, <1>6, <1>8

----------------------------------------------------------------------------
(* The memo that the branches share.                                       *)

\* What a branch adds to the memo is so for the later ones.
LEMMA RemembersWhatIsSo ==
  ASSUME NEW n \in Nat \ {0}, NEW l \in 0..n-1, NEW d \in Nat, NEW contents, NEW memo,
         Recalls(memo, contents, n), NEW roots, roots \subseteq Formulas,
         \A root \in roots : PastDepthOf[root] <= d
  PROVE  Recalls(Remembers(roots, Line(n, l, d), memo, contents), contents, n)
<1> DEFINE line == Line(n, l, d)
           pure == {m \in UNION {Subnodes(root) : root \in roots} : ~HasOperator(m)}
           met  == pure \X {line.states[t] : t \in DOMAIN line.states}
           after == Remembers(roots, line, memo, contents)
<1>1. PICK size : size = Times(n, l, d)
  OBVIOUS
<1>2. size \in Nat /\ DOMAIN line.states = 0..size-1
  <2>1. \A content : Follows(line, WithLoop(content, n, l), content, n, size, d)
    BY <1>1, LineFollows
  <2> HIDE DEF line
  <2> QED BY <2>1 DEF Follows
<1>3. 0..n-1 \subseteq 0..size-1
  <2>1. \A content : Follows(line, WithLoop(content, n, l), content, n, size, d)
    BY <1>1, LineFollows
  <2> HIDE DEF line
  <2> QED BY <2>1 DEF Follows
<1>4. SUFFICES ASSUME NEW node \in Formulas, NEW s \in 0..n-1, <<node, s>> \in DOMAIN after, NEW j \in 0..n-1
               PROVE  after[<<node, s>>] = Among(contents, n, j, node, s)
  BY DEF Recalls
<1>5. /\ DOMAIN after = DOMAIN memo \cup met
      /\ after[<<node, s>>] = IF <<node, s>> \in DOMAIN memo THEN memo[<<node, s>>]
                              ELSE Lower(node, line, memo, contents)[s]
  <2>1. after = [key \in DOMAIN memo \cup met |->
                   IF key \in DOMAIN memo THEN memo[key] ELSE Lower(key[1], line, memo, contents)[key[2]]]
    BY Zenon DEF Remembers
  <2>2. DOMAIN after = DOMAIN memo \cup met
    BY <2>1, Zenon
  <2> DEFINE key == <<node, s>>
  <2>3. key[1] = node /\ key[2] = s
    OBVIOUS
  <2> HIDE DEF key, after, met, line
  <2>4. after[key] = IF key \in DOMAIN memo THEN memo[key] ELSE Lower(key[1], line, memo, contents)[key[2]]
    BY <1>4, <2>1, <2>2, Zenon DEF key
  <2> QED BY <2>2, <2>3, <2>4 DEF key
<1>6. CASE <<node, s>> \in DOMAIN memo
  BY <1>4, <1>5, <1>6 DEF Recalls
<1>7. CASE <<node, s>> \notin DOMAIN memo
  <2>1. node \in pure
    BY <1>4, <1>5, <1>7
  <2>2. PICK root \in roots : node \in Subnodes(root) /\ ~HasOperator(node)
    BY <2>1
  <2>3. PastDepthOf[node] <= d
    <3>1. PastDepthOf[node] <= PastDepthOf[root] /\ PastDepthOf[root] <= d
      BY <2>2, SubnodesAreShallower
    <3>2. PastDepthOf[node] \in Nat /\ PastDepthOf[root] \in Nat
      BY <2>2, DepthIsDefined
    <3> QED BY <3>1, <3>2
  <2>4. Lowered(Lower(node, line, memo, contents), contents, n, l, node, size)
    BY <1>1, <2>3, LowerIsExact
  <2>5. Lower(node, line, memo, contents)[s] = Among(contents, n, l, node, s)
    <3>1. s \in 0..size-1
      BY <1>3
    <3> QED BY <2>4, <3>1 DEF Lowered
  <2>6. Among(contents, n, l, node, s) = Among(contents, n, j, node, s)
    BY <2>2, AmongAnyLoop
  <2> QED BY <1>5, <1>7, <2>5, <2>6
<1> QED BY <1>6, <1>7

----------------------------------------------------------------------------
(* What a conjunct claims is what its root says at the first instant.      *)

\* A conjunct and its root are formulas.
LEMMA ConjunctsAreFormulas ==
  ASSUME NEW c \in Commands, NEW i \in DOMAIN c.conjuncts
  PROVE  /\ c.conjuncts[i].formula \in Formulas
         /\ c.conjuncts[i].from \in Provenance
         /\ Node("always", <<c.conjuncts[i].formula>>) \in Formulas
         /\ Root(c, c.conjuncts[i]) \in Formulas
<1>1. /\ c.conjuncts \in Seq([from : Provenance, formula : Formulas])
      /\ Node("always", <<c.conjuncts[i].formula>>) \in Formulas
  BY CommandsAssumption DEF IsCommand
<1>2. c.conjuncts[i] \in [from : Provenance, formula : Formulas]
  <2>1. \A S : \A q \in Seq(S) : \A j \in DOMAIN q : q[j] \in S
    OBVIOUS
  <2> QED BY <1>1, <2>1, Zenon
<1> QED BY <1>1, <1>2 DEF Root

\* The lassos of a command hold its variable relations.
LEMMA LassosAreLassos ==
  ASSUME NEW c, NEW n \in Nat, NEW x \in Lassos(c, n)
  PROVE  IsLasso(x) /\ \A t \in Nat : At(x, t) \subseteq c.variable
<1>1. n # 0 /\ x.k = n /\ x.loop \in 0..n-1
  BY LassoFields
<1>2. x.states \in [0..n-1 -> SUBSET c.variable]
  BY DEF Lassos, WithLoop, Contents
<1>3. ASSUME NEW t \in Nat
      PROVE  At(x, t) \subseteq c.variable
  <2>1. PICK s \in 0..n-1 : At(x, t) = x.states[s]
    BY InstantsAreStates
  <2> QED BY <1>2, <2>1
<1> QED BY <1>1, <1>3 DEF IsLasso

\* A node is true at every instant if always of it is at the first.
LEMMA AlwaysFromTheFirst ==
  ASSUME NEW x, NEW f \in Formulas, Node("always", <<f>>) \in Formulas
  PROVE  0 \in Means(x)[Node("always", <<f>>)] <=> \A t \in Nat : t \in Means(x)[f]
<1> DEFINE n == Node("always", <<f>>)
           v == OperandsOf(Means(x), n)
<1>1. n.op = "always" /\ 1 \in DOMAIN n.args /\ n.args[1] = f
  <2>1. n.op = "always" /\ n.args = <<f>>
    BY DEF Node
  <2> HIDE DEF n
  <2> QED BY <2>1
<1>2. v[1] = Means(x)[f]
  BY <1>1 DEF OperandsOf
<1>3. 0 \in Means(x)[n] <=> TrueAt(x, n, v, 0, From(0))
  BY MeansAtInstant
<1> HIDE DEF n, v
<1>4. TrueAt(x, n, v, 0, From(0)) <=> \A t \in From(0) : t \in v[1]
  BY <1>1 DEF TrueAt
<1>5. From(0) = Nat
  BY DEF From
<1> QED BY <1>2, <1>3, <1>4, <1>5 DEF n

\* The root of a fact or a body is itself, and of the others it asks every instant unless all are alike.
LEMMA RootIsClaim ==
  ASSUME NEW c \in Commands, NEW i \in DOMAIN c.conjuncts, NEW n \in Nat, NEW x \in Lassos(c, n)
  PROVE  0 \in Means(x)[Root(c, c.conjuncts[i])] <=> Claims(x, c.conjuncts[i])
<1> DEFINE conjunct == c.conjuncts[i]
<1>1. PICK f \in Formulas : /\ f = conjunct.formula
                            /\ Node("always", <<f>>) \in Formulas
  BY ConjunctsAreFormulas
<1>2. conjunct.from \in {"fact", "command", "bounds", "declared"}
  BY ConjunctsAreFormulas DEF Provenance
<1>3. IsLasso(x) /\ \A t \in Nat : At(x, t) \subseteq c.variable
  BY LassosAreLassos
<1> HIDE DEF conjunct
<1>4. Truth(x, f) = Means(x)[f]
  BY <1>3, WindowIsEnough
<1>5. Window(x, f) \in Nat
  BY <1>3, WindowIsWide
<1>6. Claims(x, conjunct) <=> IF conjunct.from \in {"fact", "command"}
                              THEN 0 \in Means(x)[f]
                              ELSE \A t \in Nat : t \in Means(x)[f]
  <2>1. (\A t \in 0..Window(x, f) : t \in Means(x)[f]) <=> (\A t \in Nat : t \in Means(x)[f])
    BY <1>3, WindowShowsAlways
  <2> QED BY <1>1, <1>4, <2>1 DEF Claims
<1>7. CASE HoldsAtEveryState(c, conjunct)
  <2>1. Root(c, conjunct) = Node("always", <<f>>)
    BY <1>1, <1>7 DEF Root
  <2>2. conjunct.from \notin {"fact", "command"}
    BY <1>7 DEF HoldsAtEveryState
  <2>3. 0 \in Means(x)[Node("always", <<f>>)] <=> \A t \in Nat : t \in Means(x)[f]
    BY <1>1, AlwaysFromTheFirst
  <2> QED BY <1>6, <2>1, <2>2, <2>3 DEF conjunct
<1>8. CASE ~HoldsAtEveryState(c, conjunct)
  <2>1. Root(c, conjunct) = f
    BY <1>1, <1>8 DEF Root
  <2>2. CASE conjunct.from \in {"fact", "command"}
    BY <1>6, <2>1, <2>2 DEF conjunct
  <2>3. CASE conjunct.from \notin {"fact", "command"}
    <3>1. ~IsTemporal(c, f)
      BY <1>1, <1>2, <1>8, <2>3 DEF HoldsAtEveryState
    <3>2. \A t \in Nat : t \in Means(x)[f] <=> 0 \in Means(x)[f]
      <4> SUFFICES ASSUME NEW t \in Nat
                   PROVE  t \in Means(x)[f] <=> 0 \in Means(x)[f]
        OBVIOUS
      <4>1. At(x, t) \subseteq c.variable /\ At(x, 0) \subseteq c.variable
        BY <1>3
      <4> QED BY <3>1, <4>1, RigidIsConstant
    <3> QED BY <1>6, <2>1, <2>3, <3>2 DEF conjunct
  <2> QED BY <2>2, <2>3
<1> QED BY <1>7, <1>8

\* A length is unrolled as deep as the past operators of any root.
LEMMA UnrollsEnough ==
  ASSUME NEW c \in Commands
  PROVE  /\ Roots(c) \subseteq Formulas
         /\ UnrollDepth(c) \in Nat
         /\ \A root \in Roots(c) : PastDepthOf[root] <= UnrollDepth(c)
<1>1. c.conjuncts \in Seq([from : Provenance, formula : Formulas])
  BY CommandsAssumption DEF IsCommand
<1>2. PICK m \in Nat : m = Len(c.conjuncts) /\ DOMAIN c.conjuncts = 1..m
  BY <1>1
<1> DEFINE g == [i \in 1..m |-> PastDepthOf[Root(c, c.conjuncts[i])]]
<1>3. \A i \in 1..m : Root(c, c.conjuncts[i]) \in Formulas /\ g[i] \in Nat
                      /\ g[i] = PastDepthOf[Root(c, c.conjuncts[i])]
  BY <1>2, ConjunctsAreFormulas, DepthIsDefined
<1>4. Roots(c) = {Root(c, c.conjuncts[i]) : i \in 1..m}
  BY <1>2 DEF Roots
<1>5. {PastDepth(root) : root \in Roots(c)} = {g[i] : i \in 1..m}
  BY <1>4 DEF PastDepth
<1> HIDE DEF g
<1>6. /\ Max({0} \cup {g[i] : i \in 1..m}) \in Nat
      /\ \A i \in 1..m : g[i] <= Max({0} \cup {g[j] : j \in 1..m})
  BY <1>3, GreatestOf
<1>7. UnrollDepth(c) = Max({0} \cup {g[i] : i \in 1..m})
  BY <1>5 DEF UnrollDepth
<1>8. UnrollDepth(c) \in Nat /\ \A i \in 1..m : g[i] <= UnrollDepth(c)
  BY <1>6, <1>7
<1> QED BY <1>3, <1>4, <1>8

\* The lassos with one loop target are the contents with it.
LEMMA LassosByLoop ==
  ASSUME NEW c, NEW n \in Nat, NEW l \in 0..n-1
  PROVE  /\ \A content \in Contents(c, n) : /\ WithLoop(content, n, l) \in Lassos(c, n)
                                            /\ WithLoop(content, n, l).loop = l
         /\ \A x \in Lassos(c, n) : x.loop = l => \E content \in Contents(c, n) : x = WithLoop(content, n, l)
BY DEF Lassos, WithLoop

----------------------------------------------------------------------------
(* One branch.                                                             *)

\* The memo remembers what is so of the length being lowered.
BranchInv ==
  pc = "lower" => branch \in 0..k /\ Recalls(shared, Contents(command, k), k)

\* A branch's body has the contents of whose lasso every conjunct is true.
LEMMA BodyIsExact ==
  ASSUME NEW c \in Commands, NEW n \in Nat \ {0}, NEW l \in 0..n-1, NEW memo,
         Recalls(memo, Contents(c, n), n), NEW content \in Contents(c, n)
  PROVE  (\A root \in Roots(c) :
            content \in Lower(root, Line(n, l, UnrollDepth(c)), memo, Contents(c, n))[0])
         <=> \A i \in DOMAIN c.conjuncts : Claims(WithLoop(content, n, l), c.conjuncts[i])
<1> DEFINE x == WithLoop(content, n, l)
           d == UnrollDepth(c)
           contents == Contents(c, n)
<1>1. x \in Lassos(c, n)
  BY LassosByLoop
<1>2. /\ Roots(c) \subseteq Formulas
      /\ d \in Nat
      /\ \A root \in Roots(c) : PastDepthOf[root] <= d
  BY UnrollsEnough
<1> HIDE DEF contents, d
<1>3. PICK size : size = Times(n, l, d)
  OBVIOUS
<1>4. 0 \in 0..size-1
  <2>1. Follows(Line(n, l, d), x, content, n, size, d)
    BY <1>2, <1>3, LineFollows
  <2> QED BY <2>1 DEF Follows
<1>5. ASSUME NEW root \in Roots(c)
      PROVE  content \in Lower(root, Line(n, l, d), memo, contents)[0] <=> 0 \in Means(x)[root]
  <2>1. Lowered(Lower(root, Line(n, l, d), memo, contents), contents, n, l, root, size)
    BY <1>2, <1>3, LowerIsExact DEF contents
  <2>2. Lower(root, Line(n, l, d), memo, contents)[0] = Among(contents, n, l, root, 0)
    BY <1>4, <2>1 DEF Lowered
  <2>3. content \in contents
    BY DEF contents
  <2> QED BY <2>2, <2>3 DEF Among
<1>6. \A i \in DOMAIN c.conjuncts :
        0 \in Means(x)[Root(c, c.conjuncts[i])] <=> Claims(x, c.conjuncts[i])
  <2> HIDE DEF x
  <2> QED BY <1>1, RootIsClaim
<1> HIDE DEF x
<1>7. (\A root \in Roots(c) : content \in Lower(root, Line(n, l, d), memo, contents)[0])
      <=> \A root \in Roots(c) : 0 \in Means(x)[root]
  BY <1>5
<1>8. (\A root \in Roots(c) : 0 \in Means(x)[root])
      <=> \A i \in DOMAIN c.conjuncts : 0 \in Means(x)[Root(c, c.conjuncts[i])]
  BY DEF Roots
<1> QED BY <1>6, <1>7, <1>8 DEF x, d, contents

\* A branch adds the lassos of its loop target.
LEMMA LowersExactly ==
  ASSUME SweepInv, BranchInv, ConjunctsExact, LowersBranch
  PROVE  BranchInv' /\ ConjunctsExact'
<1>1. PICK c, n, l, memo, old :
        /\ c \in Commands /\ n \in Nat \ {0} /\ l \in 0..n-1
        /\ c = command /\ n = k /\ l = branch /\ memo = shared /\ old = goal
        /\ Recalls(memo, Contents(c, n), n)
        /\ old = {x \in Lassos(c, n) : /\ x.loop < l
                                       /\ \A i \in DOMAIN c.conjuncts : Claims(x, c.conjuncts[i])}
  <2>1. command \in Commands /\ k \in Nat \ {0}
    <3>1. command \in Commands /\ k \in Nat /\ k >= command.min
      BY DEF SweepInv, SweepTypeOK
    <3>2. command.min \in Nat \ {0}
      BY <3>1, CommandsAssumption DEF IsCommand
    <3> QED BY <3>1, <3>2
  <2>2. pc = "lower" /\ branch \in 0..k-1
    BY <2>1 DEF LowersBranch, BranchInv
  <2> QED BY <2>1, <2>2 DEF BranchInv, ConjunctsExact
<1> DEFINE line     == Line(n, l, UnrollDepth(c))
           contents == Contents(c, n)
           bodies   == {Lower(root, line, memo, contents)[0] : root \in Roots(c)}
           body     == {content \in contents : \A b \in bodies : content \in b}
           Holds(x) == \A i \in DOMAIN c.conjuncts : Claims(x, c.conjuncts[i])
<1>2. /\ goal' = old \cup {WithLoop(content, n, l) : content \in body}
      /\ shared' = Remembers(Roots(c), line, memo, contents)
      /\ branch' = l + 1 /\ pc' = "lower" /\ command' = c /\ k' = n
  BY <1>1 DEF LowersBranch
<1>3. Recalls(Remembers(Roots(c), line, memo, contents), contents, n)
  BY <1>1, UnrollsEnough, RemembersWhatIsSo
<1>4. BranchInv'
  <2>1. l + 1 \in 0..n
    BY <1>1
  <2> HIDE DEF line
  <2> QED BY <1>2, <1>3, <2>1 DEF BranchInv
<1>5. \A content \in contents : content \in body <=> Holds(WithLoop(content, n, l))
  <2>1. ASSUME NEW content \in contents
        PROVE  content \in body <=> \A root \in Roots(c) : content \in Lower(root, line, memo, contents)[0]
    <3> HIDE DEF line, contents
    <3> QED BY Zenon
  <2>2. ASSUME NEW content \in contents
        PROVE  (\A root \in Roots(c) : content \in Lower(root, line, memo, contents)[0])
               <=> Holds(WithLoop(content, n, l))
    BY <1>1, BodyIsExact
  <2> HIDE DEF body, line, Holds, contents
  <2> QED BY <2>1, <2>2
<1>6. body \subseteq contents
  <2> HIDE DEF bodies, contents
  <2> QED OBVIOUS
<1> HIDE DEF body, Holds
<1>7. ASSUME NEW x \in Lassos(c, n)
      PROVE  x \in goal' <=> x.loop < l + 1 /\ Holds(x)
  <2>1. x.loop \in 0..n-1 /\ l \in 0..n-1
    BY <1>1, LassoFields
  <2>2. CASE x.loop < l
    <3>1. \A content : WithLoop(content, n, l).loop = l
      BY DEF WithLoop
    <3>2. x \in goal' <=> x \in old
      BY <1>2, <2>1, <2>2, <3>1
    <3> QED BY <1>1, <2>1, <2>2, <3>2 DEF Holds
  <2>3. CASE x.loop = l
    <3>1. PICK content \in contents : x = WithLoop(content, n, l)
      BY <1>1, <2>3, LassosByLoop
    <3>2. x \notin old
      BY <1>1, <2>1, <2>3
    <3>3. ASSUME NEW other \in body, x = WithLoop(other, n, l)
          PROVE  Holds(x)
      BY <1>5, <1>6, <3>3
    <3>4. Holds(x) => x \in goal'
      BY <1>2, <1>5, <3>1
    <3> QED BY <1>2, <2>1, <2>3, <3>2, <3>3, <3>4
  <2>4. CASE x.loop > l
    <3>1. \A content : WithLoop(content, n, l).loop = l
      BY DEF WithLoop
    <3> QED BY <1>1, <1>2, <2>1, <2>4, <3>1
  <2> QED BY <2>1, <2>2, <2>3, <2>4
<1>8. goal' \subseteq Lassos(c, n)
  BY <1>1, <1>2, <1>6, LassosByLoop
<1>9. goal' = {x \in Lassos(c, n) : x.loop < l + 1 /\ Holds(x)}
  BY <1>7, <1>8
<1> QED BY <1>2, <1>4, <1>9 DEF ConjunctsExact, Holds

----------------------------------------------------------------------------
(* Every step.                                                             *)

LoweringInv == SweepInv /\ BranchInv /\ LoweringIsExact

\* Nothing is lowered at the start.
LEMMA LoweringStarts == Init => LoweringInv
<1> SUFFICES ASSUME Init PROVE LoweringInv
  OBVIOUS
<1>1. BranchInv
  BY DEF Init, BranchInv
<1> QED BY <1>1, SweepStarts DEF LoweringInv

\* A length starts with nothing lowered and nothing to remember.
LEMMA UnrollsFromNothing ==
  ASSUME SweepInv, Unrolls
  PROVE  BranchInv' /\ ConjunctsExact'
<1>1. branch' = 0 /\ shared' = <<>> /\ goal' = {} /\ pc' = "lower" /\ UNCHANGED <<command, k>>
  BY DEF Unrolls
<1>2. k \in Nat
  BY DEF SweepInv, SweepTypeOK
<1>3. \A contents, n : Recalls(<<>>, contents, n)
  <2>1. DOMAIN <<>> = {}
    OBVIOUS
  <2> QED BY <2>1 DEF Recalls
<1>4. BranchInv'
  BY <1>1, <1>2, <1>3 DEF BranchInv
<1>5. \A x \in Lassos(command, k) : ~(x.loop < 0)
  BY <1>2, LassoFields
<1>6. {x \in Lassos(command, k) : /\ x.loop < 0
                                  /\ \A i \in DOMAIN command.conjuncts : Claims(x, command.conjuncts[i])} = {}
  BY <1>5
<1>7. ConjunctsExact'
  BY <1>1, <1>6 DEF ConjunctsExact
<1> QED BY <1>4, <1>7

\* Each step keeps what is lowered exact.
LEMMA LoweringSteps ==
  ASSUME LoweringInv, [Next]_vars
  PROVE  LoweringInv'
<1> USE DEF LoweringInv
<1>1. SweepInv'
  BY SweepSteps
<1>2. CASE LowersBranch
  <2>1. BranchInv' /\ ConjunctsExact'
    BY <1>2, LowersExactly DEF LoweringIsExact
  <2> QED BY <1>1, <2>1, GoalSteps
<1>3. CASE Unrolls
  <2>1. BranchInv' /\ ConjunctsExact'
    BY <1>3, UnrollsFromNothing
  <2> QED BY <1>1, <2>1, GoalSteps
<1>4. CASE pc' # "lower"
  <2>1. BranchInv' /\ ConjunctsExact'
    BY <1>4 DEF BranchInv, ConjunctsExact
  <2> QED BY <1>1, <2>1, GoalSteps
<1>5. CASE UNCHANGED vars
  <2>1. BranchInv' /\ ConjunctsExact'
    BY <1>5 DEF BranchInv, LoweringIsExact, ConjunctsExact, vars
  <2> QED BY <1>1, <2>1, GoalSteps
<1>6. LowersBranch \/ Unrolls \/ pc' # "lower" \/ UNCHANGED vars
  BY DEF Next, RefusesUnbounded, Exhausts, OverCap, Conjoins, CannotEncode, GivesUp, SolvesUnsat, SolvesSat,
         NextLength, Says, Evaluate
<1> QED BY <1>2, <1>3, <1>4, <1>5, <1>6

\* lower_temporal_command: at every length the solver is given exactly the lassos whose
\* infinite trace satisfies the command: however its past and future operators nest, though
\* the branches share what looks at one state only, and though the facts about variable
\* hierarchies are said of states.
THEOREM GoalIsExact == Spec => []LoweringIsExact
<1>1. LoweringInv /\ [Next]_vars => LoweringInv'
  BY LoweringSteps
<1>2. LoweringInv => LoweringIsExact
  BY DEF LoweringInv
<1> QED BY <1>1, <1>2, LoweringStarts, PTL DEF Spec

\* solve_temporal_command answers about the whole of its range: Unsat says that no lasso of
\* a length in it satisfies the command, Sat gives one of the first length that has any,
\* with the loop target that the solver chose; limits, errors and an exhausted budget are
\* never taken for either.
THEOREM SweepIsExact == Spec => []VerdictIsExact
<1>1. LoweringInv /\ [Next]_vars => LoweringInv'
  BY LoweringSteps
<1>2. LoweringInv => VerdictIsExact
  BY VerdictFollows DEF LoweringInv
<1> QED BY <1>1, <1>2, LoweringStarts, PTL DEF Spec

----------------------------------------------------------------------------
(* The evaluator.                                                          *)

\* What repeats after a pass repeats after any number of passes.
LEMMA PassesRepeat ==
  ASSUME NEW p \in Nat \ {0}, NEW m \in Nat, NEW S, Repeats(p, m, S), NEW a \in Nat, a >= m, NEW j \in Nat
  PROVE  a + j * p \in S <=> a \in S
<1> DEFINE bad == {i \in Nat : ~(a + i * p \in S <=> a \in S)}
<1>1. bad = {}
  <2>1. SUFFICES ASSUME bad # {} PROVE FALSE
    OBVIOUS
  <2>2. PICK i \in bad : \A o \in bad : i <= o
    <3>1. bad \in SUBSET Nat
      OBVIOUS
    <3> HIDE DEF bad
    <3> QED BY <2>1, <3>1, LeastNumber
  <2>3. CASE i = 0
    <3>1. a + 0 * p = a
      BY SMT
    <3> QED BY <2>2, <2>3, <3>1
  <2>4. CASE i # 0
    <3>1. PICK b \in Nat : b = i - 1
      BY <2>2, <2>4
    <3>2. b \notin bad
      <4>1. ~(i <= b)
        BY <2>2, <3>1
      <4> HIDE DEF bad
      <4> QED BY <2>2, <4>1
    <3>3. PICK c \in Nat : c = b * p
      BY SMT
    <3>4. a + i * p = (a + c) + p
      <4>1. i = b + 1
        BY <2>2, <3>1
      <4>2. i * p = c + p
        BY <3>3, <4>1, SMT
      <4> QED BY <4>2
    <3>5. a + c >= m /\ a + c \in Nat
      OBVIOUS
    <3>6. (a + c) + p \in S <=> a + c \in S
      BY <3>5 DEF Repeats
    <3> QED BY <2>2, <3>1, <3>2, <3>3, <3>4, <3>6
  <2> QED BY <2>3, <2>4
<1> QED BY <1>1

\* The logical time of an instant is as good as the instant.
LEMMA LogicalTimeIsAsGood ==
  ASSUME NEW n \in Nat \ {0}, NEW l \in 0..n-1, NEW d \in Nat, NEW S,
         Repeats(n - l, l + d * (n - l), S), NEW i \in Nat
  PROVE  LogicalTime(n, l, d, i) \in S <=> i \in S
<1>1. PICK p \in Nat \ {0} : p = n - l
  OBVIOUS
<1>2. PICK e \in Nat : e = d * p
  BY SMT
<1>3. CASE i < n
  BY <1>3 DEF LogicalTime
<1>4. CASE ~(i < n)
  <2>1. PICK a \in Nat : a = i - n
    BY <1>4
  <2>2. PICK within, q : /\ within \in 0..p-1 /\ q \in Nat /\ a = q * p + within
                         /\ within = a % p /\ q = a \div p
    BY DivisionOf
  <2>8. within \in 0..p-1 /\ q \in Nat
    BY <2>2
  <2>3. PICK b \in Nat : b = q * p
    BY <2>2, SMT
  <2>4. i = n + b + within
    BY <2>1, <2>2, <2>3
  <2>5. CASE d = 0
    <3>1. LogicalTime(n, l, d, i) = l + within
      BY <1>1, <1>4, <2>1, <2>2, <2>5 DEF LogicalTime
    <3>2. e = 0
      BY <1>2, <2>5
    <3>8. PICK j \in Nat : j = q + 1
      BY <2>8
    <3>3. PICK c : c = j * p /\ c = b + p
      <4>1. j * p = b + p
        BY <2>3, <2>8, <3>8, SMT
      <4> QED BY <4>1
    <3>7. j \in Nat /\ c = b + p
      BY <3>3
    <3>4. (l + within) + c = i /\ l + within \in Nat /\ l + within >= l
      BY <1>1, <2>4, <2>8, <3>7
    <3>5. Repeats(p, l, S)
      <4>1. l + d * (n - l) = l
        BY <1>1, <1>2, <3>2
      <4> QED BY <1>1, <4>1
    <3>6. (l + within) + j * p \in S <=> l + within \in S
      BY <3>4, <3>5, <3>7, PassesRepeat
    <3> QED BY <3>1, <3>3, <3>4, <3>6
  <2>6. CASE d # 0 /\ q + 1 < d
    <3>1. LogicalTime(n, l, d, i) = n + ((q + 1) - 1) * p + within
      BY <1>1, <1>4, <2>1, <2>2, <2>6 DEF LogicalTime
    <3>2. ((q + 1) - 1) * p = b
      <4>1. (q + 1) - 1 = q
        BY <2>2
      <4> QED BY <2>3, <4>1
    <3> QED BY <2>2, <2>4, <3>1, <3>2
  <2>7. CASE d # 0 /\ ~(q + 1 < d)
    <3>1. LogicalTime(n, l, d, i) = n + (d - 1) * p + within
      BY <1>1, <1>4, <2>1, <2>2, <2>7 DEF LogicalTime
    <3>2. PICK g : g = (d - 1) * p /\ g = e - p
      <4>1. (d - 1) * p = e - p
        BY <1>2, SMT
      <4> QED BY <4>1
    <3>9. LogicalTime(n, l, d, i) = n + g + within /\ g = e - p
      BY <3>1, <3>2
    <3>3. LogicalTime(n, l, d, i) = (l + e) + within
      BY <1>1, <2>8, <3>9
    <3>4. PICK j \in Nat : j = (q + 1) - d
      BY <2>7, <2>8
    <3>5. PICK h : h = j * p /\ h = (b + p) - e
      <4>1. j * p = (b + p) - e
        BY <1>2, <2>3, <2>8, <3>4, SMT
      <4> QED BY <4>1
    <3>10. h = (b + p) - e
      BY <3>5
    <3>6. ((l + e) + within) + h = i /\ (l + e) + within \in Nat /\ (l + e) + within >= l + e /\ l + e \in Nat
      BY <1>1, <2>4, <2>8, <3>10
    <3>7. Repeats(p, l + e, S)
      BY <1>1, <1>2
    <3>8. ((l + e) + within) + j * p \in S <=> (l + e) + within \in S
      BY <3>6, <3>7, PassesRepeat
    <3> QED BY <3>3, <3>5, <3>6, <3>8
  <2> QED BY <2>5, <2>6, <2>7
<1> QED BY <1>3, <1>4

\* The evaluator's answer.
Answers(x, root, n, d, i) == Lower(root, Line(n, x.loop, d), <<>>, {x})[LogicalTime(n, x.loop, d, i)] # {}

\* It is about the instant asked for.
LEMMA AnswersAboutInstant ==
  ASSUME NEW c, NEW n \in Nat \ {0}, NEW x \in Lassos(c, n), NEW root \in Formulas, NEW i \in Nat
  PROVE  Answers(x, root, n, PastDepth(root), i) <=> i \in Truth(x, root)
<1>1. /\ x.k = n /\ x.loop \in 0..n-1
      /\ x = [k |-> n, states |-> x.states, loop |-> x.loop, static |-> x.static]
  BY LassoFields
<1>2. PICK l \in 0..n-1 : l = x.loop
  BY <1>1
<1>3. PICK d \in Nat : d = PastDepthOf[root]
  BY DepthIsDefined
<1>4. PICK size : size = Times(n, l, d)
  OBVIOUS
<1>5. IsLasso(x)
  BY LassosAreLassos
<1>6. WithLoop(x, n, l) = x
  BY <1>1, <1>2 DEF WithLoop
<1>7. Recalls(<<>>, {x}, n)
  <2>1. DOMAIN <<>> = {}
    OBVIOUS
  <2> QED BY <2>1 DEF Recalls
<1>8. Lowered(Lower(root, Line(n, l, d), <<>>, {x}), {x}, n, l, root, size)
  BY <1>3, <1>4, <1>7, DepthIsDefined, LowerIsExact
<1> DEFINE time == LogicalTime(n, l, d, i)
<1>9. time \in 0..size-1
  <2>1. Follows(Line(n, l, d), x, x, n, size, d)
    BY <1>4, <1>6, LineFollows
  <2>2. DOMAIN Line(n, l, d).states = 0..size-1
    BY <2>1 DEF Follows
  <2>3. time \in DOMAIN Timeline(n, l, d)
    <3>1. PICK s : s = [k |-> n, loop |-> l]
      OBVIOUS
    <3>2. s.k = n /\ s.loop = l /\ i \in Int /\ ~(i < 0)
      BY <3>1
    <3> QED BY <3>2, LogicalTimeIsAtState
  <2> HIDE DEF time
  <2> QED BY <2>2, <2>3 DEF Line
<1>10. time \in Means(x)[root] <=> i \in Means(x)[root]
  <2>1. Repeats(Pass(x), Settled(x, d), Means(x)[root])
    BY <1>3, <1>5, MeansRepeats
  <2>2. Repeats(n - l, l + d * (n - l), Means(x)[root])
    BY <1>1, <1>2, <2>1 DEF Pass, Settled
  <2> QED BY <2>2, LogicalTimeIsAsGood
<1> HIDE DEF time
<1>11. Lower(root, Line(n, l, d), <<>>, {x})[time] # {} <=> time \in Means(x)[root]
  <2>1. Lower(root, Line(n, l, d), <<>>, {x})[time] = Among({x}, n, l, root, time)
    BY <1>8, <1>9 DEF Lowered
  <2>2. Among({x}, n, l, root, time) # {} <=> time \in Means(x)[root]
    BY <1>6 DEF Among
  <2> QED BY <2>1, <2>2
<1>12. Truth(x, root) = Means(x)[root]
  BY <1>5, WindowIsEnough
<1> QED BY <1>2, <1>3, <1>10, <1>11, <1>12 DEF time, PastDepth, Answers

EvaluatorInv == EvaluatorAgrees /\ (evaluated # None => pc = "done")

\* The answer to one question.
LEMMA EvaluatesExactly ==
  ASSUME SweepInv, NEW fragment \in command.fragments, NEW index \in Indices, Evaluate(fragment, index)
  PROVE  EvaluatorAgrees'
<1>1. PICK n, x : /\ n = k /\ x = verdict.trace
                  /\ n \in Nat \ {0} /\ x \in Lassos(command, n)
  <2>1. command \in Commands /\ k \in Nat /\ k >= command.min
    BY DEF SweepInv, SweepTypeOK
  <2>2. command.min \in Nat \ {0}
    BY <2>1, CommandsAssumption DEF IsCommand
  <2>3. verdict.trace \in Lassos(command, k)
    BY DEF SweepInv, AnswerHolds, Evaluate
  <2> QED BY <2>1, <2>2, <2>3
<1>2. fragment \in Formulas
  BY CommandsAssumption DEF SweepInv, SweepTypeOK, IsCommand
<1>3. index \in Int /\ Clamped(index) \in Nat
  BY IndicesAssumption DEF Clamped
<1>4. PICK d \in Nat : d = PastDepth(fragment)
  BY <1>2, DepthIsDefined DEF PastDepth
<1>5. PICK time : time = LogicalTime(n, x.loop, d, Clamped(index))
  OBVIOUS
<1>6. verdict' = verdict
  BY DEF Evaluate
<1>7. evaluated' = [fragment |-> fragment, index |-> index, state |-> Line(n, x.loop, d).states[time],
                    value |-> Answers(x, fragment, n, d, Clamped(index))]
  BY <1>1, <1>4, <1>5 DEF Evaluate, FragmentTime, Answers
<1>8. Answers(x, fragment, n, d, Clamped(index)) <=> Clamped(index) \in Truth(x, fragment)
  BY <1>1, <1>2, <1>3, <1>4, AnswersAboutInstant
<1>9. Line(n, x.loop, d).states[time] = NormalizeState(x, index)
  <2>1. x.k = n /\ x.loop \in 0..n-1
    BY <1>1, LassoFields
  <2>2. Timeline(n, x.loop, d)[time] = NormalizeState(x, index)
    BY <1>1, <1>3, <1>5, <2>1, LogicalTimeIsAtState DEF Clamped
  <2> QED BY <2>2 DEF Line
<1>10. /\ evaluated'.value = (Clamped(evaluated'.index) \in Truth(verdict'.trace, evaluated'.fragment))
       /\ evaluated'.state = NormalizeState(verdict'.trace, evaluated'.index)
  <2>1. PICK value : value = Answers(x, fragment, n, d, Clamped(index))
    OBVIOUS
  <2>2. evaluated' = [fragment |-> fragment, index |-> index, state |-> Line(n, x.loop, d).states[time],
                      value |-> value]
    BY <1>7, <2>1, Zenon
  <2>3. evaluated'.value = value /\ evaluated'.index = index /\ evaluated'.fragment = fragment
        /\ evaluated'.state = Line(n, x.loop, d).states[time]
    BY <2>2
  <2>4. value = (Clamped(index) \in Truth(x, fragment))
    <3>1. Answers(x, fragment, n, d, Clamped(index)) = (Clamped(index) \in Truth(x, fragment))
      <4>1. PICK told : told = Lower(fragment, Line(n, x.loop, d), <<>>, {x})[LogicalTime(n, x.loop, d, Clamped(index))]
        OBVIOUS
      <4>2. Answers(x, fragment, n, d, Clamped(index)) = (told # {})
        BY <4>1, Zenon DEF Answers
      <4>3. PICK T : T = Truth(x, fragment)
        OBVIOUS
      <4>4. told # {} <=> Clamped(index) \in T
        BY <1>8, <4>1, <4>3, Zenon DEF Answers
      <4>5. (told # {}) = (Clamped(index) \in T)
        BY <4>4
      <4> QED BY <4>2, <4>3, <4>5
    <3> QED BY <2>1, <3>1, Zenon
  <2>5. evaluated'.value = (Clamped(evaluated'.index) \in Truth(verdict'.trace, evaluated'.fragment))
    BY <1>1, <1>6, <2>3, <2>4, Zenon
  <2>6. evaluated'.state = NormalizeState(verdict'.trace, evaluated'.index)
    BY <1>1, <1>6, <1>9, <2>3, Zenon
  <2> QED BY <2>5, <2>6
<1> QED BY <1>10 DEF EvaluatorAgrees

\* No other step touches an answer.
LEMMA EvaluatorSteps ==
  ASSUME SweepInv, EvaluatorInv, [Next]_vars
  PROVE  EvaluatorInv'
<1> USE DEF EvaluatorInv
<1>1. CASE \E n \in command.fragments, index \in Indices : Evaluate(n, index)
  <2>1. PICK n \in command.fragments, index \in Indices : Evaluate(n, index)
    BY <1>1
  <2>2. pc' = "done"
    BY <2>1 DEF Evaluate
  <2> QED BY <2>1, <2>2, EvaluatesExactly
<1>2. CASE UNCHANGED vars
  BY <1>2 DEF EvaluatorAgrees, vars
<1>3. CASE pc # "done" /\ UNCHANGED evaluated
  <2>1. evaluated' = None
    BY <1>3
  <2> QED BY <2>1 DEF EvaluatorAgrees
<1>4. \/ \E n \in command.fragments, index \in Indices : Evaluate(n, index)
      \/ UNCHANGED vars
      \/ pc # "done" /\ UNCHANGED evaluated
  BY DEF Next, RefusesUnbounded, Exhausts, OverCap, Unrolls, LowersBranch, Conjoins, CannotEncode, GivesUp,
         SolvesUnsat, SolvesSat, InRange, Encodes, NextLength, Says
<1> QED BY <1>1, <1>2, <1>3, <1>4

\* eliminate_fragment_at_state: on a trace found, a fragment has the value at an instant
\* that it has over the infinite trace, on whichever pass through the loop the instant
\* lies, and is read at the state that the wrap rule names.
THEOREM EvaluatorIsExact == Spec => []EvaluatorAgrees
<1>1. LoweringInv /\ EvaluatorInv /\ [Next]_vars => LoweringInv' /\ EvaluatorInv'
  BY LoweringSteps, EvaluatorSteps DEF LoweringInv
<1>2. Init => EvaluatorInv
  BY DEF Init, EvaluatorInv, EvaluatorAgrees
<1>3. EvaluatorInv => EvaluatorAgrees
  BY DEF EvaluatorInv
<1> QED BY <1>1, <1>2, <1>3, LoweringStarts, PTL DEF Spec
=============================================================================
