------------------------ MODULE StaticSessionProofs ------------------------
(***************************************************************************)
(* The instance enumerator is an exact enumeration, and the session of a   *)
(* static command shows every instance once: for every bounds, goal, lex-  *)
(* leader predicate, budget, backend and set of instances that cannot be   *)
(* rendered.                                                               *)
(***************************************************************************)
EXTENDS StaticSession, FiniteSetTheorems, TLAPS

----------------------------------------------------------------------------
(* The enumerator (InstanceEnum).                                          *)

USE DEF Assignments, Says

\* What a translation encodes is over its own floating tuples.
LEMMA EncodedOver ==
  ASSUME NEW g \in Goals
  PROVE  /\ Encoded(g) \subseteq SUBSET g.floating
         /\ Space(g) \subseteq SUBSET g.floating
         /\ SUBSET g.floating \subseteq Assignments
         /\ TriviallySat(g) => TrivialInstance \notin Encoded(g)
BY GoalAssumption
   DEF Goal, Encoded, Residual, Space, TriviallySat, TrivialInstance

\* Every assignment is the projection of some model.
LEMMA HasModel ==
  ASSUME NEW a \in Assignments
  PROVE  \E m \in Model : m.tuples = a
<1>1. PICK x \in Auxiliary : TRUE
  BY AuxiliaryAssumption
<1>2. [tuples |-> a, aux |-> x] \in Model
  BY <1>1 DEF Model
<1> QED
  BY <1>2

\* Counting one more, new assignment.
LEMMA CountsOneMore ==
  ASSUME CountsYielded, NEW a \in Assignments, a \notin yielded, Yields(a)
  PROVE  CountsYielded'
BY FS_AddElement DEF CountsYielded, Yields

LEMMA EnumTypeInit == Init => TypeOK
<1> SUFFICES ASSUME Init PROVE TypeOK
  OBVIOUS
<1>1. budgetRemaining \in Nat \cup {None}
  BY BudgetAssumption DEF Init
<1>2. TriviallySat(goal) \in BOOLEAN
  BY GoalAssumption DEF TriviallySat, Goal, Init
<1>3. reply \in Reply
  BY DEF Init, Reply
<1> QED
  BY <1>1, <1>2, <1>3 DEF Init, TypeOK

LEMMA EnumTypeNext == TypeOK /\ [Next]_vars => TypeOK'
<1> SUFFICES ASSUME TypeOK, [Next]_vars PROVE TypeOK'
  OBVIOUS
<1>1. CASE NextAfterEnd
  BY <1>1 DEF TypeOK, NextAfterEnd, Called, Reply
<1>2. CASE NextTrivial
  <2>1. TrivialInstance \in Assignments
    BY DEF TrivialInstance
  <2>2. reply' \in Reply /\ yielded' \subseteq Assignments /\ count' \in Nat
    BY <1>2, <2>1 DEF NextTrivial, Yields, TypeOK, Reply
  <2> QED
    BY <1>2, <2>2 DEF TypeOK, NextTrivial, Called
<1>3. CASE StopsShort
  BY <1>3 DEF TypeOK, StopsShort, Solving, Called, Reply
<1>4. CASE Unsat
  BY <1>4 DEF TypeOK, Unsat, Solving, Called, Charged, Reply
<1>5. ASSUME NEW m \in models, Sat(m)
      PROVE  TypeOK'
  <2>1. m.tuples \in Assignments
    BY DEF TypeOK, Model
  <2>2. models' \subseteq Model /\ done' \in BOOLEAN
    BY <1>5 DEF Sat, Block, TypeOK
  <2>3. reply' \in Reply /\ yielded' \subseteq Assignments /\ count' \in Nat
    BY <1>5, <2>1 DEF Sat, Yields, Decode, Reply, TypeOK
  <2>4. budgetRemaining' \in Nat \cup {None}
    BY <1>5 DEF Sat, Charged, TypeOK
  <2> QED
    BY <1>5, <2>2, <2>3, <2>4 DEF Sat, Solving, Called, TypeOK
<1>6. CASE UNCHANGED vars
  BY <1>6 DEF TypeOK, vars, solver
<1> QED
  BY <1>1, <1>2, <1>3, <1>4, <1>5, <1>6 DEF Next

LEMMA EnumInvInit == Init => EnumInv
<1> SUFFICES ASSUME Init PROVE EnumInv
  OBVIOUS
<1>1. ModelsLeft
  BY DEF Init, ModelsLeft
<1>2. TrivialFirst
  BY DEF Init, TrivialFirst
<1>3. EndsWhole
  BY DEF Init, EndsWhole
<1>4. CountsYielded
  BY FS_EmptySet DEF Init, CountsYielded
<1> QED
  BY <1>1, <1>2, <1>3, <1>4 DEF EnumInv

\* When the solver finds the clauses unsatisfiable, nothing is left to yield.
LEMMA UnsatIsWhole ==
  ASSUME TypeOK, EnumInv, Unsat
  PROVE  yielded = Space(goal)
<1>1. goal \in Goals /\ ~done /\ ~pendingTrivial /\ models = {}
  BY DEF TypeOK, Unsat, Solving
<1>2. Encoded(goal) \subseteq yielded
  <2> SUFFICES ASSUME NEW a \in Encoded(goal), a \notin yielded
               PROVE  FALSE
    OBVIOUS
  <2>1. a \in Assignments
    BY <1>1, EncodedOver
  <2>2. PICK m \in Model : m.tuples = a
    BY <2>1, HasModel
  <2> QED
    BY <1>1, <2>2 DEF EnumInv, ModelsLeft
<1>3. TriviallySat(goal) => TrivialInstance \in yielded
  BY <1>1 DEF EnumInv, TrivialFirst
<1>4. yielded \subseteq Space(goal)
  BY DEF EnumInv, EndsWhole
<1> QED
  BY <1>2, <1>3, <1>4 DEF Space

LEMMA EnumInvNext == TypeOK /\ EnumInv /\ [Next]_vars => EnumInv'
<1> SUFFICES ASSUME TypeOK, EnumInv, [Next]_vars PROVE EnumInv'
  OBVIOUS
<1>0. goal \in Goals
  BY DEF TypeOK
<1>1. CASE NextAfterEnd
  BY <1>1
     DEF NextAfterEnd, Called, EnumInv, ModelsLeft, TrivialFirst, EndsWhole, CountsYielded
<1>2. CASE NextTrivial
  <2>1. /\ yielded = {} /\ yielded' = {TrivialInstance} /\ UNCHANGED <<goal, models, done>>
        /\ TriviallySat(goal) /\ ~done /\ pendingTrivial' = FALSE /\ UNCHANGED exhausted
    BY <1>2 DEF NextTrivial, Called, Yields, EnumInv, TrivialFirst
  <2>2. ModelsLeft'
    BY <1>0, <2>1, EncodedOver DEF EnumInv, ModelsLeft
  <2>3. TrivialFirst'
    BY <2>1 DEF TrivialFirst
  <2>4. ~exhausted
    BY <2>1 DEF EnumInv, EndsWhole
  <2>5. reply'.kind # "End"
    BY <1>2 DEF NextTrivial, Yields
  <2>6. EndsWhole'
    BY <2>1, <2>4, <2>5 DEF EndsWhole, Space
  <2>7. CountsYielded'
    <3>1. CountsYielded /\ Yields(TrivialInstance) /\ TrivialInstance \in Assignments
      BY <1>2 DEF NextTrivial, EnumInv, TrivialInstance
    <3> QED
      BY <2>1, <3>1, CountsOneMore
  <2> QED
    BY <2>2, <2>3, <2>6, <2>7 DEF EnumInv
<1>3. CASE StopsShort
  BY <1>3
     DEF StopsShort, Solving, Called, EnumInv, ModelsLeft, TrivialFirst, EndsWhole,
         CountsYielded
<1>4. CASE Unsat
  <2>1. yielded = Space(goal)
    BY <1>4, UnsatIsWhole
  <2> QED
    BY <1>4, <2>1
       DEF Unsat, Solving, Called, EnumInv, ModelsLeft, TrivialFirst, EndsWhole,
           CountsYielded
<1>5. ASSUME NEW m \in models, Sat(m)
      PROVE  EnumInv'
  <2> DEFINE a == m.tuples
  <2>1. /\ ~done /\ ~pendingTrivial /\ ~pendingTrivial' /\ UNCHANGED <<goal, exhausted>>
        /\ yielded' = yielded \cup {a} /\ reply'.kind = "Instance"
    BY <1>5 DEF Sat, Solving, Called, Yields, Decode
  <2>2. m \in Model /\ a \in Encoded(goal) /\ a \notin yielded
    BY <2>1 DEF EnumInv, ModelsLeft
  <2>3. ~exhausted
    BY <2>1 DEF EnumInv, EndsWhole
  <2>4. TrivialFirst'
    BY <2>1 DEF EnumInv, TrivialFirst
  <2>5. yielded' \subseteq Space(goal)'
    BY <2>1, <2>2 DEF EnumInv, EndsWhole, Space
  <2>6. CountsYielded'
    <3>1. CountsYielded /\ Yields(a) /\ a \in Assignments
      BY <1>5, <2>2 DEF Sat, Decode, EnumInv, Model
    <3> QED
      BY <2>2, <3>1, CountsOneMore
  <2>7. CASE goal.floating = {}
    <3>1. done'
      BY <1>5, <2>7 DEF Sat, Block
    <3>2. Space(goal) \subseteq {{}} /\ Encoded(goal) \subseteq {{}}
      BY <1>0, <2>7, EncodedOver
    <3>3. yielded' = Space(goal)'
      BY <2>1, <2>2, <2>5, <3>2
    <3> QED
      BY <2>1, <2>3, <2>4, <2>5, <2>6, <3>1, <3>3 DEF EnumInv, ModelsLeft, EndsWhole
  <2>8. CASE goal.floating # {}
    <3>1. models' = models \ Projection(m) /\ done' = done
      BY <1>5, <2>8 DEF Sat, Block
    <3>2. ModelsLeft'
      BY <2>1, <3>1 DEF EnumInv, ModelsLeft, Projection
    <3>3. EndsWhole'
      BY <2>1, <2>3, <2>5, <3>1 DEF EndsWhole
    <3> QED
      BY <2>4, <2>6, <3>2, <3>3 DEF EnumInv
  <2> QED
    BY <2>7, <2>8
<1>6. CASE UNCHANGED vars
  BY <1>6 DEF vars, solver, EnumInv, ModelsLeft, TrivialFirst, EndsWhole, CountsYielded
<1> QED
  BY <1>1, <1>2, <1>3, <1>4, <1>5, <1>6 DEF Next

-----------------------------------------------------------------------------

\* The state stays well typed, and the solver's clauses, the owed trivial instance
\* and the end flags stay in step with what was yielded.
THEOREM EnumCorrect == Spec => [](TypeOK /\ EnumInv)
<1>1. Init => TypeOK /\ EnumInv
  BY EnumTypeInit, EnumInvInit
<1>2. TypeOK /\ EnumInv /\ [Next]_vars => (TypeOK /\ EnumInv)'
  BY EnumTypeNext, EnumInvNext
<1> QED
  BY <1>1, <1>2, PTL DEF Spec

\* A count that ended without exhausting its budget is the number of instances.
THEOREM CountIsExact == Spec => []Exact
<1>1. EnumInv => Exact
  BY DEF EnumInv, EndsWhole, CountsYielded, Exact
<1> QED
  BY <1>1, EnumCorrect, PTL

\* What an instance-yielding step yields is new and in the space.
LEMMA YieldsFresh ==
  ASSUME TypeOK, EnumInv, Next, reply'.kind = "Instance"
  PROVE  /\ reply'.instance \in Space(goal) \ yielded
         /\ yielded' = yielded \cup {reply'.instance} /\ count' = count + 1
         /\ ~exhausted /\ ~exhausted'
         /\ reply.kind # "End"
<1>1. ~NextAfterEnd /\ ~StopsShort /\ ~Unsat
  BY DEF NextAfterEnd, StopsShort, Unsat
<1>2. CASE NextTrivial
  <2>1. ~done /\ yielded = {} /\ TriviallySat(goal)
    BY <1>2 DEF NextTrivial, EnumInv, TrivialFirst
  <2>2. reply'.instance = TrivialInstance /\ yielded' = yielded \cup {TrivialInstance}
        /\ count' = count + 1 /\ UNCHANGED exhausted
    BY <1>2 DEF NextTrivial, Yields
  <2> QED
    BY <2>1, <2>2 DEF EnumInv, EndsWhole, Space
<1>3. ASSUME NEW m \in models, Sat(m)
      PROVE  /\ reply'.instance \in Space(goal) \ yielded
             /\ yielded' = yielded \cup {reply'.instance} /\ count' = count + 1
             /\ ~exhausted /\ ~exhausted'
             /\ reply.kind # "End"
  <2>1. ~done /\ reply'.instance = m.tuples /\ yielded' = yielded \cup {m.tuples}
        /\ count' = count + 1 /\ UNCHANGED exhausted
    BY <1>3 DEF Sat, Solving, Yields, Decode
  <2>2. m.tuples \in Encoded(goal) /\ m.tuples \notin yielded
    BY <2>1 DEF EnumInv, ModelsLeft
  <2> QED
    BY <2>1, <2>2 DEF EnumInv, EndsWhole, Space
<1> QED
  BY <1>1, <1>2, <1>3 DEF Next

\* No instance is yielded twice.
THEOREM NeverTwice == Spec => Distinct
<1>1. TypeOK /\ EnumInv /\ [Next]_vars
      => [reply'.kind = "Instance" => reply'.instance \notin yielded]_vars
  BY YieldsFresh
<1> QED
  BY <1>1, EnumCorrect, PTL DEF Spec, Distinct

\* A step that yields nothing leaves the answers alone.
LEMMA QuietSteps ==
  ASSUME TypeOK, EnumInv, Next, reply'.kind # "Instance"
  PROVE  /\ UNCHANGED <<yielded, count>>
         /\ NextAfterEnd \/ StopsShort \/ Unsat
BY DEF Next, NextAfterEnd, StopsShort, Unsat, NextTrivial, Sat, Yields

LEMMA StepsRefine == TypeOK /\ EnumInv /\ EnumInv' /\ [Next]_vars
                     => [E!EnumerationNext]_(E!enumeration)
<1> USE DEF E!enumeration, E!EnumerationNext
<1> SUFFICES ASSUME TypeOK, EnumInv, EnumInv', [Next]_vars
             PROVE  [E!EnumerationNext]_(E!enumeration)
  OBVIOUS
<1>1. CASE UNCHANGED vars
  BY <1>1 DEF vars, solver, Said
<1>2. CASE Next /\ reply'.kind = "Instance"
  <2> DEFINE a == reply'.instance
  <2>1. /\ a \in Space(goal) \ yielded
        /\ yielded' = yielded \cup {a} /\ count' = count + 1
        /\ ~exhausted /\ ~exhausted'
        /\ reply.kind # "End"
    BY <1>2, YieldsFresh
  <2>2. goal' = goal
    BY <1>2 DEF Next, NextAfterEnd, NextTrivial, StopsShort, Unsat, Sat, Solving, Called
  <2>3. Said = "more" /\ Said' = "more"
    BY <1>2, <2>1 DEF Said
  <2>4. a \in Assignments
    BY <2>1, EncodedOver DEF TypeOK
  <2>5. E!Give(a)
    BY <2>1, <2>2, <2>3 DEF E!Give
  <2> QED
    BY <2>4, <2>5
<1>3. CASE Next /\ reply'.kind # "Instance"
  <2>1. UNCHANGED <<yielded, count>> /\ (NextAfterEnd \/ StopsShort \/ Unsat)
    BY <1>3, QuietSteps
  <2>2. goal' = goal /\ Space(goal)' = Space(goal)
    BY <2>1 DEF NextAfterEnd, StopsShort, Unsat, Solving, Called
  <2>3. CASE StopsShort
    <3>1. Said = "more" /\ Said' = "truncated"
      BY <2>3 DEF StopsShort, Solving, EnumInv, EndsWhole, Said
    <3> QED
      BY <2>1, <2>2, <3>1 DEF E!Truncate
  <2>4. CASE Unsat
    <3>1. Said = "more" /\ Said' = "complete"
      BY <2>4 DEF Unsat, Solving, EnumInv, EndsWhole, Said
    <3>2. yielded = Space(goal)
      BY <2>4, UnsatIsWhole
    <3> QED
      BY <2>1, <2>2, <3>1, <3>2 DEF E!Complete
  <2>5. CASE NextAfterEnd
    <3>1. done /\ UNCHANGED <<done, exhausted>> /\ reply'.kind = "End"
      BY <2>5 DEF NextAfterEnd
    <3>2. CASE exhausted \/ reply.kind = "End"
      BY <2>1, <2>2, <3>1, <3>2 DEF Said
    <3>3. CASE ~exhausted /\ reply.kind # "End"
      <4>1. yielded = Space(goal) /\ Said = "more" /\ Said' = "complete"
        BY <3>1, <3>3 DEF EnumInv, EndsWhole, Said
      <4> QED
        BY <2>1, <2>2, <4>1 DEF E!Complete
    <3> QED
      BY <3>2, <3>3
  <2> QED
    BY <2>1, <2>3, <2>4, <2>5
<1> QED
  BY <1>1, <1>2, <1>3

\* The enumerator implements the abstract enumeration: every instance of the space
\* once, then complete or truncated, and nothing after that.
THEOREM Implements == Spec => IsEnumeration
<1>1. Init => E!EnumerationInit
  <2> SUFFICES ASSUME Init PROVE E!EnumerationInit
    OBVIOUS
  <2>1. Space(goal) \subseteq Assignments
    BY EncodedOver DEF Init
  <2>2. Said = "more"
    BY DEF Init, Said
  <2> QED
    BY <2>1, <2>2 DEF E!EnumerationInit, Init
<1>2. TypeOK /\ EnumInv /\ (TypeOK /\ EnumInv)' /\ [Next]_vars
      => [E!EnumerationNext]_(E!enumeration)
  BY StepsRefine
<1> QED
  BY <1>1, <1>2, EnumCorrect, PTL DEF Spec, IsEnumeration, E!EnumerationSpec

----------------------------------------------------------------------------
(* The session composed with it.                                           *)

\* A click makes a call of the enumerator, or none.
LEMMA StaticSteps == [SessionNext]_sessionVars => [Next]_vars
BY DEF SessionNext, Launch, Click, ClickUnknown, ClickWhenOver, ClickEnds, ClickNext, Counts,
       sessionVars

\* The session's enumerator is InstanceEnum's: a call per click, and no other.
THEOREM SessionEnumerates == SessionSpec => Spec
<1>1. SessionInit => Init
  BY DEF SessionInit
<1> QED
  BY <1>1, StaticSteps, PTL DEF SessionSpec, Spec

LEMMA ScreenInit == SessionInit => ScreenInv
BY DEF SessionInit, Init, ScreenInv

\* An instance of the enumerator goes on screen if it can be rendered.
LEMMA PutOrSkipped ==
  ASSUME Next, TypeOK, EnumInv, reply'.kind = "Instance"
  PROVE  /\ yielded' = yielded \cup {reply'.instance}
         /\ count' = count + 1
BY YieldsFresh

LEMMA ScreenNext ==
  TypeOK /\ EnumInv /\ EnumInv' /\ ScreenInv /\ [SessionNext]_sessionVars => ScreenInv'
<1> SUFFICES ASSUME TypeOK, EnumInv, EnumInv', ScreenInv, [SessionNext]_sessionVars
             PROVE  ScreenInv'
  OBVIOUS
<1>1. CASE Launch
  <2>1. phase = "solving" /\ yielded = {} /\ seen = {} /\ minted = 0 /\ count = 0 /\ ~over /\ Next
        /\ UNCHANGED <<minted, over>>
    BY <1>1, FS_EmptySet DEF Launch, ScreenInv, EnumInv, CountsYielded
  <2>2. CASE phase' = "stopped"
    BY <2>1, <2>2 DEF ScreenInv
  <2>3. CASE phase' # "stopped"
    <3>1. /\ reply'.kind = "Instance" /\ reply'.instance \notin Unrenderable
          /\ phase' = "serving" /\ seen' = {reply'.instance}
      BY <1>1, <2>1, <2>3 DEF Launch, Puts, Renders
    <3> QED
      BY <2>1, <3>1, PutOrSkipped DEF ScreenInv
  <2> QED
    BY <2>2, <2>3
<1>2. CASE ClickUnknown \/ ClickWhenOver
  BY <1>2 DEF ClickUnknown, ClickWhenOver, ScreenInv, vars, solver
<1>3. CASE ClickEnds
  <2>1. UNCHANGED <<yielded, count>>
    BY <1>3, QuietSteps DEF ClickEnds
  <2>2. done'
    BY <1>3 DEF ClickEnds, EnumInv, EndsWhole
  <2> QED
    BY <1>3, <2>1, <2>2 DEF ClickEnds, ScreenInv
<1>4. CASE ClickNext
  <2>1. /\ phase = "serving" /\ ~over /\ minted' = minted + 1
        /\ UNCHANGED <<phase, over>>
        /\ yielded' = yielded \cup {reply'.instance} /\ count' = count + 1
    BY <1>4, PutOrSkipped DEF ClickNext, NextId
  <2>2. seen' = yielded' \ Unrenderable
    BY <1>4, <2>1 DEF ClickNext, Puts, Renders, ScreenInv
  <2> QED
    BY <2>1, <2>2 DEF ScreenInv
<1>5. CASE Counts
  BY <1>5 DEF Counts, session, ScreenInv
<1>6. CASE UNCHANGED sessionVars
  BY <1>6 DEF sessionVars, session, vars, solver, ScreenInv
<1> QED
  BY <1>1, <1>2, <1>3, <1>4, <1>5, <1>6 DEF SessionNext, Click

\* Whatever the clicks, budget and rendering failures: there are as many datum ids as
\* instances shown or skipped, none comes back, and when Next has retired for want of
\* instances every instance was shown or could not be.
THEOREM ShownOnce == SessionSpec => []EachOnScreenOnce
<1>1. SessionInit => ScreenInv
  BY ScreenInit
<1>2. TypeOK /\ EnumInv /\ (TypeOK /\ EnumInv)' /\ ScreenInv /\ [SessionNext]_sessionVars
      => ScreenInv'
  BY ScreenNext
<1>3. EnumInv /\ ScreenInv => EachOnScreenOnce
  <2> SUFFICES ASSUME EnumInv, ScreenInv PROVE EachOnScreenOnce
    OBVIOUS
  <2>1. ASSUME phase = "serving"
        PROVE  Cardinality(seen \cup (yielded \cap Unrenderable)) = minted + 1
    <3>1. seen \cup (yielded \cap Unrenderable) = yielded
      BY <2>1 DEF ScreenInv
    <3> QED
      BY <2>1, <3>1 DEF ScreenInv, EnumInv, CountsYielded
  <2>2. ASSUME over, ~exhausted PROVE Space(goal) \subseteq seen \cup Unrenderable
    BY <2>2 DEF ScreenInv, EnumInv, EndsWhole
  <2> QED
    BY <2>1, <2>2 DEF EachOnScreenOnce
<1>4. SessionSpec => [](TypeOK /\ EnumInv)
  BY SessionEnumerates, EnumCorrect, PTL
<1> QED
  BY <1>1, <1>2, <1>3, <1>4, PTL DEF SessionSpec

\* The counts of the session's enumerator are exact, and its answers those of the
\* abstract enumeration.
THEOREM SessionIsExact == SessionSpec => []Exact /\ IsEnumeration
BY SessionEnumerates, CountIsExact, Implements, PTL

============================================================================
