----------------------- MODULE TemporalSessionProofs -----------------------
(***************************************************************************)
(* Theorems about TraceEnum and TemporalSession.                           *)
(*                                                                         *)
(* The enumerator, for every command, range, limit and budget: the types;  *)
(* only NextConfig moves the configuration on display, and it never comes  *)
(* back to one (ConfigInv); a sweep answers every solution, and none twice *)
(* (SweepInv).  They are about the enumerator's own initial states and     *)
(* steps, called directly or by a session.                                 *)
(*                                                                         *)
(* The session keeps what the enumerator promises and adds its own: a      *)
(* click only makes the enumerator's steps, the evaluator stands on the    *)
(* trace on screen, and the buttons do what they say.                      *)
(***************************************************************************)
EXTENDS TemporalSession, TLAPS


----------------------------------------------------------------------------
(* Types.                                                                  *)

LEMMA SolutionFields ==
  ASSUME NEW s \in Solution
  PROVE  s.k \in MinLen..MaxLen /\ s.config \in Config
  BY DEF Solution

\* A command's solutions are solutions.
LEMMA GoalSolutions == TypeOK => goal \subseteq Solution
  BY DEF TypeOK

LEMMA OpenedType ==
  ASSUME TypeOK, NEW k \in MinLen..MaxLen, NEW fork \in ForkQuestion \cup {None}
  PROVE  Opened(k, fork) \in Stage
  BY GoalSolutions DEF Opened, Stage

LEMMA NotNone ==
  /\ \A s \in Solution : s # None
  /\ \A c \in Config : c # None
  /\ \A t \in Stage : t # None
  /\ \A f \in ForkQuestion : f # None
  BY NoneAssumption

\* The draw loop always has a stage.
Live == pc \in {"draw", "none"} => stage # None

LEMMA TypeInit == Init => TypeOK
<1> SUFFICES ASSUME Init PROVE TypeOK
  OBVIOUS
<1>1. [op |-> "path", hold |-> 0] \in Call
  BY LengthAssumption DEF Call, Op
<1>2. [kind |-> "Pending", trace |-> None] \in Answer
  BY DEF Answer
<1>3. PICK c \in Commands : /\ goal = c.goal
                            /\ unencodable = c.unencodable
                            /\ floats = c.floats
                            /\ cap = c.cap
                            /\ budget = c.budget
  BY DEF Init
<1>4. c \in Command
  BY CommandsAssumption
<1>5. /\ goal \subseteq Solution
      /\ unencodable \subseteq MinLen..MaxLen
      /\ floats \in [static : Nat, var : Nat]
      /\ cap \in Nat \cup {None}
      /\ budget \in Nat \cup {None}
  BY <1>3, <1>4 DEF Command
<1> QED BY <1>1, <1>2, <1>5 DEF Init, TypeOK

LEMMA TypeNext == TypeOK /\ Live /\ [Next]_vars => TypeOK'
<1> SUFFICES ASSUME TypeOK, Live, [Next]_vars PROVE TypeOK'
  OBVIOUS
<1> USE DEF TypeOK, search, effort, history, command
<1>g. goal \subseteq Solution
  BY GoalSolutions
<1>r. ASSUME NEW kind \in {"Exhausted", "SameConfig", "BudgetExhausted", "PrimaryVarCap", "Error"},
             Reply(kind)
      PROVE  answer' \in Answer /\ pc' = "idle"
  BY <1>r DEF Reply, Answer
<1>a. Await => answer' \in Answer
  BY DEF Await, Answer
<1>b. ASSUME NEW op \in Op, NEW hold \in 0..MaxLen, Begin(op, hold)
      PROVE  /\ call' \in Call
             /\ UNCHANGED <<goal, unencodable, floats, cap, current, budget, budgetSpent>>
  BY <1>b DEF Begin, Call
<1>z. 0 \in 0..MaxLen
  BY LengthAssumption
<1>o. ASSUME NEW k \in MinLen..MaxLen, OpenFails(k)
      PROVE  stage' \in Stage \cup {None} /\ answer' \in Answer /\ pc' = "idle"
  BY <1>o, <1>r DEF OpenFails
<1>1. ASSUME NEW op \in Op, RefuseSpent(op, 0) PROVE TypeOK'
  BY <1>1, <1>b, <1>r, <1>z DEF RefuseSpent
<1>2. CASE NextPath
  BY <1>2, <1>b, <1>a, <1>z DEF NextPath, Op
<1>3. CASE NextConfigFirst
  BY <1>3, <1>b, <1>a, <1>z DEF NextConfigFirst, Op
<1>4. CASE NextConfigSame
  BY <1>4, <1>b, <1>r, <1>z DEF NextConfigSame, Op
<1>5. CASE NextConfigMoves
  BY <1>5, <1>b, <1>a, <1>z DEF NextConfigMoves, StartsOver, Op
<1>6. ASSUME NEW hold \in 0..MaxLen, Fork(hold) PROVE TypeOK'
  <2>1. CASE ForkFirst(hold)
    BY <2>1, <1>b, <1>a DEF ForkFirst, Op
  <2>2. CASE ForkPastEnd(hold)
    BY <2>2, <1>b, <1>r DEF ForkPastEnd, Op
  <2>3. CASE ForkRigid(hold)
    BY <2>3, <1>b, <1>r DEF ForkRigid, Op
  <2>4. CASE ForkOpens(hold)
    <3>1. current \in Solution
      BY <2>4, <1>g DEF ForkOpens
    <3>2. [base |-> current, hold |-> hold] \in ForkQuestion
      BY <3>1 DEF ForkQuestion
    <3>3. stage' \in Stage
      BY <2>4, <3>1, <3>2, SolutionFields, OpenedType DEF ForkOpens
    <3> QED BY <2>4, <3>3, <1>b, <1>a DEF ForkOpens, StartsOver, Op
  <2> QED BY <1>6, <2>1, <2>2, <2>3, <2>4 DEF Fork
<1>7. CASE PathOpens
  <2>1. MinLen \in MinLen..MaxLen
    BY LengthAssumption
  <2>2. stage' \in Stage
    BY <1>7, <2>1, OpenedType DEF PathOpens
  <2> QED BY <1>7, <2>2 DEF PathOpens
<1>8. CASE PathFails
  <2>1. MinLen \in MinLen..MaxLen
    BY LengthAssumption
  <2> QED BY <1>8, <2>1, <1>o DEF PathFails
<1>9. CASE PathResumes
  BY <1>9 DEF PathResumes
<1>10. CASE StageSpent
  BY <1>10 DEF StageSpent
<1>c. ASSUME Charged PROVE budget' \in Nat \cup {None} /\ budgetSpent' = budgetSpent
  BY <1>c, NoneAssumption DEF Charged
<1>s. ASSUME stage # None PROVE [stage EXCEPT !.spent = TRUE] \in Stage
  BY <1>s DEF Stage
<1>11. CASE SolverGivesUp
  <2>1. stage' \in Stage
    BY <1>11, <1>s DEF SolverGivesUp, Drawing, Live
  <2> QED BY <1>11, <2>1 DEF SolverGivesUp, Drawing
<1>12. CASE SolverUnsat
  <2>1. stage' \in Stage
    BY <1>12, <1>s DEF SolverUnsat, Drawing, Live
  <2> QED BY <1>12, <2>1, <1>c DEF SolverUnsat, Drawing
<1>d. ASSUME stage # None, NEW open \in SUBSET Solution
      PROVE  [stage EXCEPT !.open = open] \in Stage
  BY <1>d DEF Stage
<1>e. stage # None => stage.open \subseteq Solution
  BY DEF Stage
<1>13. ASSUME NEW s \in goal, SolverRepeats(s) PROVE TypeOK'
  <2>1. stage # None
    BY <1>13 DEF SolverRepeats, Drawing, Live
  <2>2. stage' = [stage EXCEPT !.open = stage.open \ {s}]
    BY <1>13 DEF SolverRepeats
  <2>3. stage' \in Stage
    BY <2>1, <2>2, <1>d, <1>e
  <2> QED BY <1>13, <2>3, <1>c DEF SolverRepeats, Drawing
<1>14. ASSUME NEW s \in goal, SolverYields(s) PROVE TypeOK'
  <2>1. stage # None
    BY <1>14 DEF SolverYields, Drawing, Live
  <2>2. stage' = [stage EXCEPT !.open = {t \in stage.open \ {s} : t.config = config'}]
    BY <1>14 DEF SolverYields
  <2>3. stage' \in Stage
    BY <2>1, <2>2, <1>d, <1>e
  <2>4. s \in Solution /\ s.config \in Config
    BY <1>g, SolutionFields
  <2>5. answer' \in Answer
    BY <1>14, <2>4 DEF SolverYields, Answer
  <2>6. config' \in Config
    BY <1>14, <2>4 DEF SolverYields
  <2>7. emittedHere' \subseteq {TraceKey(t) : t \in goal}
    BY <1>14 DEF SolverYields
  <2> QED BY <1>14, <2>3, <2>4, <2>5, <2>6, <2>7, <1>c DEF SolverYields, Drawing
<1>15. CASE ForkEnds
  BY <1>15, <1>r DEF ForkEnds
<1>16. CASE PathStops
  BY <1>16, <1>r DEF PathStops
<1>17. CASE ForkLineEnds
  BY <1>17, <1>r DEF ForkLineEnds
<1>18. CASE LengthEnds
  <2>1. stage \in Stage /\ stage.k \in Nat
    BY <1>18, LengthAssumption DEF LengthEnds, Live, Stage
  <2>2. ~PastEnd => NextLen \in MinLen..MaxLen
    BY <2>1, LengthAssumption DEF PastEnd, NextLen, Stage
  <2>3. ~PastEnd => Opened(NextLen, None) \in Stage
    BY <2>2, OpenedType
  <2>4. stage' \in Stage \cup {None} /\ answer' \in Answer /\ pc' \in {"idle", "draw"}
    BY <1>18, <2>2, <2>3, <1>o, <1>r DEF LengthEnds
  <2>5. emitted' \subseteq {TraceKey(t) : t \in goal} /\ emittedHere' = {}
    BY <1>18 DEF LengthEnds, MergedKeys
  <2> QED BY <1>18, <2>4, <2>5 DEF LengthEnds
<1>19. CASE UNCHANGED vars
  BY <1>19 DEF vars
<1> QED
  BY <1>1, <1>2, <1>3, <1>4, <1>5, <1>6, <1>7, <1>8, <1>9, <1>10, <1>11, <1>12,
     <1>13, <1>14, <1>15, <1>16, <1>17, <1>18, <1>19
  DEF Next, Calls, Internal

LEMMA LiveNext == TypeOK /\ Live /\ [Next]_vars => Live'
<1> SUFFICES ASSUME TypeOK, Live, [Next]_vars PROVE Live'
  OBVIOUS
<1> USE DEF Live, search, effort, history, command, Reply
<1>s. stage # None => stage \in Stage
  BY DEF TypeOK
<1>1. ASSUME NEW op \in Op, RefuseSpent(op, 0) PROVE Live'
  BY <1>1 DEF RefuseSpent
<1>2. CASE NextPath \/ NextConfigFirst \/ NextConfigSame \/ NextConfigMoves
  BY <1>2 DEF NextPath, NextConfigFirst, NextConfigSame, NextConfigMoves
<1>3. ASSUME NEW hold \in 0..MaxLen, Fork(hold) PROVE Live'
  <2>1. CASE ForkOpens(hold)
    <3>1. current \in Solution
      BY <2>1, GoalSolutions DEF ForkOpens, TypeOK
    <3>2. [base |-> current, hold |-> hold] \in ForkQuestion
      BY <3>1 DEF ForkQuestion
    <3>3. stage' \in Stage
      BY <2>1, <3>1, <3>2, SolutionFields, OpenedType DEF ForkOpens
    <3> QED BY <3>3, NotNone DEF ForkOpens
  <2>2. CASE ForkFirst(hold) \/ ForkPastEnd(hold) \/ ForkRigid(hold)
    BY <2>2 DEF ForkFirst, ForkPastEnd, ForkRigid
  <2> QED BY <1>3, <2>1, <2>2 DEF Fork
<1>4. CASE PathOpens
  <2>1. MinLen \in MinLen..MaxLen
    BY LengthAssumption
  <2>2. stage' \in Stage
    BY <1>4, <2>1, OpenedType DEF PathOpens
  <2> QED BY <2>2, NotNone
<1>5. CASE PathFails
  BY <1>5 DEF PathFails, OpenFails
<1>6. CASE PathResumes \/ StageSpent
  BY <1>6 DEF PathResumes, StageSpent
<1>7. CASE SolverGivesUp \/ SolverUnsat
  <2>1. stage' \in Stage
    BY <1>7, <1>s DEF SolverGivesUp, SolverUnsat, Drawing, Stage
  <2> QED BY <2>1, NotNone
<1>8. ASSUME NEW s \in goal, SolverRepeats(s) PROVE Live'
  <2>1. stage \in Stage
    BY <1>8, <1>s DEF SolverRepeats, Drawing
  <2>2. stage' \in Stage
    BY <1>8, <2>1 DEF SolverRepeats, Stage
  <2> QED BY <2>2, NotNone
<1>9. ASSUME NEW s \in goal, SolverYields(s) PROVE Live'
  BY <1>9 DEF SolverYields
<1>10. CASE ForkEnds \/ PathStops \/ ForkLineEnds
  BY <1>10 DEF ForkEnds, PathStops, ForkLineEnds
<1>11. CASE LengthEnds
  <2>1. stage \in Stage
    BY <1>11, <1>s DEF LengthEnds
  <2>2. ~PastEnd => NextLen \in MinLen..MaxLen
    BY <2>1, LengthAssumption DEF PastEnd, NextLen, Stage
  <2>3. ~PastEnd => Opened(NextLen, None) # None
    BY <2>2, OpenedType, NotNone
  <2> QED BY <1>11, <2>3 DEF LengthEnds, OpenFails
<1>12. CASE UNCHANGED vars
  BY <1>12 DEF vars
<1> QED
  BY <1>1, <1>2, <1>3, <1>4, <1>5, <1>6, <1>7, <1>8, <1>9, <1>10, <1>11, <1>12
  DEF Next, Calls, Internal

\* Every variable keeps its type: answers, stages and keys are always those of the
\* command.
THEOREM TypeCorrect == Enumerates => [](TypeOK /\ Live)
<1>1. Init => TypeOK /\ Live
  BY TypeInit DEF Init, Live
<1>2. TypeOK /\ Live /\ [Next]_vars => (TypeOK /\ Live)'
  BY TypeNext, LiveNext
<1> QED BY <1>1, <1>2, PTL DEF Enumerates

----------------------------------------------------------------------------
(* The configuration on display: ConfigInv.                                *)

LEMMA OpenedFields ==
  ASSUME NEW k, NEW fork
  PROVE  /\ Opened(k, fork).k = k
         /\ Opened(k, fork).fork = fork
         /\ Opened(k, fork).spent = FALSE
         /\ \A s : s \in Opened(k, fork).open <=>
                     s \in goal /\ s.k = k /\ Locked(s) /\ Unblocked(s) /\ Answers(s, fork)
  BY DEF Opened

LEMMA GoalLengths ==
  ASSUME TypeOK, NEW s \in goal
  PROVE  s \in Solution /\ s.k \in MinLen..MaxLen /\ s.k \in Int /\ s.config \in Config
  BY GoalSolutions, SolutionFields, LengthAssumption

\* Where the search must stop is a matter of the command and of what is blocked.
LEMMA StuckStays ==
  ASSUME UNCHANGED <<goal, unencodable, floats, cap, blocked>>
  PROVE  /\ Stuck' <=> Stuck
         /\ \A k : Barren(k)' <=> Barren(k)
         /\ \A k : CanOpen(k)' <=> CanOpen(k)
         /\ \A k : AllOpenable(k)' <=> AllOpenable(k)
  BY DEF Stuck, Barren, CanOpen, AllOpenable, OverCap, Primaries

\* A stage that was opened lies before the point where the search must stop, so it
\* holds nothing.
LEMMA StuckIsEmpty ==
  ASSUME TypeOK, ConfigInv, Stuck, stage # None, NEW s \in stage.open
  PROVE  FALSE
<1>1. PICK k \in MinLen..MaxLen+1 : Barren(k - 1) /\ (k <= MaxLen => ~CanOpen(k))
  BY DEF Stuck
<1>2. stage.k \in MinLen..MaxLen /\ stage.k \in Int
  BY LengthAssumption DEF TypeOK, Stage
<1>3. stage.k < k
  <2>1. CASE k <= MaxLen
    <3>1. ~CanOpen(k)
      BY <1>1, <2>1
    <3>2. \A j \in MinLen..stage.k : CanOpen(j)
      BY DEF ConfigInv, Openable, AllOpenable
    <3> QED BY <3>1, <3>2, <1>2, LengthAssumption
  <2> QED BY <2>1, <1>2, LengthAssumption
<1>4. s \in goal /\ s.k = stage.k /\ s.config \notin blocked
  BY DEF ConfigInv, StageAdmits, Unblocked, TypeOK, Stage
<1> QED BY <1>1, <1>2, <1>3, <1>4, LengthAssumption DEF Barren

LEMMA ConfigInit == Init => ConfigInv
  BY DEF Init, ConfigInv, LockHeld, NothingForgotten, StageAdmits, StageWhole,
     Openable, InCall, Searching, NothingLeft

\* What a call that leaves the search alone does to the invariant.
LEMMA SearchKept ==
  ASSUME TypeOK, ConfigInv, UNCHANGED <<goal, unencodable, floats, cap, current, search, history>>,
         budgetSpent' = budgetSpent,
         InCall',
         config = None /\ current # None /\ ~budgetSpent /\ ~Stuck =>
           pc' # "idle" /\ call'.op = "config" /\ ~restricted
  PROVE  ConfigInv'
<1> USE DEF search, history
<1>1. LockHeld' /\ NothingForgotten'
  BY DEF ConfigInv, LockHeld, NothingForgotten
<1>2. StageAdmits'
  BY DEF ConfigInv, StageAdmits, Locked, Unblocked
<1>3. StageWhole'
  BY StuckStays DEF ConfigInv, StageWhole, Unblocked
<1>4. Openable'
  BY StuckStays DEF ConfigInv, Openable
<1>5. NothingLeft'
  BY StuckStays DEF NothingLeft
<1> QED BY <1>1, <1>2, <1>3, <1>4, <1>5 DEF ConfigInv

LEMMA ConfigCalls == TypeOK /\ Live /\ ConfigInv /\ Calls => ConfigInv'
<1> SUFFICES ASSUME TypeOK, Live, ConfigInv, Calls PROVE ConfigInv'
  OBVIOUS
<1> USE DEF Begin, Reply, Await, command, effort
<1>i. /\ pc = "idle"
      /\ stage # None /\ ~restricted => stage.fork = None
      /\ config = None /\ current # None /\ ~budgetSpent => Stuck
  BY DEF Calls, RefuseSpent, NextPath, NextConfigFirst, NextConfigSame, NextConfigMoves,
         Fork, ForkFirst, ForkPastEnd, ForkRigid, ForkOpens, ConfigInv, InCall, NothingLeft
<1>1. ASSUME NEW op \in Op, RefuseSpent(op, 0) PROVE ConfigInv'
  <2>1. InCall'
    BY <1>1, <1>i DEF RefuseSpent, InCall, Searching, search
  <2> QED BY <1>1, <1>i, <2>1, SearchKept DEF RefuseSpent
<1>2. CASE NextPath
  <2>1. InCall'
    BY <1>2, <1>i DEF NextPath, InCall, Searching, search
  <2> QED BY <1>2, <1>i, <2>1, SearchKept DEF NextPath
<1>3. CASE NextConfigFirst
  <2>1. InCall'
    BY <1>3, <1>i DEF NextConfigFirst, InCall, Searching, search
  <2> QED BY <1>3, <1>i, <2>1, SearchKept DEF NextConfigFirst
<1>4. CASE NextConfigSame
  <2>1. InCall'
    BY <1>4, <1>i DEF NextConfigSame, InCall, Searching, search
  <2> QED BY <1>4, <1>i, <2>1, SearchKept DEF NextConfigSame
<1>5. CASE NextConfigMoves
  <2>1. LockHeld' /\ NothingForgotten' /\ StageAdmits' /\ StageWhole'
    BY <1>5 DEF NextConfigMoves, StartsOver, ConfigInv, LockHeld, NothingForgotten,
                StageAdmits, StageWhole
  <2>2. Openable'
    BY <1>5 DEF NextConfigMoves, ConfigInv, Openable, AllOpenable, CanOpen, OverCap, Primaries
  <2>3. InCall' /\ NothingLeft'
    BY <1>5 DEF NextConfigMoves, InCall, Searching, NothingLeft
  <2> QED BY <2>1, <2>2, <2>3 DEF ConfigInv
<1>6. ASSUME NEW hold \in 0..MaxLen, Fork(hold) PROVE ConfigInv'
  <2>1. CASE ForkFirst(hold)
    <3>1. InCall'
      BY <2>1, <1>i DEF ForkFirst, InCall, Searching, search
    <3> QED BY <2>1, <1>i, <3>1, SearchKept DEF ForkFirst
  <2>2. CASE ForkPastEnd(hold)
    <3>1. InCall'
      BY <2>2, <1>i DEF ForkPastEnd, InCall, Searching, search
    <3> QED BY <2>2, <1>i, <3>1, SearchKept DEF ForkPastEnd
  <2>3. CASE ForkRigid(hold)
    <3>1. LockHeld' /\ NothingForgotten' /\ StageAdmits' /\ StageWhole'
      BY <2>3 DEF ForkRigid, history, ConfigInv, LockHeld, NothingForgotten, StageAdmits,
                  StageWhole
    <3>2. Openable'
      BY <2>3 DEF ForkRigid, ConfigInv, Openable, AllOpenable, CanOpen, OverCap, Primaries
    <3>3. InCall' /\ NothingLeft'
      BY <2>3, <1>i, StuckStays DEF ForkRigid, InCall, Searching, NothingLeft
    <3> QED BY <3>1, <3>2, <3>3 DEF ConfigInv
  <2>4. CASE ForkOpens(hold)
    <3> DEFINE q == [base |-> current, hold |-> hold]
    <3>0. current \in goal /\ current \in Solution /\ current # None
      BY <2>4, GoalLengths DEF ForkOpens, TypeOK
    <3>q. q \in ForkQuestion /\ q # None
      BY <3>0, NotNone DEF ForkQuestion
    <3>s. /\ stage' = Opened(current.k, q)
          /\ UNCHANGED <<goal, unencodable, floats, cap, current, config, blocked, displayed, budgetSpent>>
      BY <2>4 DEF ForkOpens
    <3> HIDE DEF q
    <3>a. current.k \in MinLen..MaxLen
      BY <3>0, GoalLengths
    <3>b. Opened(current.k, q) \in Stage
      BY <3>a, <3>q, OpenedType
    <3>t. /\ stage' # None /\ stage'.k = current.k /\ stage'.fork = q
          /\ \A s \in stage'.open : s \in goal /\ s.k = current.k /\ Locked(s) /\ Unblocked(s)
      <4>1. Opened(current.k, q) # None
        BY <3>b, NotNone
      <4> QED BY <3>s, <4>1 DEF Opened
    <3>1. LockHeld' /\ NothingForgotten'
      BY <2>4, <3>s DEF ForkOpens, StartsOver, ConfigInv, LockHeld, NothingForgotten
    <3>2. StageAdmits'
      BY <3>s, <3>t DEF StageAdmits, Locked, Unblocked
    <3>3. StageWhole'
      BY <3>t, <3>q DEF StageWhole
    <3>4. Openable'
      BY <3>s, <3>t, <3>0, StuckStays DEF ConfigInv, Openable
    <3>5. InCall' /\ NothingLeft'
      BY <2>4, <3>s, <1>i, StuckStays DEF ForkOpens, InCall, Searching, NothingLeft
    <3> QED BY <3>1, <3>2, <3>3, <3>4, <3>5 DEF ConfigInv
  <2> QED BY <1>6, <2>1, <2>2, <2>3, <2>4 DEF Fork
<1> QED BY <1>1, <1>2, <1>3, <1>4, <1>5, <1>6 DEF Calls

\* Opening a length of the sweep, the lengths below it searched.
LEMMA SweepOpens ==
  ASSUME TypeOK, ConfigInv, NEW k \in MinLen..MaxLen,
         stage' = Opened(k, None), pc' = "draw", CanOpen(k),
         \A j \in MinLen..k-1 : CanOpen(j),
         config = None => Barren(k - 1),
         ~budgetSpent, pc # "idle", answer' = answer,
         UNCHANGED <<goal, unencodable, floats, cap, current, config, blocked, restricted, budgetSpent,
                     call, displayed>>,
         config = None => emitted' = {} /\ emittedHere' = {}
  PROVE  ConfigInv'
<1>s. /\ stage'.k = k /\ stage'.fork = None /\ stage'.spent = FALSE
      /\ \A s : s \in stage'.open <=>
                 s \in goal /\ s.k = k /\ Locked(s) /\ Unblocked(s)
  BY DEF Opened, Answers
<1>u. /\ Stuck' <=> Stuck
      /\ \A j : Barren(j)' <=> Barren(j)
      /\ \A j : AllOpenable(j)' <=> AllOpenable(j)
  BY StuckStays
<1>1. LockHeld' /\ NothingForgotten'
  BY DEF ConfigInv, LockHeld, NothingForgotten
<1>2. StageAdmits'
  BY <1>s DEF StageAdmits, Locked, Unblocked
<1>3. StageWhole'
  BY <1>s, <1>u DEF StageWhole, Locked, Unblocked
<1>4. Openable'
  <2>1. AllOpenable(k)
    BY LengthAssumption DEF AllOpenable
  <2> QED BY <2>1, <1>s, <1>u DEF ConfigInv, Openable
<1>5. InCall'
  BY <1>s DEF ConfigInv, InCall, Searching
<1>6. NothingLeft'
  BY <1>u DEF ConfigInv, NothingLeft
<1> QED BY <1>1, <1>2, <1>3, <1>4, <1>5, <1>6 DEF ConfigInv

\* Ending a call of the sweep that yielded nothing, the lengths below k searched.
LEMMA SweepStops ==
  ASSUME TypeOK, ConfigInv, NEW k \in MinLen..MaxLen+1,
         pc' = "idle", stage' \in {stage, None},
         config = None => Barren(k - 1),
         k <= MaxLen => ~CanOpen(k),
         UNCHANGED <<goal, unencodable, floats, cap, current, config, blocked, restricted, budgetSpent,
                     displayed>>,
         config = None => emitted' = {} /\ emittedHere' = {}
  PROVE  ConfigInv'
<1>u. /\ Stuck' <=> Stuck
      /\ \A j : Barren(j)' <=> Barren(j)
      /\ \A j : AllOpenable(j)' <=> AllOpenable(j)
  BY StuckStays
<1>1. LockHeld' /\ NothingForgotten'
  BY DEF ConfigInv, LockHeld, NothingForgotten
<1>2. StageAdmits' /\ StageWhole'
  BY <1>u DEF ConfigInv, StageAdmits, StageWhole, Locked, Unblocked
<1>3. Openable'
  BY <1>u DEF ConfigInv, Openable
<1>4. InCall'
  BY DEF ConfigInv, InCall, Searching
<1>5. NothingLeft'
  <2>1. config = None => Stuck
    BY DEF Stuck
  <2> QED BY <2>1, <1>u DEF NothingLeft
<1> QED BY <1>1, <1>2, <1>3, <1>4, <1>5 DEF ConfigInv

LEMMA ConfigPath ==
  TypeOK /\ Live /\ ConfigInv /\ (PathOpens \/ PathFails \/ PathResumes \/ StageSpent)
    => ConfigInv'
<1> SUFFICES ASSUME TypeOK, Live, ConfigInv,
                    PathOpens \/ PathFails \/ PathResumes \/ StageSpent
             PROVE  ConfigInv'
  OBVIOUS
<1> USE DEF command, effort, history
<1>m. MinLen \in MinLen..MaxLen /\ MinLen \in MinLen..MaxLen+1 /\ MinLen \in Int
  BY LengthAssumption
<1>b. Barren(MinLen - 1)
  BY GoalLengths, LengthAssumption DEF Barren
<1>e. config = None => emitted = {} /\ emittedHere = {}
  BY DEF ConfigInv, NothingForgotten
<1>1. CASE PathOpens
  <2>1. ~budgetSpent
    BY <1>1 DEF PathOpens, ConfigInv, InCall, Searching
  <2>2. \A j \in MinLen..MinLen-1 : CanOpen(j)
    BY <1>m
  <2> QED BY <1>1, <1>m, <1>b, <1>e, <2>1, <2>2, SweepOpens DEF PathOpens
<1>2. CASE PathFails
  <2>1. ~CanOpen(MinLen) /\ stage' \in {stage, None} /\ pc' = "idle"
    BY <1>2 DEF PathFails, OpenFails, CanOpen, Reply
  <2> QED BY <1>2, <1>m, <1>b, <1>e, <2>1, SweepStops DEF PathFails
<1>3. CASE PathResumes \/ StageSpent
  <2>1. InCall'
    BY <1>3 DEF PathResumes, StageSpent, ConfigInv, InCall, Searching, search
  <2>2. config = None /\ current # None /\ ~budgetSpent /\ ~Stuck =>
          pc' # "idle" /\ call'.op = "config" /\ ~restricted
    BY <1>3 DEF PathResumes, StageSpent, ConfigInv, NothingLeft
  <2> QED BY <1>3, <2>1, <2>2, SearchKept DEF PathResumes, StageSpent
<1> QED BY <1>1, <1>2, <1>3

LEMMA ConfigDraws ==
  TypeOK /\ Live /\ ConfigInv
  /\ (SolverGivesUp \/ SolverUnsat \/ \E s \in goal : SolverRepeats(s) \/ SolverYields(s))
    => ConfigInv'
<1> SUFFICES ASSUME TypeOK, Live, ConfigInv,
                    \/ SolverGivesUp
                    \/ SolverUnsat
                    \/ \E s \in goal : SolverRepeats(s) \/ SolverYields(s)
             PROVE  ConfigInv'
  OBVIOUS
<1> USE DEF Drawing, Charged, command, effort, history
<1>t. stage \in Stage /\ stage # None /\ stage.k \in MinLen..MaxLen /\ stage.k \in Int
  BY LengthAssumption DEF SolverGivesUp, SolverUnsat, SolverRepeats, SolverYields, TypeOK,
                          Live, Stage
<1>n. pc = "draw" /\ ~budgetSpent /\ answer.kind = "Pending"
  BY DEF SolverGivesUp, SolverUnsat, SolverRepeats, SolverYields, ConfigInv, InCall, Searching
<1>1. CASE SolverGivesUp
  <2>1. /\ stage' # None /\ stage'.k = stage.k /\ stage'.open = stage.open
        /\ stage'.fork = stage.fork /\ stage'.spent = TRUE
    BY <1>1, <1>t, NotNone DEF SolverGivesUp, Stage
  <2>u. /\ UNCHANGED <<goal, unencodable, floats, cap, current, config, blocked, emitted, emittedHere,
                       restricted, call, answer, displayed>>
        /\ budgetSpent' = TRUE /\ pc' = "none"
    BY <1>1 DEF SolverGivesUp
  <2>v. /\ \A j : Barren(j)' <=> Barren(j)
        /\ \A j : AllOpenable(j)' <=> AllOpenable(j)
    BY <2>u, StuckStays
  <2>2. LockHeld' /\ NothingForgotten' /\ StageAdmits' /\ StageWhole' /\ Openable'
    BY <2>1, <2>u, <2>v, <1>t DEF ConfigInv, LockHeld, NothingForgotten, StageAdmits,
         StageWhole, Openable, Locked, Unblocked
  <2>3. InCall' /\ NothingLeft'
    BY <2>1, <2>u, <1>n, <1>t DEF ConfigInv, InCall, Searching, NothingLeft
  <2> QED BY <2>2, <2>3 DEF ConfigInv
<1>2. CASE SolverUnsat
  <2>1. /\ stage' # None /\ stage'.k = stage.k /\ stage'.open = stage.open
        /\ stage'.fork = stage.fork /\ stage'.spent = TRUE
    BY <1>2, <1>t, NotNone DEF SolverUnsat, Stage
  <2>u. /\ UNCHANGED <<goal, unencodable, floats, cap, current, config, blocked, emitted, emittedHere,
                       restricted, call, answer, displayed, budgetSpent>>
        /\ pc' = "none" /\ stage.open = {}
    BY <1>2 DEF SolverUnsat
  <2>v. /\ Stuck' <=> Stuck
        /\ \A j : Barren(j)' <=> Barren(j)
        /\ \A j : AllOpenable(j)' <=> AllOpenable(j)
    BY <2>u, StuckStays
  <2>b. config = None /\ stage.fork = None => Barren(stage.k)
    BY <2>u, <1>t, GoalLengths, LengthAssumption DEF ConfigInv, StageWhole, Barren, Unblocked
  <2>2. LockHeld' /\ NothingForgotten' /\ StageAdmits' /\ StageWhole' /\ Openable'
    BY <2>1, <2>u, <2>v, <2>b, <1>t DEF ConfigInv, LockHeld, NothingForgotten, StageAdmits,
         StageWhole, Openable, Locked, Unblocked
  <2>3. InCall' /\ NothingLeft'
    BY <2>1, <2>u, <2>v, <1>n, <1>t DEF ConfigInv, InCall, Searching, NothingLeft
  <2> QED BY <2>2, <2>3 DEF ConfigInv
<1>3. ASSUME NEW s \in goal, SolverRepeats(s) PROVE ConfigInv'
  <2>1. /\ stage' # None /\ stage'.k = stage.k /\ stage'.open = stage.open \ {s}
        /\ stage'.fork = stage.fork /\ stage'.spent = stage.spent
    BY <1>3, <1>t, NotNone DEF SolverRepeats, Stage
  <2>u. /\ UNCHANGED <<goal, unencodable, floats, cap, current, config, blocked, emitted, emittedHere,
                       restricted, call, answer, displayed, budgetSpent, pc>>
        /\ TraceKey(s) \in emitted
    BY <1>3 DEF SolverRepeats
  <2>c. config # None
    BY <2>u DEF ConfigInv, NothingForgotten
  <2>v. \A j : AllOpenable(j)' <=> AllOpenable(j)
    BY <2>u, StuckStays
  <2>2. LockHeld' /\ NothingForgotten' /\ StageAdmits' /\ StageWhole' /\ Openable'
    BY <2>1, <2>u, <2>v, <2>c, <1>t DEF ConfigInv, LockHeld, NothingForgotten, StageAdmits,
         StageWhole, Openable, Locked, Unblocked
  <2>3. InCall' /\ NothingLeft'
    BY <2>1, <2>u, <2>c, <1>n, <1>t DEF ConfigInv, InCall, Searching, NothingLeft
  <2> QED BY <2>2, <2>3 DEF ConfigInv
<1>4. ASSUME NEW s \in goal, SolverYields(s) PROVE ConfigInv'
  <2>1. /\ stage' # None /\ stage'.k = stage.k
        /\ stage'.open = {t \in stage.open \ {s} : t.config = config'}
        /\ stage'.fork = stage.fork /\ stage'.spent = stage.spent
    BY <1>4, <1>t, NotNone DEF SolverYields, Stage
  <2>u. /\ UNCHANGED <<goal, unencodable, floats, cap, blocked, restricted, call, budgetSpent>>
        /\ s \in stage.open /\ current' = s /\ pc' = "idle"
        /\ displayed' = displayed \cup {s.config}
        /\ config' = IF config = None THEN s.config ELSE config
    BY <1>4 DEF SolverYields
  <2>c. s # None /\ s.config \in Config /\ s.config # None
    BY GoalLengths, NotNone
  <2>l. /\ s.k = stage.k
        /\ s.config \notin blocked
        /\ config # None => s.config = config
    BY <2>u, <1>t DEF ConfigInv, StageAdmits, Locked, Unblocked
  <2>p. config' = s.config
    BY <2>u, <2>l
  <2>v. \A j : AllOpenable(j)' <=> AllOpenable(j)
    BY <2>u, StuckStays
  <2>d. displayed \subseteq blocked \cup (IF config = None THEN {} ELSE {config})
    BY NoneAssumption DEF TypeOK, ConfigInv, NothingForgotten
  <2>2. LockHeld' /\ NothingForgotten'
    BY <2>u, <2>c, <2>d, <2>l, <2>p DEF LockHeld, NothingForgotten
  <2>3. StageAdmits'
    BY <2>1, <2>u, <2>c, <2>p, <1>t DEF ConfigInv, StageAdmits, Locked, Unblocked
  <2>4. StageWhole' /\ NothingLeft'
    BY <2>c, <2>p DEF StageWhole, NothingLeft
  <2>5. Openable'
    BY <2>1, <2>u, <2>l, <2>v, <1>t DEF ConfigInv, Openable
  <2>6. InCall'
    BY <2>1, <2>u, <1>t DEF ConfigInv, InCall, Searching
  <2> QED BY <2>2, <2>3, <2>4, <2>5, <2>6 DEF ConfigInv
<1> QED BY <1>1, <1>2, <1>3, <1>4

LEMMA ConfigEnds ==
  TypeOK /\ Live /\ ConfigInv /\ (ForkEnds \/ PathStops \/ ForkLineEnds \/ LengthEnds)
    => ConfigInv'
<1> SUFFICES ASSUME TypeOK, Live, ConfigInv,
                    ForkEnds \/ PathStops \/ ForkLineEnds \/ LengthEnds
             PROVE  ConfigInv'
  OBVIOUS
<1> USE DEF command, effort, history
<1>t. stage \in Stage /\ stage # None /\ stage.k \in MinLen..MaxLen /\ stage.k \in Int
  BY LengthAssumption DEF ForkEnds, PathStops, ForkLineEnds, LengthEnds, TypeOK, Live, Stage
<1>n. pc = "none" /\ stage.spent /\ answer.kind = "Pending"
  BY DEF ForkEnds, PathStops, ForkLineEnds, LengthEnds, ConfigInv, InCall
<1>1. CASE ForkEnds \/ PathStops
  <2>1. InCall'
    BY <1>1 DEF ForkEnds, PathStops, Reply, ConfigInv, InCall, Searching, search
  <2>2. config = None /\ current # None /\ ~budgetSpent /\ ~Stuck =>
          pc' # "idle" /\ call'.op = "config" /\ ~restricted
    BY <1>1 DEF ForkEnds, PathStops, Forking, ConfigInv, NothingLeft
  <2> QED BY <1>1, <2>1, <2>2, SearchKept DEF ForkEnds, PathStops
<1>2. CASE ForkLineEnds
  <2>u. /\ UNCHANGED <<goal, unencodable, floats, cap, current, config, blocked, emitted, emittedHere,
                       restricted, call, displayed, budgetSpent>>
        /\ stage' = None /\ pc' = "idle" /\ restricted
    BY <1>2 DEF ForkLineEnds, Reply
  <2>v. /\ Stuck' <=> Stuck
        /\ \A j : AllOpenable(j)' <=> AllOpenable(j)
    BY <2>u, StuckStays
  <2>1. LockHeld' /\ NothingForgotten' /\ StageAdmits' /\ StageWhole' /\ Openable'
    BY <2>u, <2>v DEF ConfigInv, LockHeld, NothingForgotten, StageAdmits, StageWhole, Openable
  <2>2. InCall' /\ NothingLeft'
    BY <2>u, <2>v DEF ConfigInv, InCall, Searching, NothingLeft
  <2> QED BY <2>1, <2>2 DEF ConfigInv
<1>3. CASE LengthEnds
  <2>u. /\ UNCHANGED <<goal, unencodable, floats, cap, current, config, blocked, restricted, call,
                       displayed, budgetSpent>>
        /\ ~budgetSpent /\ ~restricted
        /\ emitted' = emitted \cup emittedHere /\ emittedHere' = {}
    BY <1>3 DEF LengthEnds, MergedKeys
  <2>f. stage.fork = None
    BY <2>u, <1>t DEF ConfigInv, InCall
  <2>b. config = None => Barren(stage.k)
    BY <2>u, <2>f, <1>t, <1>n DEF ConfigInv, StageWhole
  <2>e. config = None => emitted' = {} /\ emittedHere' = {}
    BY <2>u DEF ConfigInv, NothingForgotten
  <2>k. NextLen = stage.k + 1 /\ NextLen - 1 = stage.k /\ NextLen \in MinLen..MaxLen+1
    BY <1>t, LengthAssumption DEF NextLen
  <2>1. CASE PastEnd
    <3>1. stage' = None /\ pc' = "idle"
      BY <2>1, <1>3 DEF LengthEnds, Reply
    <3>2. NextLen > MaxLen
      BY <2>1 DEF PastEnd
    <3>3. NextLen <= MaxLen => ~CanOpen(NextLen)
      BY <3>2, <2>k, LengthAssumption
    <3> QED BY <3>1, <3>3, <2>u, <2>b, <2>e, <2>k, SweepStops
  <2>2. CASE ~PastEnd /\ OpenFails(NextLen)
    <3>1. ~CanOpen(NextLen) /\ stage' \in {stage, None} /\ pc' = "idle"
      BY <2>2 DEF OpenFails, CanOpen, Reply
    <3> QED BY <3>1, <2>u, <2>b, <2>e, <2>k, SweepStops
  <2>3. CASE ~PastEnd /\ ~OpenFails(NextLen)
    <3>1. /\ CanOpen(NextLen) /\ stage' = Opened(NextLen, None) /\ pc' = "draw"
          /\ answer' = answer
      BY <2>3, <1>3 DEF LengthEnds
    <3>2. NextLen \in MinLen..MaxLen
      BY <2>3, <2>k, LengthAssumption DEF PastEnd
    <3>3. \A j \in MinLen..NextLen-1 : CanOpen(j)
      BY <2>k, <1>t DEF ConfigInv, Openable, AllOpenable
    <3>4. pc # "idle"
      BY <1>n
    <3> HIDE DEF command, effort, history
    <3> QED BY <3>1, <3>2, <3>3, <3>4, <2>u, <2>b, <2>e, <2>k, SweepOpens
  <2> QED BY <2>1, <2>2, <2>3
<1> QED BY <1>1, <1>2, <1>3

LEMMA ConfigNext == TypeOK /\ Live /\ ConfigInv /\ [Next]_vars => ConfigInv'
<1> SUFFICES ASSUME TypeOK, Live, ConfigInv, [Next]_vars PROVE ConfigInv'
  OBVIOUS
<1>1. CASE UNCHANGED vars
  BY <1>1 DEF vars, command, search, effort, history, ConfigInv, LockHeld, NothingForgotten,
     StageAdmits, StageWhole, Openable, InCall, Searching, NothingLeft, Stuck, Barren,
     AllOpenable, CanOpen, OverCap, Primaries, Locked, Unblocked
<1> QED BY <1>1, ConfigCalls, ConfigPath, ConfigDraws, ConfigEnds DEF Next, Internal

\* The configuration invariant holds of every enumeration.
THEOREM ConfigCorrect == Enumerates => []ConfigInv
<1>1. Init => ConfigInv
  BY ConfigInit
<1>2. TypeOK /\ Live /\ ConfigInv /\ [Next]_vars => ConfigInv'
  BY ConfigNext
<1> QED BY <1>1, <1>2, TypeCorrect, PTL DEF Enumerates

\* A trace is answered by SolverYields alone.
LEMMA EmitsYields ==
  ASSUME TypeOK, Live, ConfigInv, Next, Emits
  PROVE  \E s \in goal : SolverYields(s) /\ answer'.trace = s /\ stage # None
                         /\ s \in stage.open
<1>1. pc = "draw" /\ answer.kind # "Trace" /\ answer'.kind = "Trace" /\ stage # None
  BY DEF Emits, ConfigInv, InCall, Live
<1>2. ~Calls /\ ~PathOpens /\ ~PathFails /\ ~PathResumes
  BY <1>1 DEF Calls, RefuseSpent, NextPath, NextConfigFirst, NextConfigSame, NextConfigMoves,
              Fork, ForkFirst, ForkPastEnd, ForkRigid, ForkOpens, Begin, PathOpens, PathFails,
              PathResumes
<1>3. ~ForkEnds /\ ~PathStops /\ ~ForkLineEnds /\ ~LengthEnds
  BY <1>1 DEF ForkEnds, PathStops, ForkLineEnds, LengthEnds
<1>4. ~StageSpent /\ ~SolverGivesUp /\ ~SolverUnsat
  BY <1>1 DEF StageSpent, SolverGivesUp, SolverUnsat
<1>5. \A s \in goal : ~SolverRepeats(s)
  BY <1>1 DEF SolverRepeats
<1>6. PICK s \in goal : SolverYields(s)
  BY <1>2, <1>3, <1>4, <1>5 DEF Next, Internal
<1> QED BY <1>1, <1>6 DEF SolverYields

\* Where a trace is answered over one on display, it has its configuration, or one
\* never on display if NextConfig asked.
LEMMA EmitKeepsConfig ==
  ASSUME TypeOK, Live, ConfigInv, Next, Emits, current # None
  PROVE  IF call.op = "config" THEN answer'.trace.config \notin displayed
         ELSE answer'.trace.config = current.config
<1>1. PICK s \in goal : SolverYields(s) /\ answer'.trace = s /\ stage # None
                        /\ s \in stage.open
  BY EmitsYields
<1>2. CASE call.op = "config"
  <2>1. config = None
    BY <1>2 DEF Emits, ConfigInv, InCall
  <2>2. s.config \notin blocked /\ s.config # None
    BY <1>1, GoalLengths, NotNone DEF ConfigInv, StageAdmits, Unblocked
  <2> QED BY <1>1, <1>2, <2>1, <2>2 DEF ConfigInv, NothingForgotten
<1>3. CASE call.op # "config"
  <2>1. ~budgetSpent
    BY <1>3 DEF Emits, ConfigInv, InCall, Searching
  <2>2. config # None
    <3> SUFFICES ASSUME config = None PROVE FALSE
      OBVIOUS
    <3>1. Stuck
      BY <1>3, <2>1 DEF ConfigInv, NothingLeft
    <3> QED BY <3>1, <1>1, StuckIsEmpty
  <2> QED BY <1>1, <1>3, <2>2 DEF ConfigInv, LockHeld, StageAdmits, Locked
<1> QED BY <1>2, <1>3

\* Only NextConfig leaves the configuration on display, in every enumeration: also
\* after a NextConfig that found nothing, a refusal, or a fork's end; and it never
\* comes back to a configuration it left.
THEOREM ConfigKept == Enumerates => KeepsConfig
<1>1. TypeOK /\ Live /\ ConfigInv /\ [Next]_vars =>
        [Emits /\ current # None =>
           IF call.op = "config" THEN answer'.trace.config \notin displayed
           ELSE answer'.trace.config = current.config]_vars
  BY EmitKeepsConfig
<1> QED BY <1>1, TypeCorrect, ConfigCorrect, PTL DEF Enumerates, KeepsConfig

----------------------------------------------------------------------------
(* The sweep over lengths: SweepInv.                                       *)

\* What is accounted for stays so while no answer is withdrawn.
LEMMA AccountedGrows ==
  ASSUME shown \subseteq shown'
  PROVE  \A s : Accounted(s) => Accounted(s)'
  BY DEF Accounted

LEMMA SweepInit == Init => SweepInv
  BY DEF Init, SweepInv, LeftWasSeen, SpentIsDry, HereIsShown, ShownIsKept, KeysAreHonest,
     SweptBelow, ForkWhole, SweepComplete, ConfigsComplete, Ends

\* A step that leaves the search and the answers alone.
LEMMA SweepKept ==
  ASSUME SweepInv,
         UNCHANGED <<goal, floats, current, search, history>>,
         budgetSpent => budgetSpent',
         SweepComplete', ConfigsComplete'
  PROVE  SweepInv'
<1> USE DEF search, history
<1>1. LeftWasSeen' /\ SpentIsDry' /\ ForkWhole'
  BY DEF SweepInv, LeftWasSeen, SpentIsDry, ForkWhole
<1>a. \A s : Accounted(s)' <=> Accounted(s)
  BY DEF Accounted
<1>2. HereIsShown' /\ ShownIsKept'
  BY DEF SweepInv, HereIsShown, ShownIsKept, Adrift, Forkable
<1>3. KeysAreHonest' /\ SweptBelow'
  BY <1>a DEF SweepInv, KeysAreHonest, SweptBelow, Forkable
<1> QED BY <1>1, <1>2, <1>3 DEF SweepInv

\* Nothing is claimed of a call in progress, nor of another answer than the end.
LEMMA NoClaim ==
  ASSUME pc' # "idle" \/ answer'.kind # "Exhausted" \/ call'.op = "fork"
  PROVE  SweepComplete' /\ ConfigsComplete'
  BY DEF SweepComplete, ConfigsComplete, Ends

LEMMA SweepCalls == TypeOK /\ Live /\ ConfigInv /\ SweepInv /\ Calls => SweepInv'
<1> SUFFICES ASSUME TypeOK, Live, ConfigInv, SweepInv, Calls PROVE SweepInv'
  OBVIOUS
<1> USE DEF Begin, Reply, Await, command, effort
<1>1. ASSUME NEW op \in Op, RefuseSpent(op, 0) PROVE SweepInv'
  BY <1>1, NoClaim, SweepKept DEF RefuseSpent
<1>2. CASE NextPath \/ NextConfigFirst \/ NextConfigSame
  <2>1. SweepComplete' /\ ConfigsComplete'
    BY <1>2, NoClaim DEF NextPath, NextConfigFirst, NextConfigSame
  <2> QED BY <1>2, <2>1, SweepKept DEF NextPath, NextConfigFirst, NextConfigSame
<1>3. CASE NextConfigMoves
  <2>u. /\ UNCHANGED <<goal, floats, current, displayed>>
        /\ blocked' = blocked \cup {config} /\ config # None
        /\ stage' = None /\ emitted' = {} /\ emittedHere' = {} /\ shown' = {}
        /\ pc' = "path"
    BY <1>3 DEF NextConfigMoves, StartsOver
  <2>1. LeftWasSeen'
    BY <2>u DEF SweepInv, LeftWasSeen, ConfigInv, LockHeld
  <2>2. SpentIsDry' /\ HereIsShown' /\ ShownIsKept' /\ KeysAreHonest' /\ SweptBelow' /\ ForkWhole'
    BY <2>u DEF SpentIsDry, HereIsShown, ShownIsKept, KeysAreHonest, SweptBelow, ForkWhole
  <2>3. SweepComplete' /\ ConfigsComplete'
    BY <2>u, NoClaim
  <2> QED BY <2>1, <2>2, <2>3 DEF SweepInv
<1>4. ASSUME NEW hold \in 0..MaxLen, Fork(hold) PROVE SweepInv'
  <2>1. CASE ForkFirst(hold) \/ ForkPastEnd(hold)
    <3>1. SweepComplete' /\ ConfigsComplete'
      BY <2>1, NoClaim DEF ForkFirst, ForkPastEnd
    <3> QED BY <2>1, <3>1, SweepKept DEF ForkFirst, ForkPastEnd
  <2>2. CASE ForkRigid(hold)
    <3>u. /\ UNCHANGED <<floats, blocked, current, displayed>>
          /\ floats.var = 0 /\ stage' = None /\ call'.op = "fork"
      BY <2>2 DEF ForkRigid, history
    <3>1. ~Forkable'
      BY <3>u DEF Forkable
    <3>2. SweepComplete' /\ ConfigsComplete'
      BY <3>u, NoClaim
    <3>3. LeftWasSeen' /\ SpentIsDry' /\ ForkWhole'
      BY <3>u DEF SweepInv, LeftWasSeen, SpentIsDry, ForkWhole
    <3> QED BY <3>1, <3>2, <3>3 DEF SweepInv, HereIsShown, ShownIsKept, KeysAreHonest, SweptBelow
  <2>3. CASE ForkOpens(hold)
    <3> DEFINE fork == [base |-> current, hold |-> hold]
    <3>u. /\ UNCHANGED <<goal, floats, current, config, blocked, displayed>>
          /\ current # None /\ stage' = Opened(current.k, fork)
          /\ emitted' = {} /\ emittedHere' = {} /\ shown' = {} /\ restricted' = TRUE
          /\ pc' = "draw"
      BY <2>3 DEF ForkOpens, StartsOver
    <3>s. /\ stage'.fork = fork /\ stage'.k = current.k /\ stage'.spent = FALSE
          /\ \A s : s \in stage'.open <=>
                s \in goal /\ s.k = current.k /\ Locked(s) /\ Unblocked(s) /\ Answers(s, fork)
      BY <3>u DEF Opened
    <3>1. SweepComplete' /\ ConfigsComplete'
      BY <3>u, NoClaim
    <3>2. LeftWasSeen' /\ SpentIsDry' /\ HereIsShown' /\ ShownIsKept' /\ KeysAreHonest' /\ SweptBelow'
      BY <3>u, <3>s DEF SweepInv, LeftWasSeen, SpentIsDry, HereIsShown, ShownIsKept,
                        KeysAreHonest, SweptBelow
    <3>3. ForkWhole'
      <4> SUFFICES ASSUME config # None, NEW s \in goal, s.config = config, Fits(s, fork)
                   PROVE  s \in stage'.open
        BY <3>u, <3>s DEF ForkWhole
      <4>1. s.k = current.k
        BY DEF Fits
      <4>2. Locked(s) /\ Unblocked(s) /\ Answers(s, fork)
        BY DEF Locked, Unblocked, Answers, ConfigInv, LockHeld
      <4> QED BY <4>1, <4>2, <3>s
    <3> QED BY <3>1, <3>2, <3>3 DEF SweepInv
  <2> QED BY <1>4, <2>1, <2>2, <2>3 DEF Fork
<1> QED BY <1>1, <1>2, <1>3, <1>4 DEF Calls

LEMMA SweepPath ==
  TypeOK /\ Live /\ ConfigInv /\ SweepInv /\ (PathOpens \/ PathFails \/ PathResumes \/ StageSpent)
    => SweepInv'
<1> SUFFICES ASSUME TypeOK, Live, ConfigInv, SweepInv,
                    PathOpens \/ PathFails \/ PathResumes \/ StageSpent
             PROVE  SweepInv'
  OBVIOUS
<1> USE DEF command, effort, history
<1>1. CASE PathOpens
  <2>u. /\ UNCHANGED <<goal, floats, current, config, blocked, emitted, emittedHere, budgetSpent,
                       restricted, shown, displayed>>
        /\ stage = None /\ stage' = Opened(MinLen, None) /\ pc' = "draw"
    BY <1>1 DEF PathOpens
  <2>s. /\ stage'.k = MinLen /\ stage'.fork = None /\ stage'.spent = FALSE
        /\ \A s : s \in stage'.open <=>
              s \in goal /\ s.k = MinLen /\ Locked(s) /\ Unblocked(s) /\ Answers(s, None)
    BY <2>u DEF Opened
  <2>a. \A s : Accounted(s)' <=> Accounted(s)
    BY <2>u DEF Accounted
  <2>1. LeftWasSeen' /\ SpentIsDry' /\ HereIsShown' /\ ForkWhole'
    BY <2>u, <2>s DEF SweepInv, LeftWasSeen, SpentIsDry, HereIsShown, ForkWhole, Forkable
  <2>2. ShownIsKept'
    BY <2>u, <2>s DEF SweepInv, ShownIsKept, Adrift, Forkable
  <2>3. KeysAreHonest'
    BY <2>u, <2>a DEF SweepInv, KeysAreHonest, Forkable
  <2>4. SweptBelow'
    <3> SUFFICES ASSUME NEW s \in goal, s.config = config, s.k <= MinLen
                 PROVE  s.k = MinLen /\ s \in stage'.open
      BY <2>u, <2>s DEF SweptBelow
    <3>1. s.k \in MinLen..MaxLen /\ s.config # None
      BY GoalLengths, NotNone
    <3>2. s.k = MinLen
      BY <3>1, LengthAssumption
    <3>3. Locked(s) /\ Unblocked(s) /\ Answers(s, None)
      BY <3>1 DEF Locked, Unblocked, Answers, ConfigInv, LockHeld
    <3> QED BY <3>2, <3>3, <2>s
  <2>5. SweepComplete' /\ ConfigsComplete'
    BY <2>u, NoClaim
  <2> QED BY <2>1, <2>2, <2>3, <2>4, <2>5 DEF SweepInv
<1>2. CASE PathFails
  <2>1. UNCHANGED <<goal, floats, current, search, history, budgetSpent>>
    BY <1>2 DEF PathFails, OpenFails, search
  <2>2. SweepComplete' /\ ConfigsComplete'
    BY <1>2, NoClaim DEF PathFails, OpenFails, Reply
  <2> QED BY <2>1, <2>2, SweepKept
<1>3. CASE PathResumes \/ StageSpent
  <2>1. SweepComplete' /\ ConfigsComplete'
    BY <1>3, NoClaim DEF PathResumes, StageSpent
  <2> QED BY <1>3, <2>1, SweepKept DEF PathResumes, StageSpent
<1> QED BY <1>1, <1>2, <1>3

\* A fork's stage that still holds a solution has a configuration to hold it to.
LEMMA ForksAreHeld ==
  ASSUME TypeOK, ConfigInv, SweepInv, pc = "draw", stage # None, stage.fork # None,
         NEW s \in stage.open
  PROVE  config # None
<1> SUFFICES ASSUME config = None PROVE FALSE
  OBVIOUS
<1>1. current # None /\ restricted /\ ~budgetSpent
  BY DEF SweepInv, ForkWhole, ConfigInv, InCall, Searching
<1>2. Stuck
  BY <1>1 DEF ConfigInv, NothingLeft
<1> QED BY <1>2, StuckIsEmpty

LEMMA SweepYields ==
  ASSUME TypeOK, Live, ConfigInv, SweepInv, NEW s \in goal, SolverYields(s)
  PROVE  SweepInv'
<1> USE DEF Drawing, Charged, command
<1>t. stage \in Stage /\ stage # None /\ stage.k \in MinLen..MaxLen /\ stage.k \in Int
  BY LengthAssumption DEF SolverYields, TypeOK, Live, Stage
<1>s. /\ stage' # None /\ stage'.k = stage.k /\ stage'.fork = stage.fork
      /\ stage'.spent = stage.spent /\ ~stage.spent
      /\ \A t : t \in stage'.open <=> t \in stage.open /\ t # s /\ t.config = config'
  <2>1. stage' = [stage EXCEPT !.open = {t \in @ \ {s} : t.config = config'}] /\ ~stage.spent
    BY DEF SolverYields
  <2> QED BY <2>1, <1>t, NotNone DEF Stage
<1>u. /\ UNCHANGED <<goal, floats, blocked, restricted, emitted, budgetSpent, call>>
      /\ s \in stage.open /\ current' = s /\ pc = "draw"
      /\ config' = IF config = None THEN s.config ELSE config
      /\ emittedHere' = emittedHere \cup {TraceKey(s)}
      /\ shown' = shown \cup {s} /\ displayed' = displayed \cup {s.config}
      /\ answer'.kind = "Trace"
  BY DEF SolverYields
<1>c. s # None /\ s.config \in Config /\ s.config # None
  BY GoalLengths, NotNone
<1>l. /\ s.k = stage.k
      /\ s.config \notin blocked
      /\ config' = s.config
  BY <1>u, <1>t DEF ConfigInv, StageAdmits, Locked, Unblocked
<1>a. \A t : Accounted(t) => Accounted(t)'
  BY <1>u, AccountedGrows
<1>1. LeftWasSeen' /\ SpentIsDry'
  BY <1>u, <1>s DEF SweepInv, LeftWasSeen, SpentIsDry
<1>2. HereIsShown'
  BY <1>u, <1>s, <1>l DEF SweepInv, HereIsShown, Forkable
<1>3. ShownIsKept'
  BY <1>u, <1>s, <1>l, <1>t DEF SweepInv, ShownIsKept, Adrift, Forkable
<1>4. KeysAreHonest'
  BY <1>u, <1>a DEF SweepInv, KeysAreHonest, Forkable, ConfigInv, NothingForgotten
<1>5. SweptBelow'
  <2> SUFFICES ASSUME ~restricted, Forkable,
                      NEW t \in goal, t.config = s.config, t.k <= stage.k
               PROVE  Accounted(t)' \/ (t.k = stage.k /\ t \in stage'.open)
    BY <1>u, <1>s, <1>l DEF SweptBelow, Forkable
  <2>1. Accounted(t) \/ (t.k = stage.k /\ t \in stage.open)
    <3>1. CASE config # None
      BY <3>1, <1>u, <1>l, <1>t DEF SweepInv, SweptBelow
    <3>2. CASE config = None
      <4>1. stage.fork = None
        BY <1>t DEF ConfigInv, InCall
      <4>2. Barren(stage.k - 1) /\ (t.k = stage.k /\ Unblocked(t) => t \in stage.open)
        BY <3>2, <4>1, <1>t DEF ConfigInv, StageWhole
      <4>3. t.config \notin blocked /\ t.k \in Int
        BY <1>l, GoalLengths
      <4>4. t.k > stage.k - 1
        BY <4>2, <4>3, <1>t DEF Barren
      <4> QED BY <4>2, <4>3, <4>4, <1>t DEF Unblocked
    <3> QED BY <3>1, <3>2
  <2>2. t = s => Accounted(t)'
    BY <1>u DEF Accounted
  <2> QED BY <2>1, <2>2, <1>a, <1>s, <1>l
<1>6. ForkWhole'
  <2>1. stage.fork # None => config # None
    BY <1>u, <1>t, ForksAreHeld
  <2> QED BY <2>1, <1>u, <1>s, <1>c, <1>l, <1>t DEF SweepInv, ForkWhole
<1>7. SweepComplete' /\ ConfigsComplete'
  BY <1>u, NoClaim
<1> QED BY <1>1, <1>2, <1>3, <1>4, <1>5, <1>6, <1>7 DEF SweepInv

LEMMA SweepDraws ==
  TypeOK /\ Live /\ ConfigInv /\ SweepInv
  /\ (SolverGivesUp \/ SolverUnsat \/ \E s \in goal : SolverRepeats(s))
    => SweepInv'
<1> SUFFICES ASSUME TypeOK, Live, ConfigInv, SweepInv,
                    SolverGivesUp \/ SolverUnsat \/ \E s \in goal : SolverRepeats(s)
             PROVE  SweepInv'
  OBVIOUS
<1> USE DEF Drawing, Charged, command, history
<1>t. stage \in Stage /\ stage # None
  BY DEF SolverGivesUp, SolverUnsat, SolverRepeats, TypeOK, Live
<1>u. /\ UNCHANGED <<goal, floats, current, config, blocked, emitted, emittedHere, restricted,
                     answer, shown, displayed>>
      /\ pc = "draw" /\ ~stage.spent /\ answer.kind = "Pending"
  BY DEF SolverGivesUp, SolverUnsat, SolverRepeats, ConfigInv, InCall
<1>a. \A s : Accounted(s)' <=> Accounted(s)
  BY <1>u DEF Accounted
<1>1. LeftWasSeen'
  BY <1>u DEF SweepInv, LeftWasSeen
<1>2. KeysAreHonest'
  BY <1>u, <1>a DEF SweepInv, KeysAreHonest, Forkable
<1>3. SweepComplete' /\ ConfigsComplete'
  BY <1>u, NoClaim
<1>4. CASE SolverGivesUp \/ SolverUnsat
  <2>1. /\ stage' # None /\ stage'.k = stage.k /\ stage'.open = stage.open
        /\ stage'.fork = stage.fork /\ stage'.spent = TRUE
    BY <1>4, <1>t, NotNone DEF SolverGivesUp, SolverUnsat, Stage
  <2>2. SpentIsDry'
    BY <1>4, <2>1 DEF SolverGivesUp, SolverUnsat, SpentIsDry
  <2>3. HereIsShown' /\ ShownIsKept'
    BY <1>u, <1>t, <2>1 DEF SweepInv, HereIsShown, ShownIsKept, Adrift, Forkable
  <2>4. SweptBelow' /\ ForkWhole'
    BY <1>u, <1>a, <1>t, <2>1 DEF SweepInv, SweptBelow, ForkWhole, Forkable
  <2> QED BY <1>1, <1>2, <1>3, <2>2, <2>3, <2>4 DEF SweepInv
<1>5. ASSUME NEW s \in goal, SolverRepeats(s) PROVE SweepInv'
  <2>1. /\ stage' # None /\ stage'.k = stage.k /\ stage'.open = stage.open \ {s}
        /\ stage'.fork = stage.fork /\ stage'.spent = stage.spent
        /\ TraceKey(s) \in emitted
    BY <1>5, <1>t, NotNone DEF SolverRepeats, Stage
  <2>2. SpentIsDry'
    BY <1>u, <2>1 DEF SpentIsDry
  <2>3. HereIsShown' /\ ShownIsKept'
    BY <1>u, <1>t, <2>1 DEF SweepInv, HereIsShown, ShownIsKept, Adrift, Forkable
  <2>4. SweptBelow'
    <3>1. ~restricted /\ Forkable /\ s.config = config => Accounted(s)
      BY <2>1 DEF SweepInv, KeysAreHonest
    <3> QED BY <1>u, <1>a, <1>t, <2>1, <3>1 DEF SweepInv, SweptBelow, Forkable
  <2>5. ForkWhole'
    BY <1>u, <1>t, <2>1 DEF SweepInv, ForkWhole
  <2> QED BY <1>1, <1>2, <1>3, <2>2, <2>3, <2>4, <2>5 DEF SweepInv
<1> QED BY <1>4, <1>5

\* The end of a length: everything up to it is accounted for, and its keys join the
\* others.
LEMMA LengthSwept ==
  ASSUME TypeOK, Live, ConfigInv, SweepInv, LengthEnds
  PROVE  /\ Forkable => \A s \in goal : s.config = config /\ s.k <= stage.k => Accounted(s)
         /\ Forkable => \A s \in goal :
              s.config = config /\ TraceKey(s) \in emitted' => Accounted(s)
         /\ Forkable => \A t \in shown : TraceKey(t) \in emitted'
         /\ config = None => Barren(stage.k)
<1>t. stage \in Stage /\ stage # None /\ stage.k \in MinLen..MaxLen /\ stage.k \in Int
  BY LengthAssumption DEF LengthEnds, TypeOK, Live, Stage
<1>u. /\ pc = "none" /\ ~budgetSpent /\ ~restricted /\ stage.spent
      /\ emitted' = emitted \cup emittedHere
  BY DEF LengthEnds, MergedKeys, ConfigInv, InCall
<1>o. stage.open = {} /\ stage.fork = None
  BY <1>t, <1>u DEF SweepInv, SpentIsDry, ConfigInv, InCall
<1>1. Forkable => \A s \in goal : s.config = config /\ s.k <= stage.k => Accounted(s)
  BY <1>t, <1>u, <1>o DEF SweepInv, SweptBelow
<1>2. ASSUME Forkable, NEW s \in goal, s.config = config, TraceKey(s) \in emitted'
      PROVE  Accounted(s)
  <2>1. CASE TraceKey(s) \in emitted
    BY <1>2, <2>1, <1>u DEF SweepInv, KeysAreHonest
  <2>2. CASE TraceKey(s) \in emittedHere
    <3>1. PICK t \in shown : t.k = stage.k /\ TraceKey(t) = TraceKey(s)
      BY <1>2, <2>2, <1>u DEF SweepInv, HereIsShown
    <3>2. s.k \in Int
      BY GoalLengths
    <3>3. CASE s.k <= stage.k
      BY <1>1, <1>2, <3>3
    <3>4. CASE t.k < s.k
      BY <3>1, <3>4 DEF Accounted
    <3> QED BY <3>1, <3>2, <3>3, <3>4, <1>t
  <2> QED BY <1>2, <2>1, <2>2, <1>u
<1>3. Forkable => \A t \in shown : TraceKey(t) \in emitted'
  BY <1>u DEF SweepInv, ShownIsKept, Adrift
<1>4. config = None => Barren(stage.k)
  BY <1>t, <1>u, <1>o DEF ConfigInv, StageWhole
<1> QED BY <1>1, <1>2, <1>3, <1>4

LEMMA SweepEnds ==
  TypeOK /\ Live /\ ConfigInv /\ SweepInv /\ (ForkEnds \/ PathStops \/ ForkLineEnds \/ LengthEnds)
    => SweepInv'
<1> SUFFICES ASSUME TypeOK, Live, ConfigInv, SweepInv,
                    ForkEnds \/ PathStops \/ ForkLineEnds \/ LengthEnds
             PROVE  SweepInv'
  OBVIOUS
<1> USE DEF command, effort, history
<1>1. CASE ForkEnds \/ PathStops
  <2>1. SweepComplete' /\ ConfigsComplete'
    BY <1>1, NoClaim DEF ForkEnds, PathStops, Forking, Reply
  <2> QED BY <1>1, <2>1, SweepKept DEF ForkEnds, PathStops
<1>2. CASE ForkLineEnds
  <2>u. /\ UNCHANGED <<floats, current, blocked, displayed>>
        /\ stage' = None /\ restricted'
    BY <1>2 DEF ForkLineEnds
  <2> QED BY <2>u DEF SweepInv, LeftWasSeen, SpentIsDry, HereIsShown, ShownIsKept, Adrift,
                      KeysAreHonest, SweptBelow, ForkWhole, SweepComplete, ConfigsComplete
<1>3. CASE LengthEnds
  <2>t. stage \in Stage /\ stage # None /\ stage.k \in MinLen..MaxLen /\ stage.k \in Int
    BY <1>3, LengthAssumption DEF LengthEnds, TypeOK, Live, Stage
  <2>u. /\ UNCHANGED <<goal, floats, current, config, blocked, budgetSpent, restricted, call, shown,
                       displayed>>
        /\ ~restricted /\ ~budgetSpent /\ pc = "none" /\ emittedHere' = {}
        /\ answer.kind = "Pending"
    BY <1>3 DEF LengthEnds, ConfigInv, InCall
  <2>o. stage.open = {} /\ stage.fork = None
    BY <1>3, <2>t, <2>u DEF SweepInv, SpentIsDry, ConfigInv, InCall
  <2>a. \A s : Accounted(s)' <=> Accounted(s)
    BY <2>u DEF Accounted
  <2>d. NextLen = stage.k + 1 /\ (PastEnd <=> stage.k = MaxLen)
    BY <2>t, LengthAssumption DEF NextLen, PastEnd
  <2>s. \/ stage' = None
        \/ stage' = stage /\ answer'.kind # "Exhausted"
        \/ /\ pc' = "draw"
           /\ stage'.k = stage.k + 1 /\ stage'.fork = None /\ stage'.spent = FALSE
           /\ \A s : s \in stage'.open <=>
                 s \in goal /\ s.k = stage.k + 1 /\ Locked(s) /\ Unblocked(s) /\ Answers(s, None)
    BY <1>3, <2>d DEF LengthEnds, OpenFails, Reply, Opened
  <2>1. LeftWasSeen' /\ SpentIsDry' /\ HereIsShown' /\ ForkWhole'
    BY <2>u, <2>s, <2>o DEF SweepInv, LeftWasSeen, SpentIsDry, HereIsShown, ForkWhole
  <2>2. ShownIsKept'
    BY <1>3, <2>u, LengthSwept DEF ShownIsKept, Forkable
  <2>3. KeysAreHonest'
    BY <1>3, <2>u, <2>a, LengthSwept DEF KeysAreHonest, Forkable
  <2>4. SweptBelow'
    <3> SUFFICES ASSUME Forkable, stage' # None, NEW s \in goal, s.config = config, s.k <= stage'.k
                 PROVE  Accounted(s) \/ (s.k = stage'.k /\ s \in stage'.open)
      BY <2>u, <2>a DEF SweptBelow, Forkable
    <3>1. CASE s.k <= stage.k
      BY <3>1, <1>3, LengthSwept
    <3>2. CASE ~(s.k <= stage.k)
      <4>1. stage' # stage /\ s.k \in Int /\ s.config # None
        BY <3>2, <2>t, GoalLengths, NotNone
      <4>2. stage'.k = stage.k + 1 /\ s.k = stage.k + 1
        BY <4>1, <3>2, <2>s, <2>t
      <4>3. Locked(s) /\ Unblocked(s) /\ Answers(s, None)
        BY <4>1 DEF Locked, Unblocked, Answers, ConfigInv, LockHeld
      <4> QED BY <4>1, <4>2, <4>3, <2>s
    <3> QED BY <3>1, <3>2
  <2>e. pc' = "idle" /\ answer'.kind = "Exhausted" => stage.k = MaxLen
    BY <1>3, <2>d DEF LengthEnds, OpenFails, Reply
  <2>5. SweepComplete'
    <3> SUFFICES ASSUME stage.k = MaxLen, Forkable, NEW s \in goal, s.config = config
                 PROVE  Accounted(s)
      BY <2>u, <2>a, <2>e DEF SweepComplete, Ends, Forkable, SweptOut
    <3>1. s.k <= stage.k
      BY GoalLengths, LengthAssumption
    <3> QED BY <3>1, <1>3, LengthSwept
  <2>6. ConfigsComplete'
    <3> SUFFICES ASSUME stage.k = MaxLen, call.op = "config", NEW s \in goal
                 PROVE  s.config \in displayed
      BY <2>u, <2>e DEF ConfigsComplete, Ends
    <3>1. config = None
      BY <2>u DEF ConfigInv, InCall
    <3>2. s.k <= stage.k /\ Barren(stage.k)
      BY <3>1, <1>3, LengthSwept, GoalLengths, LengthAssumption
    <3> QED BY <3>2 DEF Barren, SweepInv, LeftWasSeen
  <2> QED BY <2>1, <2>2, <2>3, <2>4, <2>5, <2>6 DEF SweepInv
<1> QED BY <1>1, <1>2, <1>3

LEMMA SweepNext == TypeOK /\ Live /\ ConfigInv /\ SweepInv /\ [Next]_vars => SweepInv'
<1> SUFFICES ASSUME TypeOK, Live, ConfigInv, SweepInv, [Next]_vars PROVE SweepInv'
  OBVIOUS
<1>1. CASE UNCHANGED vars
  <2>1. UNCHANGED <<goal, floats, current, search, history, budgetSpent, pc, answer, call>>
    BY <1>1 DEF vars, command, effort
  <2>2. SweepComplete' /\ ConfigsComplete'
    BY <2>1 DEF SweepInv, SweepComplete, ConfigsComplete, Ends, Forkable, SweptOut, Accounted,
                search, history
  <2> QED BY <2>1, <2>2, SweepKept
<1> QED BY <1>1, SweepCalls, SweepPath, SweepDraws, SweepYields, SweepEnds DEF Next, Internal

\* What the sweep keeps between calls: every answer and its key, and nothing left
\* behind.
THEOREM SweepCorrect == Enumerates => []SweepInv
<1>1. Init => SweepInv
  BY SweepInit
<1>2. TypeOK /\ Live /\ ConfigInv /\ SweepInv /\ [Next]_vars => SweepInv'
  BY SweepNext
<1> QED BY <1>1, <1>2, TypeCorrect, ConfigCorrect, PTL DEF Enumerates

\* Exhaustion of the path sweep is a proof that every solution of the configuration
\* was answered, after whatever calls, budget, cap and encoding errors.
THEOREM SweepIsComplete == Enumerates => []SweepComplete
<1>1. SweepInv => SweepComplete
  BY DEF SweepInv
<1> QED BY <1>1, SweepCorrect, PTL

\* When NextConfig is exhausted, every configuration with a solution was shown.
THEOREM ConfigsAreComplete == Enumerates => []ConfigsComplete
<1>1. SweepInv => ConfigsComplete
  BY DEF SweepInv
<1> QED BY <1>1, SweepCorrect, PTL

\* The two-level duplicate unit: no solution twice at one length, no infinite trace
\* twice across lengths, in every interleaving of calls.
THEOREM NeverRepeats == Enumerates => NoRepeat
<1>1. TypeOK /\ Live /\ ConfigInv /\ SweepInv /\ [Next]_vars =>
        [Emits /\ ~Adrift /\ Forkable => ~Accounted(answer'.trace)]_vars
  <2> SUFFICES ASSUME TypeOK, Live, ConfigInv, SweepInv, Next, Emits, ~Adrift, Forkable,
                      Accounted(answer'.trace)
               PROVE  FALSE
    OBVIOUS
  <2>1. PICK s \in goal : SolverYields(s) /\ answer'.trace = s /\ stage # None
                          /\ s \in stage.open
    BY EmitsYields
  <2>2. TraceKey(s) \notin emitted /\ s.k = stage.k /\ stage.k \in Int
    BY <2>1, LengthAssumption DEF SolverYields, ConfigInv, StageAdmits, TypeOK, Stage
  <2>3. s \notin shown
    BY <2>1, <2>2 DEF SweepInv, ShownIsKept
  <2>4. PICK t \in shown : t.k < s.k /\ TraceKey(t) = TraceKey(s)
    BY <2>1, <2>3 DEF Accounted
  <2>5. t.k = stage.k
    BY <2>2, <2>4 DEF SweepInv, ShownIsKept
  <2> QED BY <2>2, <2>4, <2>5
<1> QED BY <1>1, TypeCorrect, ConfigCorrect, SweepCorrect, PTL DEF Enumerates, NoRepeat

\* Exhaustion of a fork, or of the path that continues it, is a proof that every
\* solution that answers it in the configuration held was answered.
THEOREM ForksAreComplete == Enumerates => ForkComplete
<1>1. TypeOK /\ Live /\ ConfigInv /\ SweepInv /\ [Next]_vars =>
        [/\ pc = "none"
         /\ stage.fork # None
         /\ config # None
         /\ answer'.kind = "Exhausted"
         => \A s \in goal : s.config = config /\ Fits(s, stage.fork) => s \in shown]_vars
  <2> SUFFICES ASSUME TypeOK, Live, ConfigInv, SweepInv, Next, pc = "none",
                      stage.fork # None, config # None, answer'.kind = "Exhausted",
                      NEW s \in goal, s.config = config, Fits(s, stage.fork)
               PROVE  s \in shown
    OBVIOUS
  <2>1. stage # None /\ stage.spent
    BY DEF Live, ConfigInv, InCall
  <2>2. ForkEnds \/ PathStops \/ ForkLineEnds \/ LengthEnds
    BY DEF Next, Calls, Internal, RefuseSpent, NextPath, NextConfigFirst, NextConfigSame,
           NextConfigMoves, Fork, ForkFirst, ForkPastEnd, ForkRigid, ForkOpens, Begin,
           PathOpens, PathFails, PathResumes, StageSpent, SolverGivesUp, SolverUnsat,
           SolverRepeats, SolverYields, Drawing
  <2>3. ~budgetSpent
    BY <2>2 DEF ForkEnds, PathStops, ForkLineEnds, LengthEnds, Reply
  <2>4. stage.open = {}
    BY <2>1, <2>3 DEF SweepInv, SpentIsDry
  <2> QED BY <2>1, <2>4 DEF SweepInv, ForkWhole
<1> QED BY <1>1, TypeCorrect, ConfigCorrect, SweepCorrect, PTL DEF Enumerates, ForkComplete

----------------------------------------------------------------------------
(* The session.                                                            *)

SolverSide == TypeOK /\ Live /\ ConfigInv /\ SweepInv

\* A remainder of less than the divisor is the number itself.
LEMMA SmallRemainder ==
  ASSUME NEW n \in Nat \ {0}, NEW w \in 0..n-1
  PROVE  w % n = w
<1> DEFINE p == w \div n
           r == w % n
<1>1. p \in Int /\ r \in 0..n-1 /\ w = n * p + r
  BY SMT
<1> HIDE DEF p
<1>2. p >= 1 => n * p >= n
  BY <1>1, SMT
<1>3. p <= -1 => n * p <= -n
  BY <1>1, SMT
<1> QED BY <1>1, <1>2, <1>3, SMT

\* The evaluator's state of an index is the position of that instant in the lasso.
LEMMA EvaluatorStands ==
  ASSUME NEW s \in Solution, NEW i \in Nat
  PROVE  /\ NormalizeState(s, i) \in 0..s.k-1
         /\ At(s, i) = s.states[NormalizeState(s, i)]
<1>1. s.k \in Nat \ {0} /\ s.loop \in 0..s.k-1
  BY LengthAssumption DEF Solution
<1> DEFINE n == s.k - s.loop
<1>2. n \in Nat \ {0} /\ s.loop \in Nat /\ n = s.k - s.loop
  BY <1>1
<1>3. /\ NormalizeState(s, i) = IF i > s.loop THEN s.loop + ((i - s.loop) % n) ELSE i
      /\ Position(s, i) = IF i < s.k THEN i ELSE s.loop + ((i - s.loop) % n)
  BY DEF NormalizeState, Position
<1> HIDE DEF n
<1>4. i >= s.loop => (i - s.loop) % n \in 0..n-1
  BY <1>1, <1>2
<1>5. ASSUME i >= s.loop, i < s.k
      PROVE  (i - s.loop) % n = i - s.loop
  <2>1. i - s.loop \in 0..n-1
    BY <1>1, <1>2, <1>5
  <2> QED BY <1>2, <2>1, SmallRemainder
<1>6. NormalizeState(s, i) = Position(s, i)
  <2>1. CASE i > s.loop /\ i < s.k
    BY <2>1, <1>1, <1>3, <1>5
  <2>2. CASE ~(i > s.loop)
    BY <2>2, <1>1, <1>3
  <2>3. CASE i > s.loop /\ ~(i < s.k)
    BY <2>3, <1>3
  <2> QED BY <2>1, <2>2, <2>3
<1>7. NormalizeState(s, i) \in 0..s.k-1
  BY <1>1, <1>2, <1>3, <1>4
<1> QED BY <1>6, <1>7 DEF At

-----------------------------------------------------------------------------
(* Each step of the session is a step of the enumerator, or none.          *)

\* A fork that is clicked for holds a state that the longest trace has.
LEMMA ForkInRange ==
  ASSUME TypeOK, SessionInv, Serving, NEW requested \in 0..MaxLen \cup {None},
         ~NamesNoState(requested)
  PROVE  ForkState(requested) \in 0..MaxLen /\ ForkState(requested) > 0
<1>1. screen.trace \in Solution /\ current \in Solution /\ evaluatorAt \in Nat
  BY GoalSolutions, NotNone DEF Serving, SessionInv, SessionPhases, EvaluatorClamped, TypeOK
<1>2. /\ current.k \in MinLen..MaxLen /\ screen.trace.k \in MinLen..MaxLen
      /\ EvaluatorState \in 0..screen.trace.k-1
  BY <1>1, SolutionFields, EvaluatorStands DEF EvaluatorState
<1>3. CASE requested = None
  BY <1>2, <1>3, LengthAssumption DEF ForkState
<1>4. CASE requested # None
  BY <1>2, <1>4, LengthAssumption DEF ForkState, NamesNoState
<1> QED BY <1>3, <1>4

\* What a request asks of the enumerator is one of its calls, or nothing.
LEMMA RequestsCall ==
  TypeOK /\ SessionInv /\ Requests => Calls \/ UNCHANGED vars
<1> SUFFICES ASSUME TypeOK, SessionInv, Requests PROVE Calls \/ UNCHANGED vars
  OBVIOUS
<1>1. CASE DirectCall \/ LaunchAsks
  BY <1>1 DEF DirectCall, LaunchAsks, Calls
<1>2. CASE ClickWhenSpent \/ ClickRetired
  BY <1>2 DEF ClickWhenSpent, ClickRetired, Refuse
<1>3. CASE ClickNextTrace \/ ClickNextConfig
  BY <1>3 DEF ClickNextTrace, ClickNextConfig, Calls
<1>4. CASE ClickNewInit
  BY <1>4, LengthAssumption DEF ClickNewInit, Calls
<1>5. ASSUME NEW requested \in 0..MaxLen \cup {None},
             ClickOutOfRange(requested) \/ ClickNewFork(requested)
      PROVE  Calls \/ UNCHANGED vars
  BY <1>5, ForkInRange DEF ClickOutOfRange, ClickNewFork, Refuse, Calls
<1>6. ASSUME NEW index \in StateIndices, EvalState(index) PROVE UNCHANGED vars
  BY <1>6 DEF EvalState
<1> QED BY <1>1, <1>2, <1>3, <1>4, <1>5, <1>6 DEF Requests

LEMMA SessionSteps ==
  TypeOK /\ SessionInv /\ [SessionNext]_sessionVars => [Next]_vars
<1> SUFFICES ASSUME TypeOK, SessionInv, [SessionNext]_sessionVars PROVE [Next]_vars
  OBVIOUS
<1>1. CASE Answering
  BY <1>1 DEF Answering, LaunchShows, LaunchStops, Enumerating, TakeTrace, TakeRefusal,
              Answered, Next
<1> QED BY <1>1, RequestsCall DEF SessionNext, sessionVars, Next

-----------------------------------------------------------------------------
(* What the enumerator's steps do to what the session sees of it.          *)

LEMMA CallsQuiet ==
  ASSUME Calls
  PROVE  /\ pc = "idle"
         /\ answer'.kind # "Trace"
         /\ UNCHANGED <<current, displayed>>
<1> USE DEF Begin, Reply, Await, history
<1>1. ASSUME NEW op \in Op, RefuseSpent(op, 0)
      PROVE  pc = "idle" /\ answer'.kind # "Trace" /\ UNCHANGED <<current, displayed>>
  BY <1>1 DEF RefuseSpent
<1>2. CASE NextPath \/ NextConfigFirst \/ NextConfigSame \/ NextConfigMoves
  BY <1>2 DEF NextPath, NextConfigFirst, NextConfigSame, NextConfigMoves
<1>3. ASSUME NEW hold \in 0..MaxLen, Fork(hold)
      PROVE  pc = "idle" /\ answer'.kind # "Trace" /\ UNCHANGED <<current, displayed>>
  BY <1>3 DEF Fork, ForkFirst, ForkPastEnd, ForkRigid, ForkOpens
<1> QED BY <1>1, <1>2, <1>3 DEF Calls

LEMMA InternalQuiet ==
  ASSUME TypeOK, Live, ConfigInv, Internal
  PROVE  /\ pc # "idle"
         /\ UNCHANGED call
         /\ \/ /\ answer'.kind # "Trace"
               /\ UNCHANGED <<current, displayed>>
            \/ \E s \in goal : /\ SolverYields(s) /\ stage # None /\ s \in stage.open
                               /\ pc = "draw" /\ pc' = "idle" /\ Emits
                               /\ answer'.trace = s /\ answer'.kind = "Trace"
                               /\ current' = s /\ s # None
                               /\ displayed' = displayed \cup {s.config}
<1> USE DEF history, search, effort, command, Drawing
<1>1. pc # "idle" => answer.kind = "Pending"
  BY DEF ConfigInv, InCall
<1>2. CASE PathOpens \/ PathFails \/ PathResumes \/ StageSpent
  BY <1>1, <1>2 DEF PathOpens, PathFails, PathResumes, StageSpent, OpenFails, Reply
<1>3. CASE SolverGivesUp \/ SolverUnsat \/ \E s \in goal : SolverRepeats(s)
  BY <1>1, <1>3 DEF SolverGivesUp, SolverUnsat, SolverRepeats
<1>4. ASSUME NEW s \in goal, SolverYields(s)
      PROVE  /\ pc = "draw" /\ pc' = "idle" /\ Emits /\ stage # None /\ s \in stage.open
             /\ answer'.trace = s /\ answer'.kind = "Trace"
             /\ current' = s /\ s # None /\ UNCHANGED call
             /\ displayed' = displayed \cup {s.config}
  BY <1>4, GoalLengths, NotNone DEF SolverYields, Emits, Live
<1>5. CASE ForkEnds \/ PathStops \/ ForkLineEnds \/ LengthEnds
  BY <1>1, <1>5 DEF ForkEnds, PathStops, ForkLineEnds, LengthEnds, OpenFails, Reply
<1> QED BY <1>2, <1>3, <1>4, <1>5 DEF Internal

\* A fork over a trace on display draws from its own stage until it is answered.
LEMMA ForkRuns ==
  ASSUME TypeOK, Live, ConfigInv, Internal, pc # "path", call.op = "fork", current # None,
         pc' # "idle"
  PROVE  pc' # "path" /\ stage'.fork = stage.fork /\ UNCHANGED current
<1> USE DEF history, search, effort, command, Drawing
<1>t. pc \in {"draw", "none"} => stage \in Stage
  BY DEF TypeOK, Live
<1>1. CASE StageSpent
  BY <1>1 DEF StageSpent
<1>2. CASE SolverGivesUp \/ SolverUnsat \/ \E s \in goal : SolverRepeats(s)
  BY <1>2, <1>t DEF SolverGivesUp, SolverUnsat, SolverRepeats, Stage
<1>3. ~PathOpens /\ ~PathFails /\ ~PathResumes /\ ~PathStops /\ ~ForkLineEnds /\ ~LengthEnds
  BY DEF PathOpens, PathFails, PathResumes, PathStops, ForkLineEnds, LengthEnds, Forking
<1>4. ~ForkEnds /\ \A s \in goal : ~SolverYields(s)
  BY DEF ForkEnds, SolverYields, Reply
<1> QED BY <1>1, <1>2, <1>3, <1>4 DEF Internal

\* The live stage of a fork only holds answers to it.
ForkStageFits == stage # None /\ stage.fork # None => \A t \in stage.open : Fits(t, stage.fork)

LEMMA ForkStageFitsNext ==
  ASSUME TypeOK, Live, ForkStageFits, Next
  PROVE  ForkStageFits'
<1> USE DEF ForkStageFits, history, search, effort, command, Drawing
<1>t. pc \in {"draw", "none"} => stage \in Stage
  BY DEF TypeOK, Live
<1>1. CASE UNCHANGED stage \/ stage' = None
  BY <1>1
<1>2. CASE SolverGivesUp \/ SolverUnsat \/ \E s \in goal : SolverRepeats(s) \/ SolverYields(s)
  <2>1. stage # None /\ stage'.fork = stage.fork /\ stage'.open \subseteq stage.open
    <3>1. CASE SolverGivesUp \/ SolverUnsat
      BY <3>1, <1>t DEF SolverGivesUp, SolverUnsat, Live, Stage
    <3>2. CASE \E s \in goal : SolverRepeats(s)
      BY <3>2, <1>t DEF SolverRepeats, Live, Stage
    <3>3. CASE \E s \in goal : SolverYields(s)
      BY <3>3, <1>t DEF SolverYields, Live, Stage
    <3> QED BY <1>2, <3>1, <3>2, <3>3
  <2> QED BY <2>1
<1>3. ASSUME NEW k, stage' = Opened(k, None)
      PROVE  ForkStageFits'
  BY <1>3 DEF Opened
<1>4. ASSUME NEW hold \in 0..MaxLen, ForkOpens(hold)
      PROVE  ForkStageFits'
  BY <1>4 DEF ForkOpens, Opened, Answers
<1>5. CASE Calls
  <2>1. Calls => \/ UNCHANGED stage \/ stage' = None
                 \/ \E hold \in 0..MaxLen : ForkOpens(hold)
    BY DEF Calls, RefuseSpent, NextPath, NextConfigFirst, NextConfigSame, NextConfigMoves, Fork,
           ForkFirst, ForkPastEnd, ForkRigid
  <2> QED BY <1>1, <1>4, <1>5, <2>1
<1>6. CASE PathOpens \/ PathFails \/ PathResumes \/ StageSpent
  BY <1>1, <1>3, <1>6 DEF PathOpens, PathFails, PathResumes, StageSpent, OpenFails
<1>7. CASE ForkEnds \/ PathStops \/ ForkLineEnds \/ LengthEnds
  BY <1>1, <1>3, <1>7 DEF ForkEnds, PathStops, ForkLineEnds, LengthEnds, OpenFails
<1> QED BY <1>2, <1>5, <1>6, <1>7 DEF Next, Internal

-----------------------------------------------------------------------------
(* The session's invariant.                                                *)

LEMMA SessionStarts == SessionInit => SessionInv
<1> SUFFICES ASSUME SessionInit PROVE SessionInv
  OBVIOUS
<1>1. AnswerIsCurrent
  BY DEF SessionInit, Init, AnswerIsCurrent
<1>2. SessionPhases /\ SeenWasAnswered /\ EvaluatorClamped
  BY DEF SessionInit, SessionPhases, SeenWasAnswered, EvaluatorClamped
<1>3. ClickIsCall /\ ForkIsAsked /\ ScreenIsCurrent
  BY DEF SessionInit, Init, ClickIsCall, ForkIsAsked, ScreenIsCurrent
<1> QED BY <1>1, <1>2, <1>3 DEF SessionInv

\* A step of the enumerator that no session sees.
LEMMA DirectCalls ==
  ASSUME SolverSide, SessionInv, DirectCall
  PROVE  SessionInv'
<1>1. phase = "direct" /\ Calls /\ UNCHANGED session /\ Next
  BY DEF DirectCall, Next
<1>2. answer'.kind # "Trace"
  BY <1>1, CallsQuiet
<1>3. ForkStageFits'
  BY <1>1, ForkStageFitsNext DEF SolverSide, ForkStageFits, SessionInv, ForkIsAsked
<1> QED BY <1>1, <1>2, <1>3 DEF session, SessionInv, AnswerIsCurrent, SessionPhases, ClickIsCall,
                SeenWasAnswered, EvaluatorClamped, ForkIsAsked, ForkStageFits, ScreenIsCurrent

\* A click that becomes a call, and the launch's own first call.
LEMMA ClicksCall ==
  ASSUME SolverSide, SessionInv, Calls, phase = "serving", NEW verb \in Verbs, Asks(verb),
         click = None,
         verb = "next-config" <=> call'.op = "config",
         verb \in Forks <=> call'.op = "fork",
         verb = "new-fork" => call'.hold > 0
  PROVE  SessionInv'
<1>u. /\ UNCHANGED <<unrenderable, phase, screen, evaluatorAt, seen>>
      /\ click' = verb /\ click' # None
  BY VerbsAssumption DEF Asks
<1>c. /\ pc = "idle" /\ answer'.kind # "Trace"
      /\ UNCHANGED <<current, displayed>>
      /\ current # None
  BY CallsQuiet DEF SessionInv, SessionPhases
<1>1. AnswerIsCurrent' /\ SeenWasAnswered' /\ EvaluatorClamped'
  BY <1>u, <1>c DEF SessionInv, AnswerIsCurrent, SeenWasAnswered, EvaluatorClamped
<1>2. SessionPhases'
  BY <1>u, <1>c DEF SessionInv, SessionPhases
<1>3. ClickIsCall'
  BY <1>u DEF ClickIsCall
<1>4. ScreenIsCurrent'
  BY <1>u, <1>c DEF SessionInv, ScreenIsCurrent, RendersAll
<1>5. ForkStageFits'
  BY ForkStageFitsNext DEF Next, SolverSide, ForkStageFits, SessionInv, ForkIsAsked
<1>6. ASSUME verb \in Forks, pc' # "idle"
      PROVE  pc' # "path" /\ stage'.fork = [base |-> current, hold |-> call'.hold]
  <2>1. call'.op = "fork"
    BY <1>6
  <2>2. PICK hold \in 0..MaxLen : Fork(hold)
    BY <2>1, <1>6 DEF Calls, RefuseSpent, NextPath, NextConfigFirst, NextConfigSame,
                      NextConfigMoves, Begin, Reply
  <2>3. ForkOpens(hold)
    BY <2>2, <1>6, <1>c DEF Fork, ForkFirst, ForkPastEnd, ForkRigid, Reply
  <2> QED BY <2>3 DEF ForkOpens, Opened, Begin
<1>7. ForkIsAsked'
  BY <1>u, <1>c, <1>5, <1>6 DEF ForkIsAsked, ForkStageFits
<1> QED BY <1>1, <1>2, <1>3, <1>4, <1>7 DEF SessionInv

LEMMA LaunchCalls ==
  ASSUME SolverSide, SessionInv, LaunchAsks
  PROVE  SessionInv'
<1>1. phase = "launching" /\ Calls /\ UNCHANGED session /\ Next
  BY DEF LaunchAsks, Calls, Next
<1>2. answer'.kind # "Trace"
  BY <1>1, CallsQuiet
<1>3. ForkStageFits'
  BY <1>1, ForkStageFitsNext DEF SolverSide, ForkStageFits, SessionInv, ForkIsAsked
<1> QED BY <1>1, <1>2, <1>3 DEF session, SessionInv, AnswerIsCurrent, SessionPhases, ClickIsCall,
                SeenWasAnswered, EvaluatorClamped, ForkIsAsked, ForkStageFits, ScreenIsCurrent

\* What leaves the enumerator and the screen alone.
LEMMA ScreenKept ==
  ASSUME SessionInv,
         UNCHANGED <<vars, unrenderable, phase, click, screen, seen>>,
         evaluatorAt' \in Nat
  PROVE  SessionInv'
<1> USE DEF vars, search, history
<1>1. AnswerIsCurrent' /\ SessionPhases' /\ ClickIsCall' /\ SeenWasAnswered' /\ EvaluatorClamped'
  BY DEF SessionInv, AnswerIsCurrent, SessionPhases, ClickIsCall, SeenWasAnswered,
         EvaluatorClamped
<1>2. ForkIsAsked' /\ ScreenIsCurrent'
  BY DEF SessionInv, ForkIsAsked, ScreenIsCurrent, KeepsItsWord, RendersAll
<1> QED BY <1>1, <1>2 DEF SessionInv

LEMMA SessionRequests ==
  ASSUME SolverSide, SessionInv, Requests
  PROVE  SessionInv'
<1>z. evaluatorAt \in Nat
  BY DEF SessionInv, EvaluatorClamped
<1>1. CASE DirectCall \/ LaunchAsks
  BY <1>1, DirectCalls, LaunchCalls
<1>2. ASSUME NEW code, Refuse(code) PROVE SessionInv'
  BY <1>2, <1>z, ScreenKept DEF Refuse
<1>3. CASE ClickWhenSpent \/ ClickRetired
  BY <1>3, <1>2 DEF ClickWhenSpent, ClickRetired
<1>4. CASE ClickNextTrace
  <2>1. Calls /\ call'.op = "path"
    BY <1>4 DEF ClickNextTrace, Calls, NextPath, Begin
  <2> QED BY <1>4, <2>1, ClicksCall DEF ClickNextTrace, Serving, Verbs, Forks
<1>5. CASE ClickNextConfig
  <2>1. Calls /\ call'.op = "config"
    BY <1>5 DEF ClickNextConfig, Calls, NextConfigFirst, NextConfigSame, NextConfigMoves, Begin
  <2> QED BY <1>5, <2>1, ClicksCall DEF ClickNextConfig, Serving, Verbs, Forks
<1>f. ASSUME NEW hold, Fork(hold) PROVE call'.op = "fork" /\ call'.hold = hold
  BY <1>f DEF Fork, ForkFirst, ForkPastEnd, ForkRigid, ForkOpens, Begin
<1>6. CASE ClickNewInit
  <2>1. Calls /\ call'.op = "fork"
    BY <1>6, <1>f, LengthAssumption DEF ClickNewInit, Calls
  <2> QED BY <1>6, <2>1, ClicksCall DEF ClickNewInit, Serving, Verbs, Forks
<1>7. ASSUME NEW requested \in 0..MaxLen \cup {None},
             ClickOutOfRange(requested) \/ ClickNewFork(requested)
      PROVE  SessionInv'
  <2>1. CASE ClickOutOfRange(requested)
    BY <2>1, <1>2 DEF ClickOutOfRange
  <2>2. CASE ClickNewFork(requested)
    <3>1. PICK hold \in 0..MaxLen : hold = ForkState(requested) /\ hold > 0
      BY <2>2, ForkInRange DEF ClickNewFork, SolverSide
    <3>2. Calls /\ call'.op = "fork" /\ call'.hold > 0
      BY <2>2, <3>1, <1>f DEF ClickNewFork, Calls
    <3> QED BY <2>2, <3>2, ClicksCall DEF ClickNewFork, Serving, Verbs, Forks
  <2> QED BY <1>7, <2>1, <2>2
<1>8. ASSUME NEW index \in StateIndices, EvalState(index) PROVE SessionInv'
  <2>1. evaluatorAt' \in Nat
    BY <1>8, StateIndicesAssumption DEF EvalState, Moves
  <2> QED BY <1>8, <2>1, ScreenKept DEF EvalState
<1> QED BY <1>1, <1>3, <1>4, <1>5, <1>6, <1>7, <1>8 DEF Requests

\* A trace that the enumerator finds for a click is what the button says.
LEMMA FoundKeepsWord ==
  ASSUME SolverSide, SessionInv, Internal, phase = "serving", RendersAll,
         NEW s \in goal, SolverYields(s), s \in stage.open, Emits, answer'.trace = s
  PROVE  KeepsItsWord(click, s)
<1>1. pc # "idle" /\ pc # "path" /\ stage # None
  BY DEF SolverYields, Drawing, SolverSide, Live
<1>2. click # None /\ current = screen.trace /\ current # None
  BY <1>1 DEF SessionInv, ClickIsCall, ScreenIsCurrent, SessionPhases
<1>3. /\ click = "next-config" <=> call.op = "config"
      /\ click \in Forks <=> call.op = "fork"
  BY <1>2 DEF SessionInv, ClickIsCall
<1>4. click \in Forks => Fits(s, [base |-> screen.trace, hold |-> call.hold])
  <2> SUFFICES ASSUME click \in Forks PROVE Fits(s, [base |-> screen.trace, hold |-> call.hold])
    OBVIOUS
  <2>1. stage.fork = [base |-> current, hold |-> call.hold]
    BY <1>1 DEF SessionInv, ForkIsAsked
  <2>2. stage.fork # None
    BY <1>1, <1>2, <2>1, GoalSolutions, NotNone DEF SolverSide, TypeOK, Stage, ForkQuestion, Call
  <2>3. Fits(s, stage.fork)
    BY <1>1, <2>2 DEF SessionInv, ForkIsAsked
  <2> QED BY <1>2, <2>1, <2>3
<1>5. IF click = "next-config" THEN s.config \notin displayed ELSE s.config = current.config
  BY <1>2, <1>3, EmitKeepsConfig DEF SolverSide, Next
<1>6. \A t \in seen : t.config \in displayed
  BY DEF SessionInv, SeenWasAnswered
<1> QED BY <1>2, <1>4, <1>5, <1>6 DEF KeepsItsWord

LEMMA SessionRuns ==
  ASSUME SolverSide, SessionInv, Enumerating
  PROVE  SessionInv'
<1>u. Internal /\ UNCHANGED session /\ TypeOK /\ Live /\ ConfigInv
  BY DEF Enumerating, SolverSide
<1> USE DEF session
<1>q. /\ pc # "idle"
      /\ UNCHANGED call
      /\ \/ answer'.kind # "Trace" /\ UNCHANGED <<current, displayed>>
         \/ \E s \in goal : /\ SolverYields(s) /\ stage # None /\ s \in stage.open
                            /\ pc = "draw" /\ pc' = "idle" /\ Emits
                            /\ answer'.trace = s /\ answer'.kind = "Trace"
                            /\ current' = s /\ s # None
                            /\ displayed' = displayed \cup {s.config}
  BY <1>u, InternalQuiet
<1>1. AnswerIsCurrent' /\ EvaluatorClamped'
  BY <1>u, <1>q DEF SessionInv, AnswerIsCurrent, EvaluatorClamped
<1>2. SessionPhases'
  BY <1>u, <1>q DEF SessionInv, SessionPhases
<1>3. SeenWasAnswered'
  BY <1>u, <1>q DEF SessionInv, SeenWasAnswered
<1>4. ClickIsCall'
  BY <1>u, <1>q DEF SessionInv, ClickIsCall
<1>5. ForkIsAsked'
  <2>1. ForkStageFits'
    BY <1>u, ForkStageFitsNext DEF Next, ForkStageFits, SessionInv, ForkIsAsked
  <2>2. ASSUME phase = "serving", click \in Forks, pc' # "idle"
        PROVE  pc' # "path" /\ stage'.fork = [base |-> current', hold |-> call'.hold]
    <3>1. pc # "path" /\ stage.fork = [base |-> current, hold |-> call.hold] /\ current # None
      BY <1>q, <2>2 DEF SessionInv, ForkIsAsked, SessionPhases
    <3>2. click # None /\ call.op = "fork"
      BY <1>q, <2>2 DEF SessionInv, ClickIsCall
    <3> QED BY <1>u, <1>q, <2>2, <3>1, <3>2, ForkRuns
  <2> QED BY <1>u, <2>1, <2>2 DEF ForkIsAsked, ForkStageFits
<1>6. ScreenIsCurrent'
  <2> SUFFICES ASSUME phase = "serving", RendersAll
               PROVE  IF click # None /\ pc' = "idle" /\ answer'.kind = "Trace"
                      THEN KeepsItsWord(click, answer.trace)'
                      ELSE current' = screen.trace
    BY <1>u DEF ScreenIsCurrent, RendersAll
  <2>1. click # None /\ current = screen.trace
    BY <1>q DEF SessionInv, ClickIsCall, ScreenIsCurrent
  <2>2. CASE answer'.kind # "Trace" /\ UNCHANGED <<current, displayed>>
    BY <2>1, <2>2
  <2>3. ASSUME NEW s \in goal, SolverYields(s), s \in stage.open, pc' = "idle", Emits,
               answer'.trace = s, answer'.kind = "Trace"
        PROVE  KeepsItsWord(click, answer.trace)'
    <3>1. KeepsItsWord(click, s)
      BY <1>u, <2>3, FoundKeepsWord
    <3> QED BY <3>1, <2>3, <1>u, <1>q DEF KeepsItsWord
  <2> QED BY <2>1, <2>2, <2>3, <1>q
<1> QED BY <1>1, <1>2, <1>3, <1>4, <1>5, <1>6 DEF SessionInv

\* The first trace goes on screen, or the program stops.
LEMMA LaunchAnswers ==
  ASSUME SolverSide, SessionInv, LaunchShows \/ LaunchStops
  PROVE  SessionInv'
<1> USE DEF vars, search, history
<1>v. UNCHANGED <<vars, unrenderable, click>> /\ phase = "launching" /\ pc = "idle"
  BY DEF LaunchShows, LaunchStops
<1>c. click = None /\ seen = {}
  BY <1>v DEF SessionInv, SessionPhases
<1>f. ForkStageFits'
  BY <1>v DEF SessionInv, ForkIsAsked, ForkStageFits
<1>a. AnswerIsCurrent'
  BY <1>v DEF SessionInv, AnswerIsCurrent
<1>n. None \notin Forks
  BY VerbsAssumption DEF Verbs, Forks
<1>1. CASE LaunchShows
  <2>1. /\ answer.kind = "Trace" /\ current = answer.trace /\ answer.trace \in Solution
        /\ current # None
    BY <1>1, NotNone DEF LaunchShows, SolverSide, TypeOK, Answer, SessionInv, AnswerIsCurrent
  <2>2. current.config \in displayed
    BY <2>1 DEF SolverSide, SweepInv, LeftWasSeen
  <2>3. /\ phase' = "serving" /\ screen'.trace = current /\ seen' = {current}
        /\ evaluatorAt' = 0
    BY <1>1, <1>c, <2>1 DEF LaunchShows, Puts
  <2>4. SessionPhases' /\ SeenWasAnswered' /\ EvaluatorClamped'
    BY <1>v, <1>c, <2>1, <2>2, <2>3 DEF SessionPhases, SeenWasAnswered, EvaluatorClamped
  <2>5. ClickIsCall' /\ ScreenIsCurrent'
    BY <1>v, <1>c, <2>3 DEF ClickIsCall, ScreenIsCurrent
  <2>6. ForkIsAsked'
    BY <1>v, <1>f, <1>c, <1>n DEF ForkIsAsked, ForkStageFits
  <2> QED BY <1>a, <2>4, <2>5, <2>6 DEF SessionInv
<1>2. CASE LaunchStops
  <2>1. phase' = "stopped" /\ UNCHANGED <<evaluatorAt, seen>>
    BY <1>2 DEF LaunchStops
  <2> QED BY <1>v, <1>c, <1>f, <1>a, <2>1 DEF SessionInv, SessionPhases, ClickIsCall,
         SeenWasAnswered, EvaluatorClamped, ForkIsAsked, ForkStageFits, ScreenIsCurrent
<1> QED BY <1>1, <1>2

\* The answer of a click is taken.
LEMMA AnswerTaken ==
  ASSUME SolverSide, SessionInv, TakeTrace \/ TakeRefusal
  PROVE  SessionInv'
<1> USE DEF vars, search, history
<1>v. /\ UNCHANGED <<vars, unrenderable, phase>>
      /\ phase = "serving" /\ pc = "idle" /\ click # None /\ click' = None
  BY DEF TakeTrace, TakeRefusal, Answered
<1>f. ForkStageFits'
  BY <1>v DEF SessionInv, ForkIsAsked, ForkStageFits
<1>a. AnswerIsCurrent' /\ ClickIsCall' /\ ForkIsAsked'
  BY <1>v, <1>f DEF SessionInv, AnswerIsCurrent, ClickIsCall, ForkIsAsked, ForkStageFits
<1>1. CASE TakeTrace /\ Renders(answer.trace)
  <2>1. /\ answer.kind = "Trace" /\ current = answer.trace /\ answer.trace \in Solution
        /\ current # None
    BY <1>1, NotNone DEF TakeTrace, SolverSide, TypeOK, Answer, SessionInv, AnswerIsCurrent
  <2>2. current.config \in displayed
    BY <2>1 DEF SolverSide, SweepInv, LeftWasSeen
  <2>3. /\ screen'.trace = current /\ seen' = seen \cup {current} /\ evaluatorAt' = 0
    BY <1>1, <2>1 DEF TakeTrace, Puts
  <2>4. SessionPhases' /\ SeenWasAnswered' /\ EvaluatorClamped' /\ ScreenIsCurrent'
    BY <1>v, <2>1, <2>2, <2>3 DEF SessionInv, SessionPhases, SeenWasAnswered, EvaluatorClamped,
                                  ScreenIsCurrent
  <2> QED BY <1>a, <2>4 DEF SessionInv
<1>2. CASE TakeTrace /\ ~Renders(answer.trace)
  <2>1. UNCHANGED <<screen, evaluatorAt, seen>>
    BY <1>2 DEF TakeTrace
  <2>2. ~RendersAll
    BY <1>2 DEF Renders, RendersAll
  <2>3. SessionPhases' /\ SeenWasAnswered' /\ EvaluatorClamped' /\ ScreenIsCurrent'
    BY <1>v, <2>1, <2>2 DEF SessionInv, SessionPhases, SeenWasAnswered, EvaluatorClamped,
                            ScreenIsCurrent, RendersAll
  <2> QED BY <1>a, <2>3 DEF SessionInv
<1>3. CASE TakeRefusal
  <2>1. answer.kind # "Trace" /\ UNCHANGED <<screen, evaluatorAt, seen>>
    BY <1>3 DEF TakeRefusal
  <2>2. SessionPhases' /\ SeenWasAnswered' /\ EvaluatorClamped' /\ ScreenIsCurrent'
    BY <1>v, <2>1 DEF SessionInv, SessionPhases, SeenWasAnswered, EvaluatorClamped,
                      ScreenIsCurrent, RendersAll
  <2> QED BY <1>a, <2>2 DEF SessionInv
<1> QED BY <1>1, <1>2, <1>3

LEMMA SessionKept == SolverSide /\ SessionInv /\ [SessionNext]_sessionVars => SessionInv'
<1> SUFFICES ASSUME SolverSide, SessionInv, [SessionNext]_sessionVars PROVE SessionInv'
  OBVIOUS
<1>1. CASE UNCHANGED sessionVars
  <2>1. UNCHANGED <<vars, unrenderable, phase, click, screen, seen, evaluatorAt>>
    BY <1>1 DEF sessionVars, session
  <2> QED BY <2>1, ScreenKept DEF SessionInv, EvaluatorClamped
<1>2. CASE Answering
  BY <1>2, SessionRuns, LaunchAnswers, AnswerTaken DEF Answering
<1> QED BY <1>1, <1>2, SessionRequests DEF SessionNext

\* The session only makes the enumerator's steps: whoever clicks, what the session's
\* enumerator does is a behaviour of TraceEnum, and the session's own invariant holds.
THEOREM SessionCorrect == SessionSpec => Enumerates /\ [](SolverSide /\ SessionInv)
<1>1. SessionInit => Init /\ SolverSide /\ SessionInv
  BY SessionStarts, TypeInit, ConfigInit, SweepInit DEF SessionInit, SolverSide, Init, Live
<1>2. SolverSide /\ SessionInv /\ [SessionNext]_sessionVars =>
        [Next]_vars /\ (SolverSide /\ SessionInv)'
  <2> SUFFICES ASSUME SolverSide, SessionInv, [SessionNext]_sessionVars
               PROVE  [Next]_vars /\ (SolverSide /\ SessionInv)'
    OBVIOUS
  <2>1. [Next]_vars
    BY SessionSteps DEF SolverSide
  <2>2. SolverSide'
    BY <2>1, TypeNext, LiveNext, ConfigNext, SweepNext DEF SolverSide
  <2> QED BY <2>1, <2>2, SessionKept
<1> QED BY <1>1, <1>2, PTL DEF SessionSpec, Enumerates

\* Whoever clicks, the enumerator behind the session keeps its promises.
THEOREM SessionEnumerates ==
  SessionSpec => /\ NoRepeat /\ KeepsConfig /\ ForkComplete
                 /\ []SweepComplete /\ []ConfigsComplete
<1>1. SessionSpec => Enumerates
  BY SessionCorrect, PTL
<1> QED BY <1>1, NeverRepeats, ConfigKept, ForksAreComplete, SweepIsComplete, ConfigsAreComplete, PTL

\* The evaluator stands at a state of the trace on screen, the one that the infinite
\* trace is in at the index that was asked for, whatever that index.
THEOREM EvaluatorIsOnScreen == SessionSpec => []EvaluatorOnScreen
<1>1. SolverSide /\ SessionInv => EvaluatorOnScreen
  BY EvaluatorStands DEF SessionInv, SessionPhases, EvaluatorClamped, EvaluatorOnScreen,
                         EvaluatorState
<1> QED BY <1>1, SessionCorrect, PTL

\* What a button brings on screen is what it says: a fork agrees with the trace on
\* screen before the state it holds and differs there, only New Config moves the
\* configuration, and to one that was never on screen.
THEOREM ButtonsDoAsTheySay == SessionSpec => ButtonsKeepTheirWord
<1>1. SolverSide /\ SessionInv /\ [SessionNext]_sessionVars =>
        [Shows /\ RendersAll =>
           /\ click \in {"new-fork", "new-init"} =>
                Fits(screen'.trace, [base |-> screen.trace, hold |-> call.hold])
           /\ click = "new-fork" => screen'.trace.states[0] = screen.trace.states[0]
           /\ click # "next-config" => screen'.trace.config = screen.trace.config
           /\ click = "next-config" =>
                screen'.trace.config \notin {t.config : t \in seen}]_sessionVars
  <2> SUFFICES ASSUME SolverSide, SessionInv, SessionNext, Shows, RendersAll
               PROVE  /\ click \in {"new-fork", "new-init"} =>
                           Fits(screen'.trace, [base |-> screen.trace, hold |-> call.hold])
                      /\ click = "new-fork" => screen'.trace.states[0] = screen.trace.states[0]
                      /\ click # "next-config" => screen'.trace.config = screen.trace.config
                      /\ click = "next-config" =>
                           screen'.trace.config \notin {t.config : t \in seen}
    OBVIOUS
  <2>1. TakeTrace /\ screen'.trace = answer.trace
    <3>1. ~Requests
      BY DEF Shows, Requests, DirectCall, LaunchAsks, ClickWhenSpent, ClickRetired, Refuse,
             ClickNextTrace, ClickNextConfig, ClickNewInit, ClickOutOfRange, ClickNewFork, Asks,
             EvalState, session
    <3>2. ~LaunchShows /\ ~LaunchStops /\ ~Enumerating /\ ~TakeRefusal
      BY DEF Shows, LaunchShows, LaunchStops, Enumerating, TakeRefusal, session
    <3> QED BY <3>1, <3>2 DEF SessionNext, Answering, TakeTrace, Puts, Shows
  <2>2. KeepsItsWord(click, answer.trace) /\ click # None
    BY <2>1 DEF TakeTrace, Answered, SessionInv, ScreenIsCurrent
  <2>3. ASSUME click = "new-fork"
        PROVE  screen'.trace.states[0] = screen.trace.states[0]
    <3>1. call.hold > 0 /\ call.hold \in Int
      BY <2>1, <2>2, <2>3, LengthAssumption
      DEF TakeTrace, Answered, SessionInv, ClickIsCall, SolverSide, TypeOK, Call
    <3>2. Fits(answer.trace, [base |-> screen.trace, hold |-> call.hold])
      BY <2>2, <2>3 DEF KeepsItsWord, Forks
    <3>3. 0 \in 0..call.hold-1
      BY <3>1
    <3> QED BY <2>1, <3>2, <3>3 DEF Fits
  <2> QED BY <2>1, <2>2, <2>3 DEF KeepsItsWord, Forks
<1> QED BY <1>1, SessionCorrect, PTL DEF SessionSpec, ButtonsKeepTheirWord
=============================================================================
