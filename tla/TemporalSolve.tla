--------------------------- MODULE TemporalSolve ---------------------------
(***************************************************************************)
(* One temporal command of mettle, answered (als-core: temporal_solve.rs,  *)
(* temporal_lower.rs, temporal.rs): a sweep over trace lengths, at each of *)
(* which the command's conjuncts are lowered to a first-order goal over    *)
(* one copy of every variable relation per state, and solved; and the      *)
(* evaluator that afterwards lowers a fragment at an instant of the trace  *)
(* found.                                                                  *)
(*                                                                         *)
(* Atoms are abstracted to one: a relation holds or does not.  A lowered   *)
(* formula is then the set of flat instances that satisfy it, an instance  *)
(* being what holds at each state and in the static relations; a goal also *)
(* tells the loop targets apart.  Formulas, relational and integer         *)
(* expressions are lowered alike and are one kind of node: read stands for *)
(* a relation, not and and for what looks at one state only, prime for the *)
(* relational prime.                                                       *)
(***************************************************************************)
EXTENDS Lasso, Sequences, FiniteSets

CONSTANTS
  Formulas,    \* the nodes there are: with a node, its operands
  Height,      \* how deep the operands of each nest
  Commands,    \* the commands solved
  Indices,     \* the instants that the evaluator may be asked about
  None

Node(op, args) == [op |-> op, rel |-> "", args |-> args]
Read(rel) == [op |-> "read", rel |-> rel, args |-> <<>>]

Reading == {"read", "not", "and"}
Future == {"prime", "after", "always", "eventually", "until", "releases"}
Past == {"before", "historically", "once", "since", "triggered"}
Binary == {"until", "releases", "since", "triggered"}
Unary == (Future \cup Past \cup {"not"}) \ Binary

\* A node is made of operands as many as its operator takes, in the end of reads.
IsNode(n) ==
  /\ n.op \in Reading \cup Future \cup Past
  /\ n.args \in Seq(Formulas)
  /\ n.op \in Unary => Len(n.args) = 1
  /\ n.op \in Binary => Len(n.args) = 2
  /\ \A i \in DOMAIN n.args : Height[n.args[i]] < Height[n]

\* Where a conjunct comes from.
Provenance == {"fact", "command", "bounds", "declared"}

\* A command's conjuncts, its variable and its static relations, its steps range, the
\* longest trace that fits the variable cap and the encoder, and whether the solver may
\* run out of conflicts.  Kids are the subsignatures of one signature, in declaration
\* order, rest its remainder, and rigid says that it is not itself variable.  Fragments
\* are what the evaluator may be asked of the trace found.
IsCommand(c) ==
  /\ c.conjuncts \in Seq([from : Provenance, formula : Formulas])
  /\ c.fragments \subseteq Formulas
  /\ c.variable \cap c.static = {}
  /\ c.min \in Nat \ {0}
  /\ c.max \in Nat \cup {None}
  /\ c.fits \in Nat
  /\ c.encodes \in Nat
  /\ c.budgeted \in BOOLEAN
  /\ c.kids \in Seq(c.variable \cup c.static)
  /\ c.rest \in c.variable \cup c.static \cup {None}
  /\ c.rigid \in BOOLEAN

ASSUME FormulasAssumption ==
  /\ Height \in [Formulas -> Nat]
  /\ \A n \in Formulas : IsNode(n)
ASSUME CommandsAssumption ==
  \A c \in Commands :
    /\ IsCommand(c)
    /\ \A i \in DOMAIN c.conjuncts : Node("always", <<c.conjuncts[i].formula>>) \in Formulas
ASSUME IndicesAssumption == Indices \subseteq Int

VARIABLES
  command,
  k,          \* the length being solved
  branch,     \* the loop target to lower next
  shared,     \* the memo of what time does not matter to: by node and state
  goal,       \* the lowered goal so far: the lassos of length k that satisfy it
  pc,         \* length, lower, solve, or done
  verdict,    \* the answer
  evaluated   \* the evaluator's last answer, or None

vars == <<command, k, branch, shared, goal, pc, verdict, evaluated>>

-----------------------------------------------------------------------------
(* The unrolled view: what a flat instance of length n assigns.            *)

\* What holds at each state, and what holds throughout.
Contents(c, n) == [states : [0..n-1 -> SUBSET c.variable], static : SUBSET c.static]

\* Exactly one loop target.
WithLoop(content, n, l) ==
  [k |-> n, states |-> content.states, loop |-> l, static |-> content.static]
Lassos(c, n) == {WithLoop(content, n, l) : content \in Contents(c, n), l \in 0..n-1}

HoldsAt(content, rel, s) == rel \in content.states[s] \cup content.static

-----------------------------------------------------------------------------
(* What is asked of a node before it is lowered.                           *)

SubnodesOf[n \in Formulas] == {n} \cup UNION {SubnodesOf[n.args[i]] : i \in DOMAIN n.args}

Subnodes(n) == SubnodesOf[n]

OverlooksPrime(n) == \E m \in Subnodes(n) : m.op \notin Reading \cup {"prime"}

\* Whether its value depends on more than the state it is read at.
HasOperator(n) == \E m \in Subnodes(n) : m.op \notin Reading

IsTemporalOperatorsOnly(c, n) == HasOperator(n)

\* Whether it mentions a temporal operator or a variable relation.
IsTemporal(c, n) == \/ HasOperator(n)
                    \/ \E m \in Subnodes(n) : m.op = "read" /\ m.rel \in c.variable

OnePassFits(n) == 0

\* How deep its past operators nest.
PastDepthOf[n \in Formulas] == Max({0} \cup {PastDepthOf[n.args[i]] : i \in DOMAIN n.args})
                               + (IF n.op \in Past THEN 1 ELSE 0)

PastDepth(n) == PastDepthOf[n]

-----------------------------------------------------------------------------
(* The expansion of a node at a logical time of one branch.                *)

\* A line is the timeline of one loop target: the state at each time, and loopAt.
Line(n, l, d) == [states |-> Timeline(n, l, d), loopAt |-> LoopAt(n, l, d)]

End(line) == Cardinality(DOMAIN line.states)

Succ(line, t) == IF t + 1 < End(line) THEN t + 1 ELSE line.loopAt

\* The rest of the line, and then its loop once more.
FuturePath(line, t) ==
  [i \in 1..(End(line) - t) + (End(line) - line.loopAt) |->
     IF i <= End(line) - t THEN t + i - 1 ELSE line.loopAt + (i - 1 - (End(line) - t))]

PastPath(t) == [i \in 1..t+1 |-> t + 1 - i]

\* A witness on the path, with the left operand holding all the way to it.
Witnessed(left, right, path, content) ==
  \E i \in DOMAIN path : /\ content \in right[path[i]]
                         /\ \A j \in 1..i-1 : content \in left[path[j]]

\* Its dual: the right operand, unless released before.
Unreleased(left, right, path, content) ==
  \A i \in DOMAIN path : \/ content \in right[path[i]]
                         \/ \E j \in 1..i-1 : content \in left[path[j]]

\* Whether a node is true of a content at time t, from its operands' tables.
Expands(n, operand, line, t, content) ==
  CASE n.op = "read"         -> HoldsAt(content, n.rel, line.states[t])
    [] n.op = "not"          -> content \notin operand[1][t]
    [] n.op = "and"          -> \A i \in DOMAIN operand : content \in operand[i][t]
    [] n.op \in {"prime", "after"}
                             -> content \in operand[1][Succ(line, t)]
    [] n.op = "before"       -> t > 0 /\ content \in operand[1][t - 1]
    [] n.op = "always"       -> LET path == FuturePath(line, t)
                                IN  \A i \in DOMAIN path : content \in operand[1][path[i]]
    [] n.op = "eventually"   -> LET path == FuturePath(line, t)
                                IN  \E i \in DOMAIN path : content \in operand[1][path[i]]
    [] n.op = "historically" -> \A u \in 0..t : content \in operand[1][u]
    [] n.op = "once"         -> \E u \in 0..t : content \in operand[1][u]
    [] n.op = "until"        -> Witnessed(operand[1], operand[2], FuturePath(line, t), content)
    [] n.op = "releases"     -> Unreleased(operand[1], operand[2], FuturePath(line, t), content)
    [] n.op = "since"        -> Witnessed(operand[1], operand[2], PastPath(t), content)
    [] n.op = "triggered"    -> Unreleased(operand[1], operand[2], PastPath(t), content)

\* The lowered node at each logical time.  One without operators is lowered once for a
\* state, by the branch that comes to it first.
LowerAt(n, operand, line, memo, contents) ==
  LET Fresh(t) == {content \in contents : Expands(n, operand, line, t, content)}
  IN  [t \in DOMAIN line.states |->
         LET s == line.states[t]
         IN  IF HasOperator(n) THEN Fresh(t)
             ELSE IF <<n, s>> \in DOMAIN memo THEN memo[<<n, s>>]
             ELSE Fresh(s)]

Lower(root, line, memo, contents) ==
  LET table[n \in Subnodes(root)] ==
        LowerAt(n, [i \in DOMAIN n.args |-> table[n.args[i]]], line, memo, contents)
  IN  table[root]

\* The memo after a branch.
Remembers(roots, line, memo, contents) ==
  LET pure == {n \in UNION {Subnodes(root) : root \in roots} : ~HasOperator(n)}
      met  == pure \X {line.states[t] : t \in DOMAIN line.states}
  IN  [key \in DOMAIN memo \cup met |->
         IF key \in DOMAIN memo THEN memo[key] ELSE Lower(key[1], line, memo, contents)[key[2]]]

-----------------------------------------------------------------------------
(* The goal of one length.                                                 *)

\* A fact and the command's body hold at the first state, a bounds constraint at every
\* state, and a declaration's fact at every state if it can tell them apart.
HoldsAtEveryState(c, conjunct) ==
  \/ conjunct.from = "bounds"
  \/ conjunct.from = "declared" /\ IsTemporal(c, conjunct.formula)

Root(c, conjunct) == IF HoldsAtEveryState(c, conjunct) THEN Node("always", <<conjunct.formula>>)
                                                       ELSE conjunct.formula
Roots(c) == {Root(c, c.conjuncts[i]) : i \in DOMAIN c.conjuncts}

UnrollDepth(c) == Max({0} \cup {PastDepth(root) : root \in Roots(c)})

\* A signature that is not variable keeps its population, and from the first variable
\* subsignature on, no atom is in a subsignature at one state and in an earlier one, or
\* in the remainder, at any state.
VarKids(c) == {i \in DOMAIN c.kids : c.kids[i] \in c.variable}

Population(c) == {c.kids[i] : i \in DOMAIN c.kids} \cup ({c.rest} \ {None})
Populated(c, content, s) == \E rel \in Population(c) : HoldsAt(content, rel, s)

NeverBothAtOnce(content, n, rel, other) ==
  \A s \in 0..n-1 : ~(HoldsAt(content, rel, s) /\ HoldsAt(content, other, s))

NeverBoth(content, n, rel, other) ==
  \A s, u \in 0..n-1 : ~(HoldsAt(content, rel, s) /\ HoldsAt(content, other, u))

HierarchyFacts(c, n, content) ==
  VarKids(c) # {} =>
    /\ c.rigid => \A s \in 1..n-1 : Populated(c, content, s) = Populated(c, content, 0)
    /\ \A i \in Max({2, Min(VarKids(c))})..Len(c.kids) : \A j \in 1..i-1 :
         NeverBoth(content, n, c.kids[i], c.kids[j])
    /\ c.rest # None =>
         \A j \in DOMAIN c.kids : NeverBoth(content, n, c.kids[j], c.rest)

-----------------------------------------------------------------------------
(* The sweep over the steps range.                                         *)

Init ==
  /\ command \in Commands
  /\ k = command.min
  /\ branch = 0
  /\ shared = <<>>
  /\ goal = {}
  /\ pc = "length"
  /\ verdict = [kind |-> "None", trace |-> None]
  /\ evaluated = None

Says(kind) == /\ verdict' = [kind |-> kind, trace |-> None]
              /\ pc' = "done"
              /\ UNCHANGED <<command, k, branch, shared, goal, evaluated>>

\* No steps bound is not for a bounded engine.
RefusesUnbounded == pc = "length" /\ command.max = None /\ Says("UnboundedSteps")

InRange == pc = "length" /\ command.max # None /\ k <= command.max

Exhausts == pc = "length" /\ command.max # None /\ k > command.max /\ Says("Unsat")

OverCap == InRange /\ k > command.fits /\ Says("PrimaryVarCap")

Unrolls ==
  /\ InRange
  /\ k <= command.fits
  /\ branch' = 0
  /\ shared' = <<>>
  /\ goal' = {}
  /\ pc' = "lower"
  /\ UNCHANGED <<command, k, verdict, evaluated>>

\* One branch for each loop target, over the timeline of its own.
LowersBranch ==
  LET line     == Line(k, branch, UnrollDepth(command))
      contents == Contents(command, k)
      bodies   == {Lower(root, line, shared, contents)[0] : root \in Roots(command)}
      body     == {content \in contents : \A b \in bodies : content \in b}
  IN
  /\ pc = "lower"
  /\ branch < k
  /\ goal' = goal \cup {WithLoop(content, k, branch) : content \in body}
  /\ shared' = Remembers(Roots(command), line, shared, contents)
  /\ branch' = branch + 1
  /\ UNCHANGED <<command, k, pc, verdict, evaluated>>

Conjoins ==
  /\ pc = "lower"
  /\ branch = k
  /\ goal' = {lasso \in goal : HierarchyFacts(command, k, lasso)}
  /\ pc' = "solve"
  /\ UNCHANGED <<command, k, branch, shared, verdict, evaluated>>

CannotEncode == pc = "solve" /\ k > command.encodes /\ Says("Error")

Encodes == pc = "solve" /\ k <= command.encodes

NextLength == /\ k' = k + 1
              /\ pc' = "length"
              /\ UNCHANGED <<command, branch, shared, goal, verdict, evaluated>>

GivesUpAndGoesOn == Encodes /\ command.budgeted /\ NextLength

\* A length without an answer leaves a hole in the range: the sweep is over.
GivesUp == Encodes /\ command.budgeted /\ Says("Unknown")

SolvesUnsat == Encodes /\ goal = {} /\ NextLength

\* The selector has a variable for each state, of which exactly one holds.
Selector(lasso) == [s \in 0..lasso.k-1 |-> s = lasso.loop]

RecoverLoopState(selector) == CHOOSE s \in DOMAIN selector : selector[s]

\* The trace is split into its states, with the loop target that the selector names.
SolvesSat ==
  /\ Encodes
  /\ \E lasso \in goal :
       verdict' = [kind |-> "Sat",
                   trace |-> [lasso EXCEPT !.loop = RecoverLoopState(Selector(lasso))]]
  /\ pc' = "done"
  /\ UNCHANGED <<command, k, branch, shared, goal, evaluated>>

-----------------------------------------------------------------------------
(* The evaluator: the loop target is known, so there is one branch.        *)

Clamped(index) == IF index < 0 THEN 0 ELSE index

FirstPassTime(n, index) == NormalizeState(verdict.trace, index)

FragmentTime(n, index) == LogicalTime(k, verdict.trace.loop, PastDepth(n), Clamped(index))

Evaluate(n, index) ==
  LET line == Line(k, verdict.trace.loop, PastDepth(n))
      time == FragmentTime(n, index)
      only == {verdict.trace}
  IN
  /\ pc = "done"
  /\ verdict.kind = "Sat"
  /\ evaluated = None      \* bound: one question, as an answer leaves nothing behind
  /\ evaluated' = [fragment |-> n, index |-> index, state |-> line.states[time],
                   value |-> Lower(n, line, <<>>, only)[time] # {}]
  /\ UNCHANGED <<command, k, branch, shared, goal, pc, verdict>>

Next ==
  \/ RefusesUnbounded
  \/ Exhausts
  \/ OverCap
  \/ Unrolls
  \/ LowersBranch
  \/ Conjoins
  \/ CannotEncode
  \/ GivesUp
  \/ SolvesUnsat
  \/ SolvesSat
  \/ \E n \in command.fragments, index \in Indices : Evaluate(n, index)

Spec == Init /\ [][Next]_vars

-----------------------------------------------------------------------------
(* The semantics over the infinite trace, which the lowering is to agree   *)
(* with.                                                                   *)

\* Whether a node is true at instant t, of the instants at which its operands are, where
\* later are those from t on.
TrueAt(x, n, operand, t, later) ==
  CASE n.op = "read"         -> n.rel \in At(x, t) \cup x.static
    [] n.op = "not"          -> t \notin operand[1]
    [] n.op = "and"          -> \A i \in DOMAIN operand : t \in operand[i]
    [] n.op \in {"prime", "after"}
                             -> t + 1 \in operand[1]
    [] n.op = "before"       -> t > 0 /\ t - 1 \in operand[1]
    [] n.op = "always"       -> \A u \in later : u \in operand[1]
    [] n.op = "eventually"   -> \E u \in later : u \in operand[1]
    [] n.op = "historically" -> \A u \in 0..t : u \in operand[1]
    [] n.op = "once"         -> \E u \in 0..t : u \in operand[1]
    [] n.op = "until"        -> \E u \in later : u \in operand[2] /\ \A z \in t..u-1 : z \in operand[1]
    [] n.op = "releases"     -> \A u \in later : u \in operand[2] \/ \E z \in t..u-1 : z \in operand[1]
    [] n.op = "since"        -> \E u \in 0..t : u \in operand[2] /\ \A z \in u+1..t : z \in operand[1]
    [] n.op = "triggered"    -> \A u \in 0..t : u \in operand[2] \/ \E z \in u+1..t : z \in operand[1]

\* Enough instants for whatever a formula can tell of the trace to have happened: the
\* trace once, and once more for each past operator that nests.
Window(x, root) == (PastDepthOf[root] + 1) * x.k

\* The instants at which a node is true.
Truth(x, root) ==
  LET w == Window(x, root)
      truth[n \in Subnodes(root)] ==
        LET operand == [i \in DOMAIN n.args |-> truth[n.args[i]]]
        IN  {t \in Nat : TrueAt(x, n, operand, t, t..t+w)}
  IN  truth[root]

\* What a conjunct claims of the infinite trace.
Claims(x, conjunct) ==
  LET true == Truth(x, conjunct.formula)
  IN  IF conjunct.from \in {"fact", "command"}
      THEN 0 \in true
      ELSE \A t \in 0..Window(x, conjunct.formula) : t \in true

\* What a variable signature hierarchy claims of it: if an atom is ever in a
\* subsignature it is never in an earlier one, nor in the remainder, and a signature
\* that is not variable does not change.
ClaimsOfHierarchy(x, c) ==
  LET instants  == 0..2 * x.k
      Ever(rel) == \E t \in instants : rel \in At(x, t) \cup x.static
      Inside(t) == Population(c) \cap (At(x, t) \cup x.static) # {}
  IN  VarKids(c) # {} =>
        /\ \A i, j \in DOMAIN c.kids :
             j < i /\ (\E v \in VarKids(c) : v <= i) /\ Ever(c.kids[i]) => ~Ever(c.kids[j])
        /\ \A i \in DOMAIN c.kids : c.rest # None /\ Ever(c.rest) => ~Ever(c.kids[i])
        /\ c.rigid => \A t \in instants : Inside(t) = Inside(0)

Satisfies(x, c) ==
  /\ \A i \in DOMAIN c.conjuncts : Claims(x, c.conjuncts[i])
  /\ ClaimsOfHierarchy(x, c)

-----------------------------------------------------------------------------
(* Properties.                                                             *)

\* Each branch of a length lowers its conjuncts exactly: the goal so far has the lassos
\* with a loop target gone by of whose infinite trace every conjunct is true, whatever
\* nesting of past and future operators and sharing among the branches.
ConjunctsExact ==
  pc = "lower" =>
    goal = {x \in Lassos(command, k) :
              /\ x.loop < branch
              /\ \A i \in DOMAIN command.conjuncts : Claims(x, command.conjuncts[i])}

\* The lowering is exact at every length: the solver is given the lassos whose infinite
\* trace satisfies the command, the hierarchy of variable signatures included.
LoweringIsExact ==
  /\ ConjunctsExact
  /\ pc = "solve" => goal = {x \in Lassos(command, k) : Satisfies(x, command)}

\* A verdict is about the whole range: Unsat means that no lasso of a length in it
\* satisfies the command, and Sat gives one of minimal length.
VerdictIsExact ==
  verdict.kind \in {"Sat", "Unsat"} =>
    /\ verdict.kind = "Sat" => Satisfies(verdict.trace, command)
    /\ \A n \in command.min..command.max :
         verdict.kind = "Unsat" \/ n < verdict.trace.k
         => ~\E x \in Lassos(command, n) : Satisfies(x, command)

\* The evaluator answers about the instant asked for, on whichever pass through the
\* loop, and at the state that the wrap rule names.
EvaluatorAgrees ==
  evaluated # None =>
    LET instant == Clamped(evaluated.index)
    IN  /\ evaluated.value = (instant \in Truth(verdict.trace, evaluated.fragment))
        /\ evaluated.state = NormalizeState(verdict.trace, evaluated.index)

-----------------------------------------------------------------------------
(* The inductive invariant behind the verdict, next to LoweringIsExact.    *)

SweepTypeOK ==
  /\ command \in Commands
  /\ k \in Nat
  /\ k >= command.min
  /\ pc \in {"length", "lower", "solve", "done"}
  /\ pc # "done" => verdict.kind = "None"

\* A length is unrolled only in a range with an end, and up to it.
InsideRange ==
  pc \in {"lower", "solve"} \/ verdict.kind = "Sat" => command.max \in Nat /\ k <= command.max

\* What the sweep has passed by holds nothing.
NoHole == \A n \in command.min..k-1 : \A x \in Lassos(command, n) : ~Satisfies(x, command)

AnswerHolds ==
  /\ verdict.kind = "Unsat" => command.max \in Nat /\ k > command.max
  /\ verdict.kind = "Sat" => verdict.trace \in Lassos(command, k) /\ Satisfies(verdict.trace, command)

SweepInv == SweepTypeOK /\ InsideRange /\ NoHole /\ AnswerHolds
=============================================================================
