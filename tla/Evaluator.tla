------------------------------ MODULE Evaluator ------------------------------
(***************************************************************************)
(* The evaluator (eval.rs): the truth of a formula in one instance, by     *)
(* sets and numbers where the encoder has matrices and circuits.  It is    *)
(* the net under the encoder: every instance the solver returns is         *)
(* evaluated again before it is shown.                                     *)
(*                                                                         *)
(* The context x is the encoder's with the instance (inst) and whether the *)
(* evaluator remembers formulas (armed); the memo m holds the truth of the *)
(* formulas it first met, and of nothing else.                             *)
(***************************************************************************)
EXTENDS Ir

(*---------------------------- concrete relations ----------------------------*)
SetJoin(a, b) == {Joined(p[1], p[2]) : p \in {q \in a \X b : Last(q[1]) = q[2][1]}}
SetOverrideByTuple(a, b) == b \cup {t \in a : t \notin b}
SetOverride(a, b) == b \cup {t \in a : \A u \in b : u[1] # t[1]}
SetTranspose(a) == {<<t[2], t[1]>> : t \in a}

RECURSIVE SetClosure(_)
SetClosure(a) ==
  LET grown == a \cup SetJoin(a, a) IN IF grown = a THEN a ELSE SetClosure(grown)

SetBinary(op, a, b) ==
  CASE op = "union"     -> a \cup b
    [] op = "intersect" -> a \cap b
    [] op = "diff"      -> a \ b
    [] op = "product"   -> {s \o t : s \in a, t \in b}
    [] op = "join"      -> SetJoin(a, b)
    [] op = "override"  -> SetOverride(a, b)
Iden == {<<a, a>> : a \in Atoms}
SetUnary(op, a) ==
  CASE op = "transpose" -> SetTranspose(a)
    [] op = "closure"   -> SetClosure(a)
    [] op = "rclosure"  -> SetClosure(a) \cup Iden

RelationValue(r, inst) == LowerOf(r) \cup {t \in UpperOf(r) : <<r, t>> \in inst}
AtomOf(n) == {<<a>> : a \in {b \in IntAtoms : AtomIntValue(b) = n}}

Tested(test, e) ==
  CASE test = "no"   -> e = {}
    [] test = "some" -> e # {}
    [] test = "lone" -> Cardinality(e) <= 1
    [] test = "one"  -> Cardinality(e) = 1

(* The guard an operand's overflow puts on a comparison of numbers: where  *)
(* it struck it decides the comparison.                                    *)
ApplyIntGuard(x, atom, of, operand) ==
  IF ~of THEN atom ELSE x.pos = Classify(x.frames, FreeVars(operand))

(*---------------------------------- the walk ----------------------------------*)
RECURSIVE EvalFormula(_, _, _), EvalFormulaUncached(_, _, _), EvalRel(_, _, _), EvalInt(_, _, _),
          EvalTuples(_, _, _, _, _)

(* The whole list, whatever the first ones answer. *)
EvalEach(Eval(_, _, _), ns, x, m) ==
  LET step(s, n) == LET r == Eval(n, x, s.m) IN [v |-> Append(s.v, r.v), m |-> r.m]
  IN  FoldLeft(step, [v |-> <<>>, m |-> m], ns)

EvalUnder(Eval(_, _, _), n, tuples, x, m) ==
  LET step(s, t) == LET r == Eval(n.body, Bind(x, n.v, t), s.m)
                    IN  [v |-> Append(s.v, r.v), m |-> r.m]
  IN  FoldLeft(step, [v |-> <<>>, m |-> m], InTupleOrder(tuples))

EvalFormula(n, x, m) ==
  LET key == MemoKey(n, x)
  IN  IF ~x.armed THEN EvalFormulaUncached(n, x, m)
      ELSE IF key \in DOMAIN m THEN [v |-> m[key], m |-> m]
      ELSE LET r == EvalFormulaUncached(n, x, m) IN [v |-> r.v, m |-> (key :> r.v) @@ r.m]

(* Only the branch that is taken is visited. *)
EvalBranch(Eval(_, _, _), n, x, m) ==
  LET c == EvalFormula(n.c, x, m) IN Eval(IF c.v THEN n.t ELSE n.e, x, c.m)

EvalTuples(n, i, prefix, x, m) ==
  IF i > Len(n.decls)
  THEN LET r == EvalFormula(n.body, x, m) IN [v |-> IF r.v THEN {prefix} ELSE {}, m |-> r.m]
  ELSE LET b == EvalRel(n.decls[i].b, x, m)
           step(s, t) == LET r == EvalTuples(n, i + 1, prefix \o t,
                                             Bind(x, n.decls[i].v, t), s.m)
                         IN  [v |-> s.v \cup r.v, m |-> r.m]
       IN  FoldLeft(step, [v |-> {}, m |-> b.m], InTupleOrder(b.v))

EvalCast(n, x, m) ==
  LET s == EvalInt(n.i, x, m)
  IN  [v |-> IF ~x.allow /\ s.v[2] /\ OverflowCapable(n.i) THEN {} ELSE AtomOf(s.v[1]),
       m |-> s.m]

EvalRel(n, x, m) ==
  CASE n.k = "rel"  -> [v |-> RelationValue(n.r, x.inst), m |-> m]
    [] n.k = "var"  -> [v |-> {x.env[n.v]}, m |-> m]
    [] n.k = "none" -> [v |-> {}, m |-> m]
    [] n.k = "univ" -> [v |-> {<<a>> : a \in Atoms}, m |-> m]
    [] n.k = "iden" -> [v |-> Iden, m |-> m]
    [] n.k = "bin"  -> LET s == EvalEach(EvalRel, <<n.l, n.r>>, x, m)
                       IN  [v |-> SetBinary(n.op, s.v[1], s.v[2]), m |-> s.m]
    [] n.k = "un"   -> LET s == EvalRel(n.e, x, m) IN [v |-> SetUnary(n.op, s.v), m |-> s.m]
    [] n.k = "rite" -> EvalBranch(EvalRel, n, x, m)
    [] n.k = "comp" -> EvalTuples(n, 1, <<>>, x, m)
    [] n.k = "cast" -> EvalCast(n, x, m)

(* #e merges the overflow of the casts that survive in e. *)
EvalCard(n, x, m) ==
  LET e     == EvalRel(n.e, x, m)
      casts == IF x.allow THEN <<>> ELSE CapableCasts(n.e, x.env)
      s     == EvalEach(EvalInt, casts, x, e.m)
      count == Cardinality(e.v)
  IN  [v |-> <<WrapSigned(count, Bitwidth),
               count > IntMax(Bitwidth) \/ \E c \in Range(s.v) : c[2]>>,
       m |-> s.m]

EvalSum(n, x, m) ==
  LET b == EvalRel(n.b, x, m)
      s == EvalUnder(EvalInt, n, b.v, x, b.m)
      total == SumOf([i \in 1..Len(s.v) |-> s.v[i][1]])
  IN  [v |-> <<total[1], total[2] \/ \E p \in Range(s.v) : p[2]>>, m |-> s.m]

EvalInt(n, x, m) ==
  CASE n.k = "const" -> [v |-> <<WrapSigned(n.n, Bitwidth), ConstOverflows(n.n, Bitwidth)>>,
                         m |-> m]
    [] n.k = "card"  -> EvalCard(n, x, m)
    [] n.k = "int"   -> LET s == EvalRel(n.e, x, m) IN [v |-> SumOf(IntsOf(s.v)), m |-> s.m]
    [] n.k = "neg"   -> LET s == EvalInt(n.i, x, m)
                        IN  [v |-> <<WrapSigned(-s.v[1], Bitwidth),
                                     s.v[2] \/ s.v[1] = IntMin(Bitwidth)>>, m |-> s.m]
    [] n.k = "ibin"  -> LET s == EvalEach(EvalInt, <<n.l, n.r>>, x, m)
                            r == IntBinopValue(n.op, s.v[1][1], s.v[2][1], Bitwidth)
                        IN  [v |-> <<r[1], s.v[1][2] \/ s.v[2][2] \/ r[2]>>, m |-> s.m]
    [] n.k = "isum"  -> EvalSum(n, x, m)
    [] n.k = "iite"  -> EvalBranch(EvalInt, n, x, m)

EvalQuant(n, x, m) ==
  LET b == EvalRel(n.b, x, m)
      s == EvalUnder(EvalFormula, n, b.v, Within(x, n), b.m)
  IN  [v |-> IF n.k = "all" THEN \A t \in Range(s.v) : t ELSE \E t \in Range(s.v) : t, m |-> s.m]

EvalIntCompare(n, x, m) ==
  LET s    == EvalEach(EvalInt, <<n.l, n.r>>, x, m)
      atom == CompareValues(n.op, s.v[1][1], s.v[2][1])
      left == ApplyIntGuard(x, atom, s.v[1][2], n.l)
  IN  [v |-> IF x.allow THEN atom ELSE ApplyIntGuard(x, left, s.v[2][2], n.r), m |-> s.m]

EvalGuards(atom, casts, x, m) ==
  LET s    == EvalEach(EvalInt, casts, x, m)
      step(truth, i) == ApplyIntGuard(x, truth, s.v[i][2], casts[i])
  IN  IF x.allow THEN [v |-> atom, m |-> m]
      ELSE [v |-> FoldLeft(step, atom, [i \in 1..Len(casts) |-> i]), m |-> s.m]

(* The antecedent of an implication keeps the implication's own polarity. *)
EvalFormulaUncached(n, x, m) ==
  CASE n.k = "bool" -> [v |-> n.b, m |-> m]
    [] n.k = "not"  -> LET s == EvalFormula(n.f, Negated(x), m) IN [v |-> ~s.v, m |-> s.m]
    [] n.k = "and"  -> LET s == EvalEach(EvalFormula, n.fs, x, m)
                       IN  [v |-> \A t \in Range(s.v) : t, m |-> s.m]
    [] n.k = "or"   -> LET s == EvalEach(EvalFormula, n.fs, x, m)
                       IN  [v |-> \E t \in Range(s.v) : t, m |-> s.m]
    [] n.k = "imp"  -> LET s == EvalEach(EvalFormula, <<n.a, n.b>>, x, m)
                       IN  [v |-> s.v[1] => s.v[2], m |-> s.m]
    [] n.k = "iff"  -> LET s == EvalEach(EvalFormula, <<n.a, n.b>>, x, m)
                       IN  [v |-> s.v[1] = s.v[2], m |-> s.m]
    [] n.k = "rcmp" -> LET s == EvalEach(EvalRel, <<n.l, n.r>>, x, m)
                       IN  EvalGuards(IF n.op = "in" THEN s.v[1] \subseteq s.v[2]
                                      ELSE s.v[1] = s.v[2],
                                      CapableCasts(n.l, x.env) \o CapableCasts(n.r, x.env), x, s.m)
    [] n.k = "icmp" -> EvalIntCompare(n, x, m)
    [] n.k = "mult" -> LET s == EvalRel(n.e, x, m)
                       IN  EvalGuards(Tested(n.test, s.v), MultTestCasts(n.test, n.e, x.env),
                                      x, s.m)
    [] n.k \in {"all", "some"} -> EvalQuant(n, x, m)

(*-------------------------------- the self-check --------------------------------*)
ArmedByClasses(goal, classes) == DOMAIN classes # {}
(* The evaluator is armed for a goal that can share anything at all.       *)
Armed(goal, classes) == DOMAIN classes # {} \/ HasSharedFormula(goal)

EvaluatorFor(goal, classes, allow) ==
  [env |-> EmptyFunction, pos |-> TRUE, frames |-> <<>>, classes |-> classes, allow |-> allow,
   armed |-> Armed(goal, classes)]
At(evaluator, inst) == [inst |-> inst] @@ evaluator

Accepts(evaluator, inst, goal) == EvalFormula(goal, At(evaluator, inst), EmptyFunction)

(* 0 if the instance satisfies the goal, else the first conjunct that fails *)
(* when evaluated after it; one more than there are if none does.          *)
SelfCheck(evaluator, inst, goal) ==
  LET all  == Accepts(evaluator, inst, goal)
      each == EvalEach(EvalFormula, goal.fs, At(evaluator, inst), all.m).v
  IN  IF all.v THEN 0
      ELSE IF \A i \in DOMAIN each : each[i] THEN Len(each) + 1
      ELSE CHOOSE i \in DOMAIN each : ~each[i] /\ \A j \in 1..(i - 1) : each[j]
=============================================================================
