------------------------------ MODULE Translate ------------------------------
(***************************************************************************)
(* From a lowered goal to an answer: the classes of its shared formulas    *)
(* are validated (lower.rs), the goal becomes a circuit (encode/mod.rs),   *)
(* and an instance the solver finds is evaluated again before it is shown  *)
(* (solve.rs, eval.rs).  Beside it, each arithmetic circuit by itself,     *)
(* over all operands of a width (encode/int.rs).                           *)
(***************************************************************************)
EXTENDS Encoding, Evaluator

----------------------------------------------------------------------------
(* Translation classes (trans_class.rs): the copies that lowering made of  *)
(* one shared formula are translated as one node, provided they still say  *)
(* the same thing up to the names of the variables bound inside them.      *)
(* The budget that bounds the comparison is left out.                      *)

(* What a node says besides its parts and the variables it binds. *)
Label(n) ==
  CASE n.k = "rel" -> n.r
    [] n.k \in {"bin", "un", "ibin", "rcmp", "icmp"} -> n.op
    [] n.k = "const" -> n.n
    [] n.k = "bool"  -> n.b
    [] n.k = "mult"  -> n.test
    [] OTHER -> n.k

(* The variables a node binds, with the part at which each comes into force. *)
Binders(n) ==
  CASE n.k = "comp" -> [i \in 1..Len(n.decls) |-> n.decls[i].v]
    [] n.k \in {"isum", "all", "some"} -> <<n.v>>
    [] OTHER -> <<>>

VarEqAnyBound(a, b, scope) ==
  \/ a = b
  \/ (\E p \in Range(scope) : p[1] = a) /\ (\E p \in Range(scope) : p[2] = b)

(* Two uses correspond if they are bound at the same binder, or are free   *)
(* and the same variable.  The scope is a sequence of pairs of variables.  *)
VarEq(a, b, scope) ==
  LET at(i, v) == {j \in DOMAIN scope : scope[j][i] = v}
      last(s)  == CHOOSE j \in s : \A k \in s : k <= j
  IN  IF at(1, a) = {} \/ at(2, b) = {}
      THEN at(1, a) = at(2, b) /\ a = b
      ELSE last(at(1, a)) = last(at(2, b))

RECURSIVE NodeEq(_, _, _)
NodeEq(a, b, scope) ==
  IF a.k # b.k THEN FALSE
  ELSE IF a.k = "var" THEN VarEq(a.v, b.v, scope)
  ELSE LET bound(i) == [j \in 1..i |-> <<Binders(a)[j], Binders(b)[j]>>]
           (* a part lies in the scope of the binders before it *)
           within(i) == scope \o bound(IF i - 1 < Len(Binders(a)) THEN i - 1 ELSE Len(Binders(a)))
       IN  /\ Label(a) = Label(b)
           /\ Len(Binders(a)) = Len(Binders(b))
           /\ Len(Parts(a)) = Len(Parts(b))
           /\ \A i \in DOMAIN Parts(a) : NodeEq(Parts(a)[i], Parts(b)[i], within(i))

(* The classes that survive, as a function from a root to its class.  A    *)
(* class has two copies at least, all like the first; a root of two        *)
(* classes stays in the earlier one.                                       *)
Validated(members) ==
  LET survives(i) == /\ Cardinality(Range(members[i])) >= 2
                     /\ \A root \in Range(members[i]) : NodeEq(members[i][1], root, <<>>)
      kept    == {i \in DOMAIN members : survives(i)}
      holds(root) == {i \in kept : root \in Range(members[i])}
  IN  [root \in UNION {Range(members[i]) : i \in kept} |->
         CHOOSE i \in holds(root) : \A j \in holds(root) : i <= j]

----------------------------------------------------------------------------
(* From a goal to an answer. *)

CONSTANTS Goals,      \* [goal |-> a conjunction, members |-> classes of roots]
          Widths,     \* the widths of the circuits
          Operands    \* pairs of numbers, wrapped to the width

C == INSTANCE IntCircuits WITH Assignments <- Operands

VARIABLES
  phase,     \* "lowered", then "solved"; "unbuilt", then "built"
  job,       \* the goal, or an operation and a width
  allow      \* whether overflow is allowed

vars == <<phase, job, allow>>

IntOps == {"add", "sub", "mul", "div", "rem", "shl", "sha", "shr"}
IntCmps == {"eq", "lt", "gt", "le", "ge"}

Init ==
  /\ \/ phase = "lowered" /\ job \in Goals
     \/ phase = "unbuilt" /\ job \in [op : IntOps \cup IntCmps \cup {"neg"}, w : Widths]
  /\ allow \in BOOLEAN
  /\ phase = "unbuilt" => allow

(* The goal of the job, its classes validated, as a circuit: the instances  *)
(* that satisfy it.                                                         *)
Circuit == EncodeGoal(job.goal, Validated(job.members), allow)

(* The conjunct the self-check blames for an instance, and 0 if none.       *)
Blamed(evaluator, inst) == SelfCheck(evaluator, inst, job.goal)

(* An operation's circuit over operands that range over all numbers. *)
Operand(i, w) == [b \in 1..w |-> {p \in Operands : Bit(WrapSigned(p[i], w) % 2^w, b - 1)}]
Built(op, w) ==
  LET a == Operand(1, w)
      b == Operand(2, w)
  IN  IF op = "neg" THEN C!Negate(a)
      ELSE IF op \in IntCmps THEN [v |-> <<C!Compare(op, a, b)>>, of |-> {}]
      ELSE C!IntBinop(op, a, b)

(* The translation keeps nothing between one goal and the next: a solve     *)
(* computes `Circuit` and evaluates the goal on what the solver finds.      *)
Solve ==
  /\ phase = "lowered" /\ phase' = "solved"
  /\ UNCHANGED <<job, allow>>

BuildCircuit ==
  /\ phase = "unbuilt" /\ phase' = "built"
  /\ UNCHANGED <<job, allow>>

Next == Solve \/ BuildCircuit

Spec == Init /\ [][Next]_vars

-----------------------------------------------------------------------------
(* An arithmetic circuit computes what the evaluator and the folder        *)
(* compute with, value and flag, for all operands of its width (int.rs and *)
(* overflow_guard.rs: "exactly the encoder circuits' semantics"), and a    *)
(* left shift by less than the width is flagged exactly when the shifted   *)
(* number, kept whole, does not fit (int.rs, shl).                         *)
ExactAt(p, circuit) ==
  LET w == job.w
      a == WrapSigned(p[1], w)
      b == WrapSigned(p[2], w)
      flag == p \in circuit.of
  IN  CASE job.op \in IntCmps -> (p \in circuit.v[1]) = CompareValues(job.op, a, b)
        [] job.op = "neg" -> /\ C!NumberAt(circuit.v, p) = WrapSigned(-a, w)
                             /\ w > 1 => flag = (a = IntMin(w))
        [] OTHER -> /\ <<C!NumberAt(circuit.v, p), flag>> = IntBinopValue(job.op, a, b, w)
                    /\ job.op = "shl" /\ b \in 0..(w - 1) =>
                         flag = ConstOverflows(a * 2^b, w)
CircuitsExact ==
  [][BuildCircuit => LET circuit == Built(job.op, job.w)
                     IN  \A p \in Operands : ExactAt(p, circuit)]_vars

(* The circuit of a goal accepts the instances the evaluator accepts, and  *)
(* the self-check blames a conjunct for any other: an instance the solver  *)
(* finds is never refused before it is shown.  (encode/mod.rs and eval.rs: *)
(* "their first visits coincide by construction".)                         *)
EncoderMatchesEvaluator ==
  [][Solve =>
       LET evaluator == EvaluatorFor(job.goal, Validated(job.members), allow)
           circuit == Circuit
       IN  \A inst \in Instances :
             IF inst \in circuit THEN Blamed(evaluator, inst) = 0
             ELSE Blamed(evaluator, inst) \in 1..Len(job.goal.fs)]_vars

(* With overflow allowed, sharing one translation among copies and among   *)
(* the visits of a node changes nothing: the circuit is the plain meaning  *)
(* of the goal.                                                            *)
SharingIsFaithful ==
  [][Solve /\ allow =>
       LET forgetful == [EvaluatorFor(job.goal, EmptyFunction, TRUE) EXCEPT !.armed = FALSE]
           circuit == Circuit
       IN  \A inst \in Instances :
             (inst \in circuit) = Accepts(forgetful, inst, job.goal).v]_vars

(* A goal of conjunctions, disjunctions, negations and quantifiers over    *)
(* comparisons of integers, none of its nodes shared and no variable       *)
(* ranging over the integers themselves, loses instances when overflow is  *)
(* forbidden and never gains one (overflow_guard.rs, classify).            *)
PlainKinds == {"and", "or", "not", "icmp", "mult", "rel", "var", "univ", "none", "bin", "un",
               "const", "card", "int", "ibin", "isum", "neg", "all", "some"}
ForbidOnlyExcludes ==
  [][/\ Solve /\ ~allow
     /\ \A n \in Nodes(job.goal) : n.k \in PlainKinds /\ (n.k \in {"all", "some"} => ~IsBareIntBound(n.b))
     /\ ~HasSharedFormula(job.goal)
     => Circuit \subseteq EncodeGoal(job.goal, Validated(job.members), TRUE)]_vars
=============================================================================
