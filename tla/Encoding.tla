------------------------------ MODULE Encoding ------------------------------
(***************************************************************************)
(* The translation of a goal to a circuit (encode/mod.rs, matrix.rs): a    *)
(* bottom-up walk in which a relational expression becomes a matrix (a     *)
(* function from its candidate tuples to gates), an integer expression     *)
(* bits with an accumulated overflow flag, and a formula one gate.         *)
(*                                                                         *)
(* The walk carries a context x: the bindings in force (env), the polarity *)
(* (pos), the enclosing binders (frames), the translation classes, and     *)
(* whether overflow is allowed (allow).  The memo m keeps what a node was  *)
(* first encoded to under the bindings of its free variables, whatever the *)
(* polarity of the later visits.                                           *)
(***************************************************************************)
EXTENDS Ir

(* The primary variables: the tuples a relation may but need not have. *)
Primary == {<<r, t>> \in Relations \X UNION {RelUpper[s] : s \in Relations} :
              t \in RelUpper[r] \ RelLower[r]}
Instances == SUBSET Primary

INSTANCE IntCircuits WITH Assignments <- Instances

(*------------------------------- matrices -------------------------------*)
Matrix(tuples, Cell(_)) ==
  LET kept == {t \in tuples : Cell(t) # False} IN [t \in kept |-> Cell(t)]
CellAt(m, t) == IF t \in DOMAIN m THEN m[t] ELSE False
ConstMatrix(tuples) == [t \in tuples |-> True]

RelationMatrix(r) ==
  [t \in RelUpper[r] |-> IF t \in RelLower[r] THEN True
                         ELSE {a \in Instances : <<r, t>> \in a}]
UnivMatrix == ConstMatrix({<<a>> : a \in Atoms})
IdenMatrix == ConstMatrix({<<a, a>> : a \in Atoms})

Union(a, b)     == Matrix(DOMAIN a \cup DOMAIN b, LAMBDA t : Or(CellAt(a, t), CellAt(b, t)))
Intersect(a, b) == Matrix(DOMAIN a \cap DOMAIN b, LAMBDA t : And(a[t], b[t]))
Difference(a, b) == Matrix(DOMAIN a, LAMBDA t : And(a[t], Not(CellAt(b, t))))
Product(a, b) ==
  LET width == IF DOMAIN a = {} THEN 0 ELSE Len(CHOOSE t \in DOMAIN a : TRUE)
  IN  Matrix({s \o t : s \in DOMAIN a, t \in DOMAIN b},
             LAMBDA u : And(a[SubSeq(u, 1, width)], b[SubSeq(u, width + 1, Len(u))]))

Join(a, b) ==
  LET pairs == {p \in (DOMAIN a) \X (DOMAIN b) : Last(p[1]) = p[2][1]}
  IN  Matrix({Joined(p[1], p[2]) : p \in pairs},
             LAMBDA u : OrMany({And(a[p[1]], b[p[2]]) :
                                  p \in {q \in pairs : Joined(q[1], q[2]) = u}}))

Override(a, b) ==
  LET inDom(x) == OrMany({b[t] : t \in {s \in DOMAIN b : s[1] = x}})
      left     == Matrix(DOMAIN a, LAMBDA t : And(a[t], Not(inDom(t[1]))))
  IN  Matrix(DOMAIN left \cup DOMAIN b, LAMBDA t : Or(CellAt(left, t), CellAt(b, t)))

Transpose(a) == [t \in {<<s[2], s[1]>> : s \in DOMAIN a} |-> a[<<t[2], t[1]>>]]
RelIte(c, a, b) ==
  Matrix(DOMAIN a \cup DOMAIN b, LAMBDA t : Ite(c, CellAt(a, t), CellAt(b, t)))

(* Squared as often as paths through the operand's own atoms need. *)
Support(a)  == UNION {Range(t) : t \in DOMAIN a}
Log2Ceil(n) == CHOOSE k \in 0..n : 2^k >= n /\ (k = 0 \/ 2^(k - 1) < n)
ClosureShort(a) ==
  LET square(s, i) == Union(s, Join(s, s))
  IN  FoldLeft(square, a, [i \in 1..(Log2Ceil(Cardinality(Support(a))) - 1) |-> i])
Closure(a) ==
  LET square(s, i) == Union(s, Join(s, s))
  IN  FoldLeft(square, a, [i \in 1..Log2Ceil(Cardinality(Support(a))) |-> i])

RelBinary(op, a, b) ==
  CASE op = "union"     -> Union(a, b)
    [] op = "intersect" -> Intersect(a, b)
    [] op = "diff"      -> Difference(a, b)
    [] op = "product"   -> Product(a, b)
    [] op = "join"      -> Join(a, b)
    [] op = "override"  -> Override(a, b)
RelUnary(op, a) ==
  CASE op = "transpose" -> Transpose(a)
    [] op = "closure"   -> Closure(a)
    [] op = "rclosure"  -> Union(Closure(a), IdenMatrix)

(*--------------------------- tests and numbers ---------------------------*)
RelCompare(op, a, b) ==
  CASE op = "in" -> AndMany({Implies(a[t], CellAt(b, t)) : t \in DOMAIN a})
    [] op = "eq" -> AndMany({Iff(CellAt(a, t), CellAt(b, t)) : t \in DOMAIN a \cup DOMAIN b})

AtMostOne(m) ==
  AndMany({Not(And(m[s], m[t])) : <<s, t>> \in {p \in (DOMAIN m) \X (DOMAIN m) : p[1] # p[2]}})
MultTest(test, m) ==
  LET some == OrMany(Range(m))
  IN  CASE test = "no"   -> Not(some)
        [] test = "some" -> some
        [] test = "lone" -> AtMostOne(m)
        [] test = "one"  -> And(some, AtMostOne(m))

CardinalityOf(m) ==
  LET cells == InTupleOrder(DOMAIN m)
      step(acc, t) == AddBit(acc, m[t])
  IN  UnsignedToSigned(FoldLeft(step, <<False>>, cells), Bitwidth)

Zero == [v |-> IntConst(0, Bitwidth), of |-> False]
AtomToInt(m) ==
  LET atoms == InTupleOrder({t \in DOMAIN m : Len(t) = 1 /\ IsIntAtom(t[1])})
      step(s, t) ==
        LET r == AddSigned(s.v, Gated(m[t], IntConst(AtomIntValue(t[1]), Bitwidth)))
        IN  [v |-> r.v, of |-> Or(s.of, r.of)]
  IN  FoldLeft(step, Zero, atoms)

IntToAtomUnguarded(n, guarded) ==
  Matrix({<<a>> : a \in IntAtoms}, LAMBDA t : Equal(n.v, IntConst(AtomIntValue(t[1]), Bitwidth)))
(* The atom of a number, none of them when a forbidden overflow struck. *)
IntToAtom(n, guarded) ==
  Matrix({<<a>> : a \in IntAtoms},
         LAMBDA t : LET cell == Equal(n.v, IntConst(AtomIntValue(t[1]), Bitwidth))
                    IN  IF guarded THEN And(cell, Not(n.of)) ELSE cell)

(* The guard one operand's overflow puts on a comparison. *)
ApplyOverflowGuard(x, atom, of, operand) ==
  IF of = False THEN atom
  ELSE IF x.pos = Classify(x.frames, FreeVars(operand)) THEN Or(atom, of)
  ELSE And(atom, Not(of))

(*-------------------------------- the walk --------------------------------*)
RECURSIVE Encode(_, _, _), EncodeNode(_, _, _), EncodeEach(_, _, _),
          EncodeUnder(_, _, _, _), EncodeTuples(_, _, _, _, _), GuardCasts(_, _, _, _)

Encode(n, x, m) ==
  LET key == MemoKey(n, x)
  IN  IF key \in DOMAIN m THEN [v |-> m[key], m |-> m]
      ELSE LET r == EncodeNode(n, x, m) IN [v |-> r.v, m |-> (key :> r.v) @@ r.m]

EncodeEach(ns, x, m) ==
  LET step(s, n) == LET r == Encode(n, x, s.m) IN [v |-> Append(s.v, r.v), m |-> r.m]
  IN  FoldLeft(step, [v |-> <<>>, m |-> m], ns)

(* The body under every binding of the variable to a candidate tuple. *)
EncodeUnder(n, bound, x, m) ==
  LET step(s, t) ==
        LET r == Encode(n.body, Bind(x, n.v, t), s.m)
        IN  [v |-> Append(s.v, [in |-> bound[t], body |-> r.v]), m |-> r.m]
  IN  FoldLeft(step, [v |-> <<>>, m |-> m], InTupleOrder(DOMAIN bound))

(* A comprehension's cells, one declaration at a time. *)
EncodeTuples(n, i, prefix, x, m) ==
  IF i > Len(n.decls)
  THEN LET r == Encode(n.body, x, m) IN [v |-> prefix[1] :> And(prefix[2], r.v), m |-> r.m]
  ELSE LET b == Encode(n.decls[i].b, x, m)
           step(s, t) ==
             LET r == EncodeTuples(n, i + 1, <<prefix[1] \o t, And(prefix[2], b.v[t])>>,
                                   Bind(x, n.decls[i].v, t), s.m)
             IN  [v |-> s.v @@ r.v, m |-> r.m]
       IN  FoldLeft(step, [v |-> <<>>, m |-> b.m], InTupleOrder(DOMAIN b.v))

(* The overflow of every surviving cast guards the comparison, in order. *)
GuardCasts(atom, casts, x, m) ==
  LET step(s, i) == LET r == Encode(i, x, s.m)
                    IN  [v |-> ApplyOverflowGuard(x, s.v, r.v.of, i), m |-> r.m]
  IN  IF x.allow THEN [v |-> atom, m |-> m]
      ELSE FoldLeft(step, [v |-> atom, m |-> m], casts)

EncodeRel(n, x, m) ==
  CASE n.k = "rel"  -> [v |-> RelationMatrix(n.r), m |-> m]
    [] n.k = "var"  -> [v |-> ConstMatrix({x.env[n.v]}), m |-> m]
    [] n.k = "none" -> [v |-> ConstMatrix({}), m |-> m]
    [] n.k = "univ" -> [v |-> UnivMatrix, m |-> m]
    [] n.k = "iden" -> [v |-> IdenMatrix, m |-> m]
    [] n.k = "bin"  -> LET s == EncodeEach(<<n.l, n.r>>, x, m)
                       IN  [v |-> RelBinary(n.op, s.v[1], s.v[2]), m |-> s.m]
    [] n.k = "un"   -> LET s == Encode(n.e, x, m) IN [v |-> RelUnary(n.op, s.v), m |-> s.m]
    [] n.k = "rite" -> LET s == EncodeEach(<<n.c, n.t, n.e>>, x, m)
                       IN  [v |-> RelIte(s.v[1], s.v[2], s.v[3]), m |-> s.m]
    [] n.k = "comp" -> LET s == EncodeTuples(n, 1, <<<<>>, True>>, x, m)
                       IN  [v |-> Matrix(DOMAIN s.v, LAMBDA t : s.v[t]), m |-> s.m]
    [] n.k = "cast" -> LET s == Encode(n.i, x, m)
                       IN  [v |-> IntToAtom(s.v, ~x.allow /\ OverflowCapable(n.i)),
                            m |-> s.m]

(* #e merges the overflow of the casts that survive in e. *)
EncodeCard(n, x, m) ==
  LET e     == Encode(n.e, x, m)
      casts == IF x.allow THEN <<>> ELSE CapableCasts(n.e, x.env)
      s     == EncodeEach(casts, x, e.m)
      count == CardinalityOf(e.v)
  IN  [v |-> [v |-> count.v, of |-> Or(count.of, OrMany({c.of : c \in Range(s.v)}))],
       m |-> s.m]

EncodeSum(n, x, m) ==
  LET b == Encode(n.b, x, m)
      s == EncodeUnder(n, b.v, x, b.m)
      step(acc, e) ==
        LET r == AddSigned(acc.v, Mux(e.in, e.body.v, IntConst(0, Bitwidth)))
        IN  [v |-> r.v, of |-> OrMany({acc.of, r.of, And(e.in, e.body.of)})]
  IN  [v |-> FoldLeft(step, Zero, s.v), m |-> s.m]

EncodeInt(n, x, m) ==
  CASE n.k = "const" -> [v |-> [v  |-> IntConst(n.n, Bitwidth),
                                of |-> Const(ConstOverflows(n.n, Bitwidth))], m |-> m]
    [] n.k = "card"  -> EncodeCard(n, x, m)
    [] n.k = "int"   -> LET s == Encode(n.e, x, m) IN [v |-> AtomToInt(s.v), m |-> s.m]
    [] n.k = "neg"   -> LET s == Encode(n.i, x, m)
                            r == Negate(s.v.v)
                        IN  [v |-> [v |-> r.v, of |-> Or(s.v.of, r.of)], m |-> s.m]
    [] n.k = "ibin"  -> LET s == EncodeEach(<<n.l, n.r>>, x, m)
                            r == IntBinop(n.op, s.v[1].v, s.v[2].v)
                        IN  [v |-> [v  |-> r.v,
                                    of |-> OrMany({s.v[1].of, s.v[2].of, r.of})], m |-> s.m]
    [] n.k = "isum"  -> EncodeSum(n, x, m)
    [] n.k = "iite"  -> LET s == EncodeEach(<<n.c, n.t, n.e>>, x, m)
                            c == s.v[1]
                        IN  [v |-> [v  |-> Mux(c, s.v[2].v, s.v[3].v),
                                    of |-> Ite(c, s.v[2].of, s.v[3].of)], m |-> s.m]

EncodeQuant(n, x, m) ==
  LET b == Encode(n.b, x, m)
      s == EncodeUnder(n, b.v, Within(x, n), b.m)
  IN  [v |-> IF n.k = "all" THEN AndMany({Implies(e.in, e.body) : e \in Range(s.v)})
             ELSE OrMany({And(e.in, e.body) : e \in Range(s.v)}),
       m |-> s.m]

EncodeIntCompare(n, x, m) ==
  LET s    == EncodeEach(<<n.l, n.r>>, x, m)
      atom == Compare(n.op, s.v[1].v, s.v[2].v)
      left == ApplyOverflowGuard(x, atom, s.v[1].of, n.l)
  IN  [v |-> IF x.allow THEN atom ELSE ApplyOverflowGuard(x, left, s.v[2].of, n.r),
       m |-> s.m]

EncodeFormula(n, x, m) ==
  CASE n.k = "bool" -> [v |-> Const(n.b), m |-> m]
    [] n.k = "not"  -> LET s == Encode(n.f, Negated(x), m) IN [v |-> Not(s.v), m |-> s.m]
    [] n.k = "and"  -> LET s == EncodeEach(n.fs, x, m) IN [v |-> AndMany(Range(s.v)), m |-> s.m]
    [] n.k = "or"   -> LET s == EncodeEach(n.fs, x, m) IN [v |-> OrMany(Range(s.v)), m |-> s.m]
    [] n.k = "imp"  -> LET s == EncodeEach(<<n.a, n.b>>, x, m)
                       IN  [v |-> Implies(s.v[1], s.v[2]), m |-> s.m]
    [] n.k = "iff"  -> LET s == EncodeEach(<<n.a, n.b>>, x, m)
                       IN  [v |-> Iff(s.v[1], s.v[2]), m |-> s.m]
    [] n.k = "rcmp" -> LET s == EncodeEach(<<n.l, n.r>>, x, m)
                       IN  GuardCasts(RelCompare(n.op, s.v[1], s.v[2]),
                                      CapableCasts(n.l, x.env) \o CapableCasts(n.r, x.env), x, s.m)
    [] n.k = "icmp" -> EncodeIntCompare(n, x, m)
    [] n.k = "mult" -> LET s == Encode(n.e, x, m)
                       IN  GuardCasts(MultTest(n.test, s.v), MultTestCasts(n.test, n.e, x.env),
                                      x, s.m)
    [] n.k \in {"all", "some"} -> EncodeQuant(n, x, m)

EncodeNode(n, x, m) ==
  IF IsFormula(n) THEN EncodeFormula(n, x, m)
  ELSE IF n.k \in {"const", "card", "int", "neg", "ibin", "isum", "iite"}
  THEN EncodeInt(n, x, m) ELSE EncodeRel(n, x, m)

Start(classes, allow) ==
  [env |-> EmptyFunction, pos |-> TRUE, frames |-> <<>>, classes |-> classes, allow |-> allow]
EncodeGoal(goal, classes, allow) == Encode(goal, Start(classes, allow), EmptyFunction).v
=============================================================================
