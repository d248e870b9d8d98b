--------------------------------- MODULE Ir ---------------------------------
(***************************************************************************)
(* The intermediate language of a lowered command (ir.rs): formulas,       *)
(* relational and integer expressions over the atoms of a universe and     *)
(* the bounded relations of a command.  A node is a record with a kind k;  *)
(* two uses of one arena node are one value, so a copy that lowering made  *)
(* separately differs from the original in a tag or a variable.            *)
(*                                                                         *)
(*   rel   rel(r) var(v) none univ iden bin(op,l,r) un(op,e)               *)
(*         rite(c,t,e) comp(decls,body,tag) cast(i)                        *)
(*   int   const(n) card(e) int(e) neg(i) ibin(op,l,r) isum(v,b,body)      *)
(*         iite(c,t,e)                                                     *)
(*   error a construct that lowering defers                                *)
(*   form  bool(b) not(f) and(fs) or(fs) imp(a,b) iff(a,b) rcmp(op,l,r)    *)
(*         icmp(op,l,r) mult(test,e) all(v,b,body) some(v,b,body)          *)
(***************************************************************************)
EXTENDS IntValues, SequencesExt, TLC

CONSTANTS SigAtoms,     \* number of the atoms of signatures: 0 .. SigAtoms - 1
          Bitwidth,     \* the width of the command's integers
          StringAtoms,  \* number of the atoms that follow the integers
          Relations,    \* the relations of the command
          RelLower,     \* relation -> the tuples it certainly has
          RelUpper,     \* relation -> the tuples it may have
          IntSig,       \* the built-in relation Int
          SeqIntSig     \* the built-in relation seq/Int

ASSUME BoundsAreNested == \A r \in Relations : RelLower[r] \subseteq RelUpper[r]

(* The integers' atoms follow those of the signatures, in value order. *)
IntStart == SigAtoms
IntEnd   == SigAtoms + (IF Bitwidth >= 1 THEN 2^Bitwidth ELSE 0)
IntAtoms == IntStart..(IntEnd - 1)
Atoms    == 0..(IntEnd + StringAtoms - 1)
IsIntAtom(a) == a \in IntAtoms
AtomIntValue(a) == a - IntStart + IntMin(Bitwidth)
IntAtom(n) == n - IntMin(Bitwidth) + IntStart

FormulaKinds == {"bool", "not", "and", "or", "imp", "iff", "rcmp", "icmp",
                 "mult", "all", "some"}
IsFormula(n) == n.k \in FormulaKinds

DeclBounds(n) == [i \in 1..Len(n.decls) |-> n.decls[i].b]
DeclVars(n)   == {n.decls[i].v : i \in 1..Len(n.decls)}

(* A relation that lowering mints carries its own bounds: nothing below,  *)
(* and everything of its upper bound above.                                *)
LowerOf(r) == IF r \in Relations THEN RelLower[r] ELSE {}
UpperOf(r) == IF r \in Relations THEN RelUpper[r] ELSE r.upper

(* The nodes a node refers to, in the order they are visited. *)
Parts(n) ==
  CASE n.k \in {"rel", "var", "none", "univ", "iden", "const", "bool", "error"} -> <<>>
    [] n.k \in {"bin", "ibin", "rcmp", "icmp"} -> <<n.l, n.r>>
    [] n.k \in {"un", "card", "int", "mult"}   -> <<n.e>>
    [] n.k \in {"cast", "neg"}    -> <<n.i>>
    [] n.k \in {"rite", "iite"}   -> <<n.c, n.t, n.e>>
    [] n.k = "comp"               -> DeclBounds(n) \o <<n.body>>
    [] n.k \in {"isum", "all", "some"} -> <<n.b, n.body>>
    [] n.k = "not"                -> <<n.f>>
    [] n.k \in {"and", "or"}      -> n.fs
    [] n.k \in {"imp", "iff"}     -> <<n.a, n.b>>

RECURSIVE FreeVars(_)
FreeVars(n) ==
  LET of(m) == FreeVars(m)
      all   == UNION {of(m) : m \in Range(Parts(n))}
  IN  CASE n.k = "var"  -> {n.v}
        [] n.k = "comp" -> all \ DeclVars(n)
        [] n.k \in {"isum", "all", "some"} -> FreeVars(n.b) \cup (FreeVars(n.body) \ {n.v})
        [] OTHER -> all

RECURSIVE Nodes(_)
Nodes(n) == {n} \cup UNION {Nodes(m) : m \in Range(Parts(n))}

(* Whether a formula node is referred to from more than one place. *)
HasSharedFormula(goal) ==
  LET nodes   == Nodes(goal)
      refs(f) == UNION {{<<n, i>> : i \in {j \in DOMAIN Parts(n) : Parts(n)[j] = f}} : n \in nodes}
  IN  \E f \in {n \in nodes : IsFormula(n)} : Cardinality(refs(f)) > 1

TupleLess(s, t) ==
  \E i \in 1..Len(t) :
    /\ i > Len(s) \/ s[i] < t[i]
    /\ \A j \in 1..(i - 1) : j <= Len(s) /\ s[j] = t[j]
InTupleOrder(tuples) ==
  LET before(t) == Cardinality({s \in tuples : TupleLess(s, t)})
  IN  [i \in 1..Cardinality(tuples) |-> CHOOSE t \in tuples : before(t) = i - 1]

----------------------------------------------------------------------------
(* What the encoder and the evaluator share: which overflows reach a       *)
(* comparison when overflow is forbidden (overflow_guard.rs), and a walk   *)
(* down the goal with a context x of the bindings in force (env), the      *)
(* polarity (pos) and the enclosing binders (frames), and a memo of the    *)
(* nodes already met.  What the guard answers depends on the bounds and    *)
(* the bindings in force, never on an instance.                            *)

RECURSIVE OverflowCapable(_)
OverflowCapable(i) ==
  CASE i.k = "const" -> ConstOverflows(i.n, Bitwidth)
    [] i.k = "int"   -> FALSE
    [] i.k = "iite"  -> OverflowCapable(i.t) \/ OverflowCapable(i.e)
    [] OTHER         -> TRUE

(* The expression e - e is empty only if the two sides are spelled alike;  *)
(* no equality is claimed of the binders and casts.                        *)
RECURSIVE RelExprEq(_, _)
RelExprEq(a, b) ==
  \/ a = b
  \/ /\ a.k = "bin" /\ b.k = "bin" /\ a.op = b.op
     /\ RelExprEq(a.l, b.l) /\ RelExprEq(a.r, b.r)
  \/ a.k = "un" /\ b.k = "un" /\ a.op = b.op /\ RelExprEq(a.e, b.e)

Unknown == "unknown"
BinaryEmptiness(op, l, r, same) ==
  CASE op = "union" ->
         IF l = "empty" /\ r = "empty" THEN "empty"
         ELSE IF "nonempty" \in {l, r} THEN "nonempty" ELSE Unknown
    [] op = "override" ->
         IF l = "empty" /\ r = "empty" THEN "empty"
         ELSE IF r = "nonempty" \/ (r = "empty" /\ l = "nonempty") THEN "nonempty"
         ELSE Unknown
    [] op \in {"intersect", "join"} ->
         IF "empty" \in {l, r} THEN "empty" ELSE Unknown
    [] op = "product" ->
         IF "empty" \in {l, r} THEN "empty"
         ELSE IF l = "nonempty" /\ r = "nonempty" THEN "nonempty" ELSE Unknown
    [] op = "diff" ->
         IF l = "empty" \/ same THEN "empty"
         ELSE IF l = "nonempty" /\ r = "empty" THEN "nonempty" ELSE Unknown

(* A folded integer is <<value, flag>>; a folded formula a boolean. *)
RECURSIVE Emptiness(_, _), FoldInt(_, _), FoldFormula(_, _), CapableCasts(_, _)
Emptiness(e, env) ==
  CASE e.k = "none" -> "empty"
    [] e.k \in {"univ", "iden"} -> IF Atoms = {} THEN "empty" ELSE "nonempty"
    [] e.k = "var"  -> IF e.v \in DOMAIN env THEN "nonempty" ELSE Unknown
    [] e.k = "rel"  -> IF RelLower[e.r] # {} THEN "nonempty"
                       ELSE IF RelUpper[e.r] = {} THEN "empty" ELSE Unknown
    [] e.k = "cast" -> LET n == FoldInt(e.i, env)
                       IN  IF n = <<>> THEN Unknown
                           ELSE IF n[2] THEN "empty" ELSE "nonempty"
    [] e.k = "bin"  -> BinaryEmptiness(e.op, Emptiness(e.l, env), Emptiness(e.r, env),
                                       RelExprEq(e.l, e.r))
    [] e.k = "un"   -> IF e.op = "rclosure" THEN Unknown ELSE Emptiness(e.e, env)
    [] e.k = "rite" -> LET c == FoldFormula(e.c, env)
                       IN  IF c = {TRUE} THEN Emptiness(e.t, env)
                           ELSE IF c = {FALSE} THEN Emptiness(e.e, env)
                           ELSE IF Emptiness(e.t, env) = "empty" /\ Emptiness(e.e, env) = "empty"
                           THEN "empty" ELSE Unknown
    [] e.k = "comp" -> Unknown

Fixed(r) == RelLower[r] = RelUpper[r]
IntsOf(tuples) ==
  LET atoms == {t \in tuples : Len(t) = 1 /\ IsIntAtom(t[1])}
  IN  [i \in 1..Cardinality(atoms) |-> AtomIntValue(InTupleOrder(atoms)[i][1])]

(* A sum in tuple order, flagged when any partial sum leaves the range. *)
SumOf(values) ==
  LET step(s, n) == <<WrapSigned(s[1] + n, Bitwidth),
                      s[2] \/ ConstOverflows(s[1] + n, Bitwidth)>>
  IN  FoldLeft(step, <<0, FALSE>>, values)

(* The values of a set known at translation time, and how many tuples it   *)
(* has: an empty set of answers when it is not known.                      *)
ConstAtomInts(e, env) ==
  CASE e.k = "none" -> {<<>>}
    [] e.k = "var" /\ e.v \in DOMAIN env -> {IntsOf({env[e.v]})}
    [] e.k = "rel" /\ Fixed(e.r) -> {IntsOf(RelLower[e.r])}
    [] e.k = "cast" -> LET n == FoldInt(e.i, env)
                       IN  IF n = <<>> THEN {} ELSE IF n[2] THEN {<<>>} ELSE {<<n[1]>>}
    [] OTHER -> {}
ConstCard(e, env) ==
  CASE Emptiness(e, env) = "empty" -> {0}
    [] e.k = "var" /\ e.v \in DOMAIN env -> {1}
    [] e.k = "rel" /\ Fixed(e.r) -> {Cardinality(RelLower[e.r])}
    [] e.k = "cast" /\ Emptiness(e, env) = "nonempty" -> {1}
    [] OTHER -> {}

FoldInt(i, env) ==
  CASE i.k = "const" -> <<WrapSigned(i.n, Bitwidth), ConstOverflows(i.n, Bitwidth)>>
    [] i.k = "card" ->
         LET casts   == CapableCasts(i.e, env)
             fold(j) == FoldInt(casts[j], env)
             flagged(j) == fold(j) # <<>> /\ fold(j)[2]
             over    == \E n \in ConstCard(i.e, env) : n > IntMax(Bitwidth)
             (* the first flag ends the walk, and what it has not folded by then *)
             lost    == \E j \in 1..Len(casts) :
                          fold(j) = <<>> /\ ~over /\ \A h \in 1..(j - 1) : ~flagged(h)
         IN  IF ConstCard(i.e, env) = {} \/ lost THEN <<>>
             ELSE <<WrapSigned(CHOOSE n \in ConstCard(i.e, env) : TRUE, Bitwidth),
                    over \/ \E j \in 1..Len(casts) : flagged(j)>>
    [] i.k = "int" ->
         IF ConstAtomInts(i.e, env) = {} THEN <<>>
         ELSE SumOf(CHOOSE s \in ConstAtomInts(i.e, env) : TRUE)
    [] i.k = "neg" ->
         LET n == FoldInt(i.i, env)
         IN  IF n = <<>> THEN <<>>
             ELSE <<WrapSigned(-n[1], Bitwidth), n[2] \/ n[1] = IntMin(Bitwidth)>>
    [] i.k = "ibin" ->
         LET a == FoldInt(i.l, env)
             b == FoldInt(i.r, env)
         IN  IF <<>> \in {a, b} THEN <<>>
             ELSE LET n == IntBinopValue(i.op, a[1], b[1], Bitwidth)
                  IN  <<n[1], a[2] \/ b[2] \/ n[2]>>
    [] i.k = "isum" -> <<>>
    [] i.k = "iite" ->
         LET c == FoldFormula(i.c, env)
         IN  IF c = {} THEN <<>> ELSE FoldInt(IF c = {TRUE} THEN i.t ELSE i.e, env)

(* The truth value a formula has at translation time, {} if it has none. *)
FoldFormula(f, env) ==
  CASE f.k = "bool" -> {f.b}
    [] f.k = "not"  -> {~b : b \in FoldFormula(f.f, env)}
    [] f.k \in {"and", "or"} ->
         LET parts == {FoldFormula(g, env) : g \in Range(f.fs)}
         IN  IF {f.k = "or"} \in parts THEN {f.k = "or"}
             ELSE IF {} \in parts THEN {} ELSE {f.k = "and"}
    [] f.k = "imp" ->
         LET a == FoldFormula(f.a, env)
             b == FoldFormula(f.b, env)
         IN  IF a = {FALSE} \/ b = {TRUE} THEN {TRUE} ELSE IF a = {TRUE} THEN b ELSE {}
    [] f.k = "iff" -> {a = b : a \in FoldFormula(f.a, env), b \in FoldFormula(f.b, env)}
    [] f.k = "icmp" ->
         LET a == FoldInt(f.l, env)
             b == FoldInt(f.r, env)
         IN  IF a # <<>> /\ b # <<>> /\ ~a[2] /\ ~b[2]
             THEN {CompareValues(f.op, a[1], b[1])} ELSE {}
    [] f.k = "mult" ->
         LET e == Emptiness(f.e, env)
         IN  IF \/ e = "empty" /\ f.test \in {"no", "lone"}
                \/ e = "nonempty" /\ f.test = "some" THEN {TRUE}
             ELSE IF \/ e = "nonempty" /\ f.test = "no"
                     \/ e = "empty" /\ f.test \in {"one", "some"} THEN {FALSE}
             ELSE {}
    [] OTHER -> {}

(***************************************************************************)
(* The casts whose overflow reaches the reader of a set expression: a      *)
(* union drops the circuit of a side with no cells, the left one first,    *)
(* an override only that of its right side.                                *)
(***************************************************************************)
CapableCasts(e, env) ==
  LET both == CapableCasts(e.l, env) \o CapableCasts(e.r, env)
  IN  CASE e.k = "cast" -> IF OverflowCapable(e.i) THEN <<e.i>> ELSE <<>>
        [] e.k = "bin" /\ e.op = "union" ->
             IF Emptiness(e.l, env) = "empty" THEN CapableCasts(e.r, env)
             ELSE IF Emptiness(e.r, env) = "empty" THEN CapableCasts(e.l, env) ELSE both
        [] e.k = "bin" /\ e.op = "override" ->
             IF Emptiness(e.r, env) = "empty" THEN CapableCasts(e.l, env) ELSE both
        [] e.k = "bin" /\ e.op \notin {"union", "override"} -> both
        [] e.k = "un" -> CapableCasts(e.e, env)
        [] e.k = "rite" ->
             LET c == FoldFormula(e.c, env)
             IN  (IF c = {FALSE} THEN <<>> ELSE CapableCasts(e.t, env))
                 \o (IF c = {TRUE} THEN <<>> ELSE CapableCasts(e.e, env))
        [] OTHER -> <<>>

(* A multiplicity test that its operand's folded cells already answer      *)
(* sheds every guard.                                                      *)
MultTestCasts(test, e, env) ==
  IF \/ test \in {"lone", "one"} /\ Emptiness(e, env) = "empty"
     \/ test = "some" /\ Emptiness(e, env) = "nonempty"
  THEN <<>> ELSE CapableCasts(e, env)

IsBareIntBound(b) == b.k = "rel" /\ b.r \in {IntSig, SeqIntSig}

ClassifyAnyBinder(frames, free) ==
  frames # <<>> /\ frames[Len(frames)].all
(* The innermost binder over the integers that the operand mentions        *)
(* decides: a universal one rescues the comparison, anything else          *)
(* excludes it.  A frame is [v, bare, all].                                *)
Classify(frames, free) ==
  LET named == {i \in 1..Len(frames) : frames[i].bare /\ frames[i].v \in free}
  IN  named # {} /\ frames[CHOOSE i \in named : \A j \in named : j <= i].all

----------------------------------------------------------------------------
(* The walk. *)

EmptyFunction == [k \in {} |-> {}]
Joined(s, t) == Front(s) \o Tail(t)

Bind(x, v, t) == [x EXCEPT !.env = (v :> t) @@ @]
Negated(x)    == [x EXCEPT !.pos = ~@]
Within(x, n)  ==
  [x EXCEPT !.frames = Append(@, [v |-> n.v, bare |-> IsBareIntBound(n.b),
                                  all |-> (n.k = "all") = x.pos])]

MemoKeyNoBindings(n, x) == <<IF n \in DOMAIN x.classes THEN <<"class", x.classes[n]>>
                             ELSE <<"node", n>>, <<>>>>

(* A member of a translation class shares the entry of its class. *)
MemoKey(n, x) ==
  LET who == IF n \in DOMAIN x.classes THEN <<"class", x.classes[n]>> ELSE <<"node", n>>
  IN  <<who, [v \in FreeVars(n) |-> x.env[v]]>>
=============================================================================
