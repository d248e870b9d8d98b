------------------------------- MODULE Bounds -------------------------------
(***************************************************************************)
(* The relations that stand for the signatures and fields, their bounds    *)
(* over the atoms that Scopes minted, and the constraints that the bounds  *)
(* do not say (als-core: bounds_builder.rs).                               *)
(*                                                                         *)
(* A leaf signature has a relation of its own; a signature with children   *)
(* is their union, with a remainder unless it is abstract; an `in'         *)
(* signature has one within its parents, an `=' signature is their union.  *)
(* What these promise together is that the populations left, up to the     *)
(* names of atoms, are those that the scopes and declarations allow.       *)
(***************************************************************************)
EXTENDS Scopes

CONSTANTS IntSig, SeqIntSig, StringSig   \* Int, seq/Int and String as columns of a field's type

VARIABLES
  lower, upper,   \* atoms that a signature must and may contain
  rels,           \* the bound of each relation, by its name
  constraints

boundsVars == <<lower, upper, rels, constraints>>
vars == <<scopeVars, boundsVars>>

Exactly(S) == [lower |-> S, upper |-> S]
Within(S) == [lower |-> {}, upper |-> S]

\* Names of relations.
Leaf(s) == <<"leaf", s>>
Remainder(s) == <<"remainder", s>>
Subset(s) == <<"subset", s>>
Field(f) == <<"field", f>>
Builtin(b) == <<"builtin", b>>

Ancestors(w, s) ==
  LET up[t \in SigsOf(w) \cup {Univ}] == IF t = Univ THEN {} ELSE {t} \cup up[w.parent[t]]
  IN  up[s]
Subtree(w, s) == {t \in SigsOf(w) : s \in Ancestors(w, t)}
Leaves(w) == {s \in SigsOf(w) : Children(w, s) = {}}

-----------------------------------------------------------------------------
(* Atom bounds of the signatures.                                          *)

LowerOf(w, ex, minted) ==
  [s \in SigsOf(w) |-> UNION {minted[t] : t \in ex \cap Subtree(w, s)}]

Floating(w, low, up, s) == up[s] \ UNION {low[k] : k \in Children(w, s)}

UpperIgnoringSiblings(w, sc, low, minted) ==
  LET up[s \in SigsOf(w)] ==
        IF w.parent[s] = Univ THEN UNION {low[k] : k \in Children(w, s)} \cup minted[s]
        ELSE low[s] \cup up[w.parent[s]]
  IN  up

\* From the top down, a child that may still grow may take any atom of its parent that no
\* child is sure to have.
UpperOf(w, sc, low, minted) ==
  LET seed(s) == UNION {low[k] : k \in Children(w, s)} \cup minted[s]
      up[s \in SigsOf(w)] ==
        IF w.parent[s] = Univ THEN seed(s)
        ELSE seed(s) \cup (IF sc[s] > Cardinality(low[s])
                           THEN Floating(w, low, up, w.parent[s]) ELSE {})
  IN  up

AtomBounds ==
  /\ phase = "bounds"
  /\ lower' = LowerOf(world, exact, universe.minted)
  /\ upper' = UpperOf(world, scope, lower', universe.minted)
  /\ phase' = "relations"
  /\ UNCHANGED <<world, command, dirty, scope, exact, error, universe, rels, constraints>>

-----------------------------------------------------------------------------
(* Relations.                                                              *)

RemainderLoose(s) == Within(Floating(world, lower, upper, s))

\* An exact parent pins its remainder to all its floating atoms: the children only tag
\* them again.
RemainderBound(s) ==
  IF s \in exact THEN Exactly(Floating(world, lower, upper, s))
                 ELSE Within(Floating(world, lower, upper, s))

SigAtoms == 0 .. (Cardinality(UNION Range(universe.minted)) - 1)
IntAtoms == {Cardinality(SigAtoms) + i : i \in 0 .. IntCount(command) - 1}
\* The first integers that are not negative.
SeqAtoms == {Cardinality(SigAtoms) + HalfInts(command) + i : i \in 0 .. universe.maxseq - 1}
              \cap IntAtoms

\* The strings come last.
StringAtoms == {Cardinality(SigAtoms) + IntCount(command) + i :
                  i \in 0 .. Cardinality(universe.strings) - 1}

\* The integers' order and their zero are constants; without integers there are none.
IntNext == {<<a, a + 1>> : a \in {i \in IntAtoms : i + 1 \in IntAtoms}}
IntZero == {<<Cardinality(SigAtoms) + HalfInts(command)>>}
BuiltinBounds ==
  [r \in {Builtin(b) : b \in {IntSig, SeqIntSig, StringSig} \cup
                              (IF IntAtoms = {} THEN {} ELSE {"next", "zero"})} |->
     CASE r[2] = IntSig -> Exactly(IntAtoms)
       [] r[2] = SeqIntSig -> Exactly(SeqAtoms)
       [] r[2] = StringSig -> Exactly(StringAtoms)
       [] r[2] = "next" -> Exactly(IntNext)
       [] r[2] = "zero" -> Exactly(IntZero)]

\* The atoms of a column of a field's type.
ColumnAtoms(col) ==
  CASE col = IntSig -> IntAtoms
    [] col = SeqIntSig -> SeqAtoms
    [] col = StringSig -> StringAtoms
    [] OTHER -> upper[col]

UpperAtoms(s) == IF s \in SigsOf(world) THEN upper[s]
                 ELSE UNION {upper[p] : p \in world.subsets[s].parents}

\* Of a signature that is always one atom the owner column is not stored.
IsOneSig(s) == s \notin world.var /\ world.mult[s] = "one"
StoredColumns(f) == IF IsOneSig(f.owner) THEN f.columns ELSE <<f.owner>> \o f.columns

FieldUpper(f) ==
  LET cols == StoredColumns(f)
  IN  {t \in [DOMAIN cols -> UNION {ColumnAtoms(cols[i]) : i \in DOMAIN cols}] :
         \A i \in DOMAIN cols : t[i] \in ColumnAtoms(cols[i])}

AllocRelations ==
  /\ phase = "relations"
  /\ LET leaves == {Leaf(s) : s \in Leaves(world)}
         remainders == {Remainder(s) : s \in SigsOf(world) \ (Leaves(world) \cup world.abstract)}
         subsets == {Subset(s) : s \in {t \in DOMAIN world.subsets : ~world.subsets[t].exact}}
         fields == {Field(f) : f \in DOMAIN world.fields}
     IN  rels' = BuiltinBounds @@
                 [r \in leaves \cup remainders \cup subsets \cup fields |->
                    CASE r \in leaves -> [lower |-> lower[r[2]], upper |-> upper[r[2]]]
                      [] r \in remainders -> RemainderBound(r[2])
                      [] r \in subsets -> Within(UpperAtoms(r[2]))
                      [] r \in fields -> Within(FieldUpper(world.fields[r[2]]))]
  /\ phase' = "pin"
  /\ UNCHANGED <<world, command, dirty, scope, exact, error, universe, lower, upper, constraints>>

\* The first atom, and the chain through all of them.
AtomOrder(S) == SetToSortSeq(S, LAMBDA a, b : a < b)
FirstOf(S) == {<<AtomOrder(S)[i]>> : i \in DOMAIN AtomOrder(S) \cap {1}}
ChainOf(S) ==
  {<<AtomOrder(S)[i], AtomOrder(S)[i + 1]>> : i \in 1 .. Cardinality(S) - 1}

PinnableUnfixed(o) ==
  /\ Children(world, o.elem) = {} \/ o.elem \in world.enum
  /\ rels[Field(o.first)].upper = {<<a>> : a \in upper[o.elem]}

\* util/ordering's relations are constants when the signature it orders has a determined
\* population, no children or those of an enum, and fields of the expected shape.
Pinnable(o) ==
  /\ Children(world, o.elem) = {} \/ o.elem \in world.enum
  /\ lower[o.elem] = upper[o.elem]
  /\ rels[Field(o.first)].upper = {<<a>> : a \in upper[o.elem]}
  /\ rels[Field(o.next)].upper = upper[o.elem] \X upper[o.elem]

PinOrdering ==
  /\ phase = "pin"
  /\ LET pinned == {o \in world.ordering : Pinnable(o)}
     IN  rels' = [r \in DOMAIN rels |->
                    CASE \E o \in pinned : r = Field(o.first) ->
                           Exactly(FirstOf(upper[(CHOOSE o \in pinned : r = Field(o.first)).elem]))
                      [] \E o \in pinned : r = Field(o.next) ->
                           Exactly(ChainOf(upper[(CHOOSE o \in pinned : r = Field(o.next)).elem]))
                      [] OTHER -> rels[r]]
  /\ phase' = "constrain"
  /\ UNCHANGED <<world, command, dirty, scope, exact, error, universe, lower, upper, constraints>>

-----------------------------------------------------------------------------
(* Constraints: a formula is a record with the signatures it is about.     *)

Apart(k, l) == [form |-> "apart", sigs |-> {k, l}]
Size(form, s, n) == [form |-> form, sig |-> s, n |-> n]
Test(test, s) == [form |-> test, sig |-> s]
In(s) == [form |-> "in", sig |-> s]

Disjointness(s) ==
  {Apart(p[1], p[2]) : p \in {q \in Children(world, s) \X Children(world, s) : q[1] # q[2]}}

SizeConstraintByLower(s) ==
  LET n == scope[s]
  IN CASE s \in exact \cap world.abstract /\ Cardinality(lower[s]) < n -> {Size("exactly", s, n)}
       [] Cardinality(upper[s]) > n /\ n = 0 -> {Test("no", s)}
       [] Cardinality(upper[s]) > n /\ n = 1 -> {Test("lone", s)}
       [] Cardinality(upper[s]) > n /\ n > 1 -> {Size("noOrCovered", s, n)}
       [] OTHER -> {}

\* What pins the population of an abstract signature is only what its children's
\* relations are sure to have.
KidsLowerAtoms(s) == UNION {lower[k] : k \in Children(world, s)}
SizeConstraint(s) ==
  LET n == scope[s]
      loose == Cardinality(upper[s]) > n
      unpinned == /\ s \in exact \cap world.abstract
                  /\ Children(world, s) # {}
                  /\ Cardinality(KidsLowerAtoms(s)) < n
  IN CASE unpinned /\ n = 0 -> {Test("no", s)}
       [] unpinned /\ n > 0 -> {Size("exactly", s, n)}
       [] ~unpinned /\ loose /\ n = 0 -> {Test("no", s)}
       [] ~unpinned /\ loose /\ n = 1 -> {Test("lone", s)}
       [] ~unpinned /\ loose /\ n > 1 -> {Size("noOrCovered", s, n)}
       [] OTHER -> {}

\* "lone is subsumed by the size cap (scope 1) and needs no separate formula."
Multiplicity(s) ==
  CASE world.mult[s] = "some" /\ lower[s] = {} -> {Test("some", s)}
    [] world.mult[s] = "one" /\ ~(Cardinality(lower[s]) = 1 /\ Cardinality(upper[s]) = 1) ->
         {Test("one", s)}
    [] OTHER -> {}

\* Nothing about its bounds discharges the multiplicity of a subset signature.
SubsetConstraints(s) ==
  (IF world.subsets[s].exact THEN {} ELSE {In(s)})
    \cup (IF world.subsets[s].mult = "any" THEN {} ELSE {Test(world.subsets[s].mult, s)})

EmitConstraints ==
  /\ phase = "constrain"
  /\ constraints' =
       UNION {Disjointness(s) \cup SizeConstraint(s) \cup Multiplicity(s) : s \in SigsOf(world)}
         \cup UNION {SubsetConstraints(s) : s \in DOMAIN world.subsets}
  /\ phase' = "done"
  /\ UNCHANGED <<world, command, dirty, scope, exact, error, universe, lower, upper, rels>>

-----------------------------------------------------------------------------

Init == /\ ScopeInit
        /\ lower = <<>> /\ upper = <<>> /\ rels = <<>>
        /\ constraints = {}

Next == \/ ScopeNext /\ UNCHANGED boundsVars
        \/ AtomBounds \/ AllocRelations \/ PinOrdering \/ EmitConstraints

Spec == Init /\ [][Next]_vars /\ WF_vars(Next)

-----------------------------------------------------------------------------
(* What the bounds and the constraints mean.                               *)

\* An instance is a set of cells, of the relations of the signatures.
SigRels == {r \in DOMAIN rels : r[1] \in {"leaf", "remainder", "subset"}}
CertainCells == UNION {{<<r, a>> : a \in rels[r].lower} : r \in SigRels}
OpenCells == UNION {{<<r, a>> : a \in rels[r].upper \ rels[r].lower} : r \in SigRels}
Instances == {CertainCells \cup extra : extra \in SUBSET OpenCells}

Value(inst, r) == {cell[2] : cell \in {c \in inst : c[1] = r}}

\* The union of its leaves and remainders.
DenotePrim(inst, s) ==
  UNION {Value(inst, r) : r \in {Leaf(t) : t \in Subtree(world, s)}
                                  \cup {Remainder(t) : t \in Subtree(world, s)}}

AllSigs == SigsOf(world) \cup DOMAIN world.subsets
DenoteIn(inst) ==
  LET denote[s \in AllSigs] ==
        IF s \in SigsOf(world) THEN DenotePrim(inst, s)
        ELSE IF world.subsets[s].exact
             THEN UNION {denote[p] : p \in world.subsets[s].parents}
             ELSE Value(inst, Subset(s))
  IN  denote

\* The size formulas quantify over atoms and never count: v1 + .. + vn = the signature.
Covered(S, n) == \E v \in [1..n -> S] : Range(v) = S
CoveredApart(S, n) == \E v \in [1..n -> S] : Range(v) = S /\ IsInjective(v)

Holds(c, denote) ==
  CASE c.form = "apart" -> \A k, l \in c.sigs : k # l => denote[k] \cap denote[l] = {}
    [] c.form = "in" -> denote[c.sig] \subseteq
                          UNION {denote[p] : p \in world.subsets[c.sig].parents}
    [] c.form = "no" -> denote[c.sig] = {}
    [] c.form = "some" -> denote[c.sig] # {}
    [] c.form = "lone" -> \A a, b \in denote[c.sig] : a = b
    [] c.form = "one" -> \E a \in denote[c.sig] : denote[c.sig] = {a}
    [] c.form = "noOrCovered" -> denote[c.sig] = {} \/ Covered(denote[c.sig], c.n)
    [] c.form = "exactly" -> CoveredApart(denote[c.sig], c.n)

\* What the signatures denote in the instances that the constraints leave.
Populations ==
  {denote \in {DenoteIn(inst) : inst \in Instances} : \A c \in constraints : Holds(c, denote)}

-----------------------------------------------------------------------------
(* Properties.                                                             *)

ScopesKnown == phase \in {"bounds", "relations", "pin", "constrain", "done"}

Alike(s, t) == /\ world.parent[s] = world.parent[t]
               /\ Entries(command, s) = {} /\ Entries(command, t) = {}
               /\ world.mult[s] = world.mult[t]
               /\ s \in world.var <=> t \in world.var
               /\ s \in world.enum <=> t \in world.enum

\* One unscoped sibling is as good as another: signatures of one parent that the command
\* and their declarations treat alike get the same scope, whatever the passes of the
\* fixpoint saw in between (the two children of an abstract signature with the overall
\* scope 3 get 3 each, never 3 and 0).
SiblingsAlike ==
  ScopesKnown => \A s, t \in Leaves(world) : Alike(s, t) => scope[s] = scope[t]

\* What the command writes is what the signature gets, or as many atoms as its
\* children are sure to have when that is more, and an exact String scope holds all
\* the literals and no more padding than it needs.
ScopesHonoured ==
  ScopesKnown =>
    /\ \A i \in DOMAIN command.scopes :
         LET entry == command.scopes[i]
             sure == KidsLower(world, SubtreeLower(world, scope, exact), entry.sig)
         IN  (\A j \in DOMAIN command.scopes : j > i => command.scopes[j].sig # entry.sig)
               => /\ scope[entry.sig] = Max({entry.scope, sure})
                  /\ entry.exact => entry.sig \in exact
    /\ command.maxstring # None =>
         Cardinality(universe.strings) = Max({command.maxstring, Cardinality(command.literals)})

\* The signatures that an atom may be in: a primitive signature with its ancestors,
\* further down when that is abstract, and subset signatures within those.
Profiles ==
  {p \in SUBSET AllSigs :
     /\ \E s \in SigsOf(world) : /\ p \cap SigsOf(world) = Ancestors(world, s)
                                 /\ s \notin world.abstract \/ s \in Leaves(world)
     /\ \A t \in DOMAIN world.subsets :
          LET inParents == world.subsets[t].parents \cap p # {}
          IN  /\ t \in p => inParents
              /\ world.subsets[t].exact /\ inParents => t \in p}

Count(shape, s) == MapThenSumSet(LAMBDA p : IF s \in p THEN shape[p] ELSE 0, DOMAIN shape)
FitsMult(n, mult) == /\ mult = "one" => n = 1
                     /\ mult = "some" => n >= 1
                     /\ mult = "lone" => n <= 1

\* How many atoms of each profile there may be.  A lone signature may have more than
\* one: nothing is emitted for it, and its scope is not always 1.
AllowedShapes ==
  LET most == Max({0} \cup Range(scope))
  IN  {shape \in [Profiles -> 0 .. most] :
         /\ \A s \in SigsOf(world) :
              /\ Count(shape, s) <= scope[s]
              /\ s \in exact => Count(shape, s) = scope[s]
              /\ world.mult[s] # "lone" => FitsMult(Count(shape, s), world.mult[s])
         /\ \A t \in DOMAIN world.subsets : FitsMult(Count(shape, t), world.subsets[t].mult)}

\* A population up to the names of its atoms.
ShapeOf(denote) ==
  LET profile(a) == {s \in AllSigs : a \in denote[s]}
      atoms == UNION Range(denote)
  IN  [p \in Profiles |-> Cardinality({a \in atoms : profile(a) = p})]

ShapesAllowed(populations) ==
  /\ {ShapeOf(denote) : denote \in populations} = AllowedShapes
  /\ \A denote \in populations : \A a \in UNION Range(denote) :
       {s \in AllSigs : a \in denote[s]} \in Profiles
PinnedIsTotal(populations) ==
  \A o \in world.ordering :
    rels[Field(o.next)].lower # {} =>
      \A denote \in populations :
        /\ rels[Field(o.first)] = Exactly(FirstOf(denote[o.elem]))
        /\ rels[Field(o.next)] = Exactly(ChainOf(denote[o.elem]))

\* Between them the bounds and the constraints lose no population that the scopes and the
\* declarations allow, and leave none that they do not, up to the names of the atoms; and
\* an order that is pinned is a total order of all there is of the ordered signature, in
\* every population.
PopulationsExact ==
  phase = "done" =>
    LET populations == Populations
    IN  ShapesAllowed(populations) /\ PinnedIsTotal(populations)

\* The passes come to an end: every command has its bounds or an error.
Settles == <>(phase \in {"done", "failed"})
=============================================================================
