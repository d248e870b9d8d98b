------------------------------- MODULE Scopes -------------------------------
(***************************************************************************)
(* How many atoms each signature gets (als-core: scope.rs).                *)
(*                                                                         *)
(* The scopes a command writes are seeded, the multiplicities force some   *)
(* of their own, and a fixpoint of three rules derives the rest: a rule    *)
(* runs as full passes over the signatures, each seeing what the pass has  *)
(* changed already, until a pass changes nothing; then control is back at  *)
(* the first rule.  The walk then mints the atoms, children first, raising *)
(* a scope that the children outgrow.                                      *)
(*                                                                         *)
(* Signatures are numbers, in the order of their SigId.  The order of the  *)
(* top-level signatures differs from it in the code only for the metamodel *)
(* block, which is left out.                                               *)
(***************************************************************************)
EXTENDS Integers, FiniteSetsExt, SequencesExt

CONSTANTS
  Worlds,     \* what the resolver hands over: records, see WorldsAssumption
  Commands(_), \* the commands to run over each world: see CommandsAssumption
  Univ,       \* the parent of a top-level signature
  None

Mults == {"one", "lone", "some", "any"}
SigsOf(w) == 1 .. Len(w.parent)
ScopeEntry(w) == [sig : SigsOf(w) \cup DOMAIN w.subsets, scope : Nat, exact : BOOLEAN]

\* No signature is among its own ancestors (the resolver refuses the world that has such
\* a one): a height that falls from a parent to its children.
IsForest(w) ==
  \E height \in [SigsOf(w) -> 0 .. Len(w.parent)] :
    \A s \in SigsOf(w) : w.parent[s] # Univ => height[s] < height[w.parent[s]]

ASSUME WorldsAssumption ==
  \A w \in Worlds :
    /\ w.parent \in Seq(1 .. Len(w.parent) \cup {Univ})
    /\ IsForest(w)
    /\ w.abstract \cup w.enum \cup w.var \subseteq SigsOf(w)
    /\ w.mult \in [SigsOf(w) -> Mults]
    /\ SigsOf(w) \cap DOMAIN w.subsets = {}
ASSUME CommandsAssumption ==
  \A w \in Worlds : \A c \in Commands(w) :
    /\ c.overall \in Nat \cup {None} /\ c.bitwidth \in Nat \cup {None}
    /\ c.maxseq \in Nat \cup {None} /\ c.maxstring \in Nat \cup {None}
    /\ c.scopes \in Seq(ScopeEntry(w))
    /\ c.additionalExact \subseteq SigsOf(w)
    /\ c.stringExact \in BOOLEAN /\ c.steps \in BOOLEAN
    /\ c.literals \subseteq Int /\ IsFiniteSet(c.literals)
SeedErrors == {"StringScopeNotExact", "ScopeOnSubset", "ScopeOnEnum", "MultiplicityScope"}
ASSUME NamesAssumption == Univ \notin Nat /\ None \notin Nat \cup SeedErrors

VARIABLES
  world, command,
  phase,      \* where compute_universe is
  dirty,      \* the rule that is running has changed something since control reached it
  scope,      \* of each signature, None while it has none
  exact,      \* the signatures whose scope is exact
  error,      \* the TranslateError, None when there is none
  universe    \* what the walk minted

scopeVars == <<world, command, phase, dirty, scope, exact, error, universe>>

-----------------------------------------------------------------------------
(* The world.                                                              *)

Children(w, s) == {k \in SigsOf(w) : w.parent[k] = s}
TopLevel(w) == {s \in SigsOf(w) : w.parent[s] = Univ}
SumOf(w, g) ==
  LET upto[s \in {0} \cup SigsOf(w)] == IF s = 0 THEN 0 ELSE upto[s - 1] + g[s]
  IN  upto[Len(w.parent)]
SumScopes(w, sc, sigs) ==
  SumOf(w, [s \in SigsOf(w) |-> IF s \in sigs /\ sc[s] # None THEN sc[s] ELSE 0])

IsTemporal(w) == w.var # {} \/ w.operators

DefaultOverall == 3
EffectiveOverall(c) ==
  IF c.overall = None /\ c.scopes = <<>> THEN DefaultOverall ELSE c.overall

-----------------------------------------------------------------------------
(* What the command says.                                                  *)

MultConflict(mult, n) == \/ mult = "one" /\ n # 1
                         \/ mult = "lone" /\ n > 1
                         \/ mult = "some" /\ n < 1

EntryError(w, entry) ==
  CASE entry.sig \in DOMAIN w.subsets -> "ScopeOnSubset"
    [] entry.sig \in w.enum -> "ScopeOnEnum"
    [] entry.sig \in SigsOf(w) \ (w.enum \cup w.var) /\ MultConflict(w.mult[entry.sig], entry.scope)
         -> "MultiplicityScope"
    [] OTHER -> None

\* The command's own span starts before those of its scopes.
SeedError(w, c) ==
  LET bad == {i \in DOMAIN c.scopes : EntryError(w, c.scopes[i]) # None}
  IN IF c.maxstring # None /\ ~c.stringExact THEN "StringScopeNotExact"
     ELSE IF bad # {} THEN EntryError(w, c.scopes[Min(bad)])
     ELSE None

Fail(e) == /\ error' = e
           /\ phase' = "failed"

Entries(c, s) == {i \in DOMAIN c.scopes : c.scopes[i].sig = s}

\* Of two entries for one signature the later scope wins, and exact sticks.
SeedExplicit ==
  /\ phase = "seed"
  /\ IF SeedError(world, command) # None
     THEN Fail(SeedError(world, command)) /\ UNCHANGED <<scope, exact>>
     ELSE /\ scope' = [s \in SigsOf(world) |->
                         IF Entries(command, s) = {} THEN scope[s]
                         ELSE command.scopes[Max(Entries(command, s))].scope]
          /\ exact' = {entry.sig : entry \in {e \in Range(command.scopes) : e.exact}}
                        \cup command.additionalExact
          /\ IF command.steps /\ ~IsTemporal(world) THEN Fail("StepsScopeInStaticModel")
             ELSE phase' = "force" /\ UNCHANGED error
  /\ UNCHANGED <<world, command, dirty, universe>>

\* The same with a lone signature's own scope forgotten.
ForceMultiplicitiesAlways ==
  /\ phase = "force"
  /\ scope' = [s \in SigsOf(world) |->
                 IF s \notin world.var /\ world.mult[s] \in {"one", "lone"} THEN 1 ELSE scope[s]]
  /\ exact' = exact \cup {s \in SigsOf(world) \ world.var : world.mult[s] = "one"}
  /\ phase' = "abstract"
  /\ UNCHANGED <<world, command, dirty, error, universe>>

\* Of a signature that changes over time the multiplicity forces nothing.
ForceMultiplicities ==
  /\ phase = "force"
  /\ LET one  == {s \in SigsOf(world) \ world.var : world.mult[s] = "one"}
         lone == {s \in SigsOf(world) \ world.var : world.mult[s] = "lone" /\ scope[s] = None}
     IN  /\ scope' = [s \in SigsOf(world) |-> IF s \in one \cup lone THEN 1 ELSE scope[s]]
         /\ exact' = exact \cup one
  /\ phase' = "abstract"
  /\ UNCHANGED <<world, command, dirty, error, universe>>

-----------------------------------------------------------------------------
(* The fixpoint.                                                           *)

\* An abstract signature is the sum of its children; the one child that is missing is
\* the difference.
AbstractAt(w, sc, s) ==
  LET kids    == Children(w, s)
      missing == {k \in kids : sc[k] = None}
      sum     == SumScopes(w, sc, kids)
  IN CASE s \in w.abstract /\ kids # {} /\ sc[s] = None /\ missing = {} ->
            [sc EXCEPT ![s] = sum]
       [] s \in w.abstract /\ sc[s] # None /\ (\E k \in kids : missing = {k}) ->
            [k \in SigsOf(w) |-> IF k \in missing THEN Max({0, sc[s] - sum}) ELSE sc[k]]
       [] OTHER -> sc

\* An unscoped top-level signature takes the overall scope, a childless enum none.  The
\* rule looks at no other signature, so its pass is the same in any order.
ChildlessEnum(w, s) == s \in w.enum /\ Children(w, s) = {}
OverallAt(w, sc, overall, s) ==
  CASE sc[s] # None \/ s \notin TopLevel(w) -> sc[s]
    [] sc[s] = None /\ s \in TopLevel(w) /\ ChildlessEnum(w, s) -> 0
    [] OTHER -> overall

\* The others inherit.
ParentAt(w, sc, s) ==
  IF sc[s] = None /\ s \notin TopLevel(w) THEN [sc EXCEPT ![s] = sc[w.parent[s]]] ELSE sc

Visit(rule, w, sc, s) == IF rule = "abstract" THEN AbstractAt(w, sc, s) ELSE ParentAt(w, sc, s)

\* One change at a time, the way that misfires: the next rule sees one sibling scoped
\* and the other not yet.
OneChangePass(rule, w, sc) ==
  LET after[s \in {0} \cup SigsOf(w)] ==
        IF s = 0 THEN sc
        ELSE IF after[s - 1] = sc THEN Visit(rule, w, sc, s) ELSE after[s - 1]
  IN  after[Len(w.parent)]

\* A pass sees its own changes: the scopes after it has visited the signatures up to s.
FullPass(rule, w, sc) ==
  LET after[s \in {0} \cup SigsOf(w)] ==
        IF s = 0 THEN sc ELSE Visit(rule, w, after[s - 1], s)
  IN  after[Len(w.parent)]

\* The flag that a rule changed something, never reset.
AfterPassStillDirty(changed, next) ==
  /\ dirty' = (dirty \/ changed)
  /\ phase' = CASE changed -> phase
                [] ~changed /\ dirty -> "abstract"
                [] OTHER -> next

\* After a pass: run the rule again while it changes something, then start from the top
\* if it changed anything, and go on to the next rule if it did not.
AfterPass(changed, next) ==
  /\ dirty' = changed
  /\ phase' = CASE changed -> phase
                [] ~changed /\ dirty -> "abstract"
                [] OTHER -> next

DeriveAbstract ==
  /\ phase = "abstract"
  /\ scope' = FullPass("abstract", world, scope)
  /\ AfterPass(scope' # scope, "overall")
  /\ UNCHANGED <<world, command, exact, error, universe>>

\* The zero of a childless enum does not count as a change.
DeriveOverall ==
  /\ phase = "overall"
  /\ LET overall == EffectiveOverall(command)
         unscoped == {s \in TopLevel(world) : scope[s] = None /\ ~ChildlessEnum(world, s)}
     IN  IF overall = None /\ unscoped # {}
         THEN Fail("MustSpecifyScope") /\ UNCHANGED <<scope, dirty>>
         ELSE /\ scope' = [s \in SigsOf(world) |-> OverallAt(world, scope, overall, s)]
              /\ AfterPass(unscoped # {}, "parent")
              /\ UNCHANGED error
  /\ UNCHANGED <<world, command, exact, universe>>

DeriveParentOneChange ==
  /\ phase = "parent"
  /\ scope' = OneChangePass("parent", world, scope)
  /\ dirty' = FALSE
  /\ phase' = IF scope' # scope THEN "abstract" ELSE "some"
  /\ UNCHANGED <<world, command, exact, error, universe>>

DeriveParent ==
  /\ phase = "parent"
  /\ scope' = FullPass("parent", world, scope)
  /\ AfterPass(scope' # scope, "some")
  /\ UNCHANGED <<world, command, exact, error, universe>>

\* A some signature gets at least one atom.
RaiseSome ==
  /\ phase = "some"
  /\ scope' = [s \in SigsOf(world) |->
                 IF s \notin world.var /\ world.mult[s] = "some"
                 THEN Max({1} \cup ({scope[s]} \ {None})) ELSE scope[s]]
  /\ phase' = "finish"
  /\ UNCHANGED <<world, command, dirty, exact, error, universe>>

-----------------------------------------------------------------------------
(* The walk.                                                               *)

\* How many atoms the subtree is sure to have; what the children are sure to have is also
\* what a scope is raised to.
KidsLower(w, lower, s) ==
  SumOf(w, [k \in SigsOf(w) |-> IF k \in Children(w, s) THEN lower[k] ELSE 0])
SubtreeLower(w, sc, ex) ==
  LET lower[s \in SigsOf(w)] ==
        LET kids == KidsLower(w, lower, s)
        IN  IF sc[s] > kids /\ (s \in ex \/ s \in TopLevel(w)) THEN sc[s] ELSE kids
  IN lower

\* The subtrees in declaration order, children before their parent.
WalkOrder(w) ==
  LET KidSeq(s) == SetToSortSeq(Children(w, s), LAMBDA k, l : k < l)
      post[s \in SigsOf(w)] ==
        FoldLeft(LAMBDA acc, k : acc \o post[k], <<>>, KidSeq(s)) \o <<s>>
  IN  FoldLeft(LAMBDA acc, s : acc \o post[s], <<>>, KidSeq(Univ))

\* The run of atoms that each signature mints: its own share of the subtree's.
Minted(w, sc, ex) ==
  LET lower    == SubtreeLower(w, sc, ex)
      count(s) == lower[s] - KidsLower(w, lower, s)
      order    == WalkOrder(w)
      first[i \in DOMAIN order] == IF i = 1 THEN 0 ELSE first[i - 1] + count(order[i - 1])
  IN  [s \in SigsOf(w) |->
         LET i == CHOOSE j \in DOMAIN order : order[j] = s
         IN  first[i] .. first[i] + count(s) - 1]

DefaultBitwidth == 4
MaxBitwidth == 30
Bitwidth(c) == IF c.bitwidth = None THEN DefaultBitwidth ELSE c.bitwidth
IntCount(c) == IF Bitwidth(c) >= 1 THEN 2 ^ Bitwidth(c) ELSE 0
\* Half the integers are negative.
HalfInts(c) == IntCount(c) \div 2

DefaultMaxSeq == 4
MaxSeq(c) ==
  LET base == IF c.maxseq # None THEN c.maxseq
              ELSE IF c.overall # None THEN c.overall ELSE DefaultMaxSeq
  IN  Min({base, Max({0, HalfInts(c) - 1})})

\* The padding numbered without a look at the literals.
StringsByNumber(c) ==
  IF c.maxstring = None THEN c.literals ELSE c.literals \cup 0 .. c.maxstring - 1

\* The literals that the model mentions (the number k stands for "Stringk"), padded to an
\* exact String scope with the first names that no literal claims.
Strings(c) ==
  LET missing == IF c.maxstring = None THEN 0 ELSE c.maxstring - Cardinality(c.literals)
      free == 0 .. (c.maxstring + Cardinality(c.literals))
  IN  IF missing <= 0 THEN c.literals
      ELSE CHOOSE names \in SUBSET (c.literals \cup free) :
             /\ c.literals \subseteq names
             /\ Cardinality(names) = c.maxstring
             /\ \A n \in names \ c.literals : 0 .. n \subseteq names

Finish ==
  /\ phase = "finish"
  /\ IF \E s \in SigsOf(world) : scope[s] = None
     THEN Fail("MustSpecifyScope") /\ UNCHANGED <<scope, universe>>
     ELSE IF Bitwidth(command) > MaxBitwidth
     THEN Fail("BitwidthTooLarge") /\ UNCHANGED <<scope, universe>>
     ELSE LET lower == SubtreeLower(world, scope, exact)
          IN  /\ scope' = [s \in SigsOf(world) |-> Max({scope[s], KidsLower(world, lower, s)})]
              /\ universe' = [minted  |-> Minted(world, scope, exact),
                              strings |-> Strings(command),
                              maxseq  |-> MaxSeq(command)]
              /\ phase' = "bounds"
              /\ UNCHANGED error
  /\ UNCHANGED <<world, command, dirty, exact>>

-----------------------------------------------------------------------------

ScopeInit ==
  /\ world \in Worlds
  /\ command \in Commands(world)
  /\ phase = "seed"
  /\ dirty = FALSE
  /\ scope = [s \in SigsOf(world) |-> None]
  /\ exact = {}
  /\ error = None
  /\ universe = None

ScopeNext == \/ SeedExplicit \/ ForceMultiplicities
             \/ DeriveAbstract \/ DeriveOverall \/ DeriveParent \/ RaiseSome
             \/ Finish
=============================================================================
