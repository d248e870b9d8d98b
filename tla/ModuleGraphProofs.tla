------------------------- MODULE ModuleGraphProofs -------------------------
(***************************************************************************)
(* Theorems about the load of a module graph, for every project, library   *)
(* and shape of opens: what is loaded has no circle and no twin, every     *)
(* module is reached from the root, and the edges are what the files say.  *)
(***************************************************************************)
EXTENDS ModuleGraph, FiniteSetTheorems, FunctionTheorems, SequenceTheorems,
        NaturalsInduction, WellFoundedInduction, TLAPS

----------------------------------------------------------------------------
(* Positions.                                                              *)

LEMMA LeastNatural ==
  ASSUME NEW S \in SUBSET Nat, S # {}
  PROVE  Min(S) \in S /\ \A j \in S : Min(S) <= j
<1>1. PICK i \in S : \A j \in S : <<j, i>> \notin OpToRel(<, Nat)
  BY NatLessThanWellFounded, WFMin
<1>2. \A j \in S : ~(j < i)
  BY <1>1 DEF OpToRel
<1>3. \A j \in S : i <= j
  BY <1>2
<1> QED BY <1>3, Zenon DEF Min

\* The n-th smallest of a set of positions is one of them, and each is the
\* n-th smallest for some n.
LEMMA Nth ==
  ASSUME NEW k \in Nat, NEW S \in SUBSET (1..k)
  PROVE  /\ Cardinality(S) \in Nat
         /\ \A n \in 1..Cardinality(S) : NthOf(S, n) \in S
         /\ \A i \in S : \E n \in 1..Cardinality(S) : NthOf(S, n) = i
<1> DEFINE UpTo(i) == {h \in S : h <= i}
           rank == [i \in S |-> Cardinality(UpTo(i))]
           ranks == {rank[i] : i \in S}
<1>1. IsFiniteSet(S) /\ Cardinality(S) \in Nat
  <2>1. IsFiniteSet(1..k)
    BY FS_Interval
  <2> QED BY <2>1, FS_Subset, FS_CardinalityType
<1>2. \A i \in S : /\ IsFiniteSet(UpTo(i)) /\ rank[i] \in Nat
                   /\ rank[i] >= 1 /\ rank[i] <= Cardinality(S)
  <2> TAKE i \in S
  <2>1. IsFiniteSet(UpTo(i)) /\ Cardinality(UpTo(i)) \in Nat /\ Cardinality(UpTo(i)) <= Cardinality(S)
    BY <1>1, FS_Subset, FS_CardinalityType
  <2>2. UpTo(i) # {}
    OBVIOUS
  <2>3. Cardinality(UpTo(i)) # 0
    BY <2>1, <2>2, FS_EmptySet
  <2>4. rank[i] = Cardinality(UpTo(i))
    OBVIOUS
  <2> HIDE DEF rank, UpTo
  <2> QED BY <2>1, <2>3, <2>4
<1>3. \A i, j \in S : i < j => rank[i] < rank[j]
  <2> SUFFICES ASSUME NEW i \in S, NEW j \in S, i < j PROVE rank[i] < rank[j]
    OBVIOUS
  <2>0. \A h \in S : h \in Int
    OBVIOUS
  <2>1. UpTo(i) \subseteq UpTo(j)
    <3>1. \A h \in S : h <= i => h <= j
      BY <2>0
    <3> QED BY <3>1
  <2>4. j \in UpTo(j) /\ j \notin UpTo(i)
    BY <2>0
  <2>2. Cardinality(UpTo(i)) <= Cardinality(UpTo(j)) /\ Cardinality(UpTo(i)) # Cardinality(UpTo(j))
    BY <1>2, <2>1, <2>4, FS_Subset
  <2>3. rank[i] = Cardinality(UpTo(i)) /\ rank[j] = Cardinality(UpTo(j))
    OBVIOUS
  <2> HIDE DEF rank, UpTo
  <2> QED BY <1>2, <2>2, <2>3
<1>4. \A i, j \in S : rank[i] = rank[j] => i = j
  <2> SUFFICES ASSUME NEW i \in S, NEW j \in S, rank[i] = rank[j], i # j PROVE FALSE
    OBVIOUS
  <2>1. i < j \/ j < i
    BY i \in 1..k, j \in 1..k
  <2>2. rank[i] < rank[j] \/ rank[j] < rank[i]
    BY <1>3, <2>1
  <2>3. rank[i] \in Nat /\ rank[j] \in Nat
    BY <1>2
  <2> HIDE DEF rank
  <2> QED BY <2>2, <2>3
<1>5. ranks = 1..Cardinality(S)
  <2>1. ranks \subseteq 1..Cardinality(S)
    <3>1. \A i \in S : rank[i] \in 1..Cardinality(S)
      <4> SUFFICES ASSUME NEW i \in S PROVE rank[i] \in 1..Cardinality(S)
        OBVIOUS
      <4>1. rank[i] \in Nat /\ rank[i] >= 1 /\ rank[i] <= Cardinality(S)
        BY <1>2
      <4> HIDE DEF rank
      <4> QED BY <1>1, <4>1
    <3> HIDE DEF rank
    <3> QED BY <3>1
  <2>2. rank \in Bijection(S, ranks)
    <3>1. rank \in [S -> ranks]
      OBVIOUS
    <3> HIDE DEF rank
    <3> QED BY <1>4, <3>1 DEF Bijection, Injection, Surjection, IsInjective
  <2>3. Cardinality(ranks) = Cardinality(S)
    <3> HIDE DEF rank, ranks
    <3> QED BY <1>1, <2>2, FS_Bijection DEF ExistsBijection
  <2>4. IsFiniteSet(1..Cardinality(S)) /\ Cardinality(1..Cardinality(S)) = Cardinality(S)
    <3> HIDE DEF rank, ranks
    <3> QED BY <1>1, FS_Interval
  <2> HIDE DEF ranks, rank
  <2> QED BY <2>1, <2>3, <2>4, FS_Subset
<1>6. \A i \in S : NthOf(S, rank[i]) = i
  <2> TAKE i \in S
  <2>1. \A j \in S : Cardinality({h \in S : h <= j}) = rank[j]
    OBVIOUS
  <2> HIDE DEF rank
  <2> QED BY <1>4, <2>1 DEF NthOf
<1> HIDE DEF rank
<1> QED BY <1>1, <1>5, <1>6

----------------------------------------------------------------------------
(* Files, what they open, and where it is found.                           *)

Files == DOMAIN project.disk \cup {Shipped(target) : target \in DOMAIN Embedded}

LEMMA Lists ==
  ASSUME NEW S, NEW s \in Seq(S)
  PROVE  IsList(s) /\ Range(s) \subseteq S
<1>1. DOMAIN s = 1..Len(s) /\ Len(s) \in Nat /\ \A i \in 1..Len(s) : s[i] \in S /\ s[i] \in Range(s)
  BY DEF Range
<1>2. s = [i \in 1..Len(s) |-> s[i]]
  BY <1>1
<1>3. s \in Seq(Range(s))
  BY <1>1, <1>2
<1> QED BY <1>1, <1>3 DEF IsList, Range

LEMMA ListLength ==
  ASSUME NEW s, IsList(s)
  PROVE  Len(s) \in Nat /\ DOMAIN s = 1..Len(s)
  BY DEF IsList

\* What a file of the project or the library says is a text.
LEMMA TextIsText ==
  ASSUME project \in Projects, NEW p \in Files
  PROVE  IsText(Text(p))
<1>1. CASE p \in DOMAIN project.disk
  BY <1>1, ProjectsAssumption DEF Text
<1>2. CASE p \notin DOMAIN project.disk
  <2>1. PICK target \in DOMAIN Embedded : p = Shipped(target)
    BY <1>2 DEF Files
  <2>2. target \in Seq(Range(target)) /\ IsText(Embedded[target])
    BY EmbeddedAssumption DEF IsList
  <2>3. Tail(p.segs) = target
    BY <2>1, <2>2 DEF Shipped, Path
  <2> QED BY <1>2, <2>2, <2>3 DEF Text
<1> QED BY <1>1, <1>2

\* The opens of a file, those it does not write among them.
LEMMA AllOpens ==
  ASSUME NEW text, IsText(text)
  PROVE  /\ IsList(all_opens(text))
         /\ \A open \in Range(all_opens(text)) : IsList(open.args)
<1> DEFINE integers == IF text.name = IntegerName THEN <<>>
                       ELSE <<Opens(IntegerName, <<>>, "integer")>>
           count == Cardinality(Enums(text))
           Ordering(n) == Opens(<<"util", "ordering">>, << <<text.paras[NthOf(Enums(text), n)].name>> >>, "")
           orderings == [n \in 1..count |-> Ordering(n)]
           sequences == IF text.seqs THEN <<Opens(<<"util", "sequniv">>, <<>>, "seq")>> ELSE <<>>
           listed == Range(text.opens) \cup Range(integers) \cup Range(orderings) \cup Range(sequences)
<1>1. \A target, args, alias : IsList(args) => IsList(Opens(target, args, alias).args)
  BY DEF Opens
<1>2. IsList(<<>>) /\ \A a : IsList(<<a>>) /\ Range(<<a>>) = {a}
  <2>1. <<>> \in Seq({})
    BY EmptySeq
  <2>2. \A a : <<a>> \in Seq({a})
    OBVIOUS
  <2>3. \A a : Range(<<a>>) = {a}
    BY DEF Range
  <2> QED BY <2>1, <2>2, <2>3, Lists
<1>3. IsList(integers) /\ \A open \in Range(integers) : IsList(open.args)
  <2>1. CASE text.name = IntegerName
    BY <2>1, <1>2 DEF Range
  <2>2. CASE text.name # IntegerName
    <3>1. IsList(Opens(IntegerName, <<>>, "integer").args)
      BY <1>1, <1>2, Zenon
    <3>2. integers = <<Opens(IntegerName, <<>>, "integer")>>
      BY <2>2
    <3> HIDE DEF integers
    <3> QED BY <1>2, <3>1, <3>2
  <2> QED BY <2>1, <2>2
<1>4. IsList(sequences) /\ \A open \in Range(sequences) : IsList(open.args)
  <2>1. CASE ~text.seqs
    BY <2>1, <1>2 DEF Range
  <2>2. CASE text.seqs
    <3>1. IsList(Opens(<<"util", "sequniv">>, <<>>, "seq").args)
      BY <1>1, <1>2, Zenon
    <3>2. sequences = <<Opens(<<"util", "sequniv">>, <<>>, "seq")>>
      BY <2>2
    <3> HIDE DEF sequences
    <3> QED BY <1>2, <3>1, <3>2
  <2> QED BY <2>1, <2>2
<1>5. IsList(orderings) /\ \A open \in Range(orderings) : IsList(open.args)
  <2>1. Len(text.paras) \in Nat /\ Enums(text) \in SUBSET (1..Len(text.paras))
    BY ListLength DEF Enums, IsText
  <2>2. count \in Nat
    BY <2>1, Nth
  <2>3. \A n \in 1..count : IsList(Ordering(n).args)
    BY <1>1, <1>2, Zenon
  <2> HIDE DEF Ordering, count
  <2>4. orderings \in Seq(Range(orderings))
    BY <2>2 DEF Range
  <2> QED BY <2>3, <2>4, Lists DEF Range
<1>6. all_opens(text) = text.opens \o (integers \o orderings \o sequences)
  BY DEF all_opens, synthetic_opens
<1>7. /\ text.opens \in Seq(listed) /\ integers \in Seq(listed)
      /\ orderings \in Seq(listed) /\ sequences \in Seq(listed)
  <2> HIDE DEF integers, orderings, sequences
  <2> QED BY <1>3, <1>4, <1>5 DEF IsList, IsText
<1>8. \A open \in listed : IsList(open.args)
  <2> HIDE DEF integers, orderings, sequences
  <2> QED BY <1>3, <1>4, <1>5 DEF IsText
<1> HIDE DEF integers, orderings, sequences, listed
<1>9. all_opens(text) \in Seq(listed)
  BY <1>6, <1>7
<1> QED BY <1>8, <1>9, Lists

\* What is found is a file.
LEMMA SearchFinds ==
  ASSUME NEW files, files \subseteq Files, NEW name, NEW file, NEW target,
         search(files, name, file, target) # None
  PROVE  \E p \in Files : search(files, name, file, target) = <<p>>
<1> DEFINE cp == compute_module_path(name, file, target)
           tries == << <<cp, cp \in files>>,
                       <<Path(target), Path(target) \in files>>,
                       <<cp, cp \in DOMAIN project.disk>>,
                       <<markdown_sibling(cp), markdown_sibling(cp) \in DOMAIN project.disk>>,
                       <<Shipped(target), target \in DOMAIN Embedded>> >>
           hits == {i \in DOMAIN tries : tries[i][2]}
<1>1. DOMAIN tries = 1..5
  OBVIOUS
<1>2. hits # {} /\ search(files, name, file, target) = <<tries[Min(hits)][1]>>
  BY DEF search
<1>3. hits \in SUBSET Nat
  BY <1>1
<1>4. Min(hits) \in hits
  <2> HIDE DEF hits
  <2> QED BY <1>2, <1>3, LeastNatural
<1>5. Files = DOMAIN project.disk \cup {Shipped(t) : t \in DOMAIN Embedded}
  BY DEF Files
<1>6. \A i \in hits : tries[i][1] \in Files
  <2> SUFFICES ASSUME NEW i \in 1..5, tries[i][2] PROVE tries[i][1] \in Files
    BY <1>1
  <2>1. CASE i = 1
    BY <2>1
  <2>2. CASE i = 2
    BY <2>2
  <2>3. CASE i = 3
    BY <2>3, <1>5
  <2>4. CASE i = 4
    BY <2>4, <1>5
  <2>5. CASE i = 5
    BY <2>5, <1>5
  <2> QED BY <2>1, <2>2, <2>3, <2>4, <2>5
<1> HIDE DEF tries, hits
<1> QED BY <1>2, <1>4, <1>6

----------------------------------------------------------------------------
(* Arguments and edges.                                                    *)

LEMMA Substituted ==
  ASSUME NEW open, IsList(open.args), NEW params
  PROVE  /\ IsList(substituted(open, params)) /\ Len(substituted(open, params)) = Len(open.args)
         /\ DOMAIN substituted(open, params) = 1..Len(open.args)
<1> DEFINE n == Len(open.args)
           Arg(i) == substitute_arg(open.args[i], params)
<1>1. n \in Nat /\ DOMAIN open.args = 1..n
  BY ListLength
<1>2. substituted(open, params) = [i \in 1..n |-> Arg(i)]
  BY <1>1 DEF substituted
<1> HIDE DEF n, Arg
<1>3. [i \in 1..n |-> Arg(i)] \in Seq({Arg(i) : i \in 1..n}) /\ Len([i \in 1..n |-> Arg(i)]) = n
  BY <1>1
<1> QED BY <1>2, <1>3, Lists DEF n

\* A module keeps the arguments that its parameters were bound to.
LEMMA BoundArgs ==
  ASSUME NEW open, IsList(open.args), NEW params, NEW text, NEW file, NEW name
  PROVE  LET args == substituted(open, params)
             m == Instance(file, name, bind_params(text, args))
         IN  args_of(m) = args /\ DOMAIN m.params = 1..Len(open.args)
<1> DEFINE args == substituted(open, params)
           m == Instance(file, name, bind_params(text, args))
<1>1. DOMAIN args = 1..Len(open.args) /\ args = [i \in DOMAIN args |-> args[i]]
  BY Substituted DEF substituted
<1>2. m.params = [i \in DOMAIN args |-> [param |-> text.params[i].name, exact |-> text.params[i].exact, arg |-> args[i]]]
  BY DEF Instance, bind_params
<1> HIDE DEF args, m
<1>3. args_of(m) = [i \in DOMAIN args |-> args[i]]
  BY <1>2 DEF args_of
<1>4. args_of(m) = args /\ DOMAIN m.params = 1..Len(open.args)
  BY <1>1, <1>2, <1>3
<1> QED BY <1>4 DEF args, m

EdgeOf(opens, targets, aliases, params, i) ==
  [alias |-> aliases[i], target |-> targets[i], args |-> substituted(opens[i], params),
   written |-> opens[i].args, private |-> opens[i].private]

\* Each edge is that of an open, each open has one that leads where it leads,
\* and no two have one name.
LEMMA Edges ==
  ASSUME NEW opens, IsList(opens), NEW targets, NEW params,
         NEW aliases, DOMAIN aliases = DOMAIN opens, ~Clashing(aliases, targets)
  PROVE  LET edges == Range(build_edges(opens, targets, aliases, params))
         IN  /\ \A e \in edges : \E i \in DOMAIN opens : e = EdgeOf(opens, targets, aliases, params, i)
             /\ \A i \in DOMAIN opens : \E e \in edges : e.target = targets[i]
             /\ \A e, f \in edges : e.alias = f.alias => e = f
<1> DEFINE first == {i \in DOMAIN opens : \A j \in 1..(i - 1) : aliases[j] # aliases[i]}
           Edge(i) == EdgeOf(opens, targets, aliases, params, i)
           edges == Range(build_edges(opens, targets, aliases, params))
<1>1. Len(opens) \in Nat /\ DOMAIN opens = 1..Len(opens) /\ first \in SUBSET (1..Len(opens))
  BY ListLength
<1>2. build_edges(opens, targets, aliases, params) = [n \in 1..Cardinality(first) |-> Edge(NthOf(first, n))]
  BY DEF build_edges, EdgeOf
<1>3. /\ \A n \in 1..Cardinality(first) : NthOf(first, n) \in first
      /\ \A i \in first : \E n \in 1..Cardinality(first) : NthOf(first, n) = i
  <2> HIDE DEF first
  <2> QED BY <1>1, Nth
<1>4. edges = {Edge(i) : i \in first}
  <2> HIDE DEF first, Edge
  <2> QED BY <1>2, <1>3 DEF Range
<1>5. \A i \in DOMAIN opens : \E j \in first : aliases[j] = aliases[i]
  <2> TAKE i \in DOMAIN opens
  <2> DEFINE alike == {j \in 1..Len(opens) : aliases[j] = aliases[i]}
  <2>1. alike \in SUBSET Nat /\ alike # {}
    BY <1>1
  <2>2. Min(alike) \in alike /\ \A j \in alike : Min(alike) <= j
    <3> HIDE DEF alike
    <3> QED BY <2>1, LeastNatural
  <2>3. PICK h \in alike : \A j \in alike : h <= j
    BY <2>2
  <2>4. \A j \in 1..(h - 1) : aliases[j] # aliases[h]
    <3> SUFFICES ASSUME NEW j \in 1..(h - 1), aliases[j] = aliases[h] PROVE FALSE
      OBVIOUS
    <3>1. h \in 1..Len(opens) /\ j \in 1..Len(opens) /\ ~(h <= j)
      BY <1>1, <2>3
    <3>2. j \in alike
      BY <2>3, <3>1
    <3> QED BY <2>3, <3>1, <3>2
  <2>5. h \in first /\ aliases[h] = aliases[i]
    BY <1>1, <2>3, <2>4
  <2> QED BY <2>5
<1>6. \A i \in DOMAIN opens : \E e \in edges : e.target = targets[i]
  <2> TAKE i \in DOMAIN opens
  <2>1. PICK j \in first : aliases[j] = aliases[i]
    BY <1>5
  <2>2. targets[j] = targets[i]
    BY <2>1 DEF Clashing
  <2>3. Edge(j).target = targets[j] /\ Edge(j) \in edges
    <3>1. Edge(j) \in edges
      <4> HIDE DEF first, Edge, edges
      <4> QED BY <1>4
    <3> QED BY <3>1 DEF EdgeOf
  <2> HIDE DEF edges, Edge
  <2> QED BY <2>2, <2>3
<1>7. \A i, j \in first : aliases[i] = aliases[j] => i = j
  <2> SUFFICES ASSUME NEW i \in first, NEW j \in first, aliases[i] = aliases[j], i # j PROVE FALSE
    OBVIOUS
  <2>1. i \in 1..Len(opens) /\ j \in 1..Len(opens)
    BY <1>1
  <2>2. i \in 1..(j - 1) \/ j \in 1..(i - 1)
    BY <1>1, <2>1
  <2> QED BY <2>2
<1>8. \A i \in first : Edge(i).alias = aliases[i]
  BY DEF EdgeOf
<1>9. \A e, f \in edges : e.alias = f.alias => e = f
  <2> HIDE DEF first, Edge, edges
  <2> QED BY <1>4, <1>7, <1>8
<1>10. \A e \in edges : \E i \in DOMAIN opens : e = Edge(i)
  <2>1. first \subseteq DOMAIN opens
    OBVIOUS
  <2> HIDE DEF first, Edge, edges
  <2> QED BY <1>4, <2>1
<1> QED BY <1>6, <1>9, <1>10

----------------------------------------------------------------------------
(* The invariant. A module is closed when its edges are laid, which is     *)
(* when it leaves the stack. What has been walked of a module on the stack *)
(* leads to a closed module or to one above it, so the last to be closed   *)
(* leads only to those closed before it: that is why there is no circle.   *)
(* That the root stays at the bottom, and that whatever opened a module    *)
(* was there before it, gives the rest.                                    *)

OnStack == {stack[i].module : i \in DOMAIN stack}
Closed == DOMAIN modules \ OnStack
OpensWritten(m) == all_opens(Text(modules[m].file))

IsInstance(m) == m = [file |-> m.file, name |-> m.name, params |-> m.params, opens |-> m.opens]

Frames == [module : DOMAIN modules, targets : Seq(DOMAIN modules)]
LoadTypeOK ==
  /\ project \in Projects
  /\ IsList(loaded) /\ Len(loaded) >= 1 /\ Range(loaded) \subseteq Files
  /\ IsList(modules) /\ Len(modules) >= 1
  /\ \A m \in DOMAIN modules : IsInstance(modules[m]) /\ modules[m].file \in Files
  /\ stack \in Seq(Frames)

Bottom ==
  /\ phase = "loading" => stack # <<>> /\ stack[1].module = 1
  /\ Built => stack = <<>>

\* The files of the chain are distinct, and so are its modules.
ChainIsSimple ==
  \A i, j \in DOMAIN stack :
    modules[stack[i].module].file = modules[stack[j].module].file => i = j

Above(i) == {stack[k].module : k \in {n \in DOMAIN stack : n > i}}
Walks(m, targets, above) ==
  /\ Len(targets) <= Len(OpensWritten(m))
  /\ \A j \in DOMAIN targets :
       Leads(m, OpensWritten(m)[j], targets[j]) /\ targets[j] \in Closed \cup above
WalkedSoFar(i) == Walks(stack[i].module, stack[i].targets, Above(i))

ClosedEdges(m) ==
  LET opens == Range(OpensWritten(m))
  IN  /\ \A o \in opens : \E e \in Range(modules[m].opens) : Leads(m, o, e.target)
      /\ \A e \in Range(modules[m].opens) :
           /\ args_of(modules[e.target]) = e.args
           /\ \E o \in opens : o.args = e.written /\ Leads(m, o, e.target)
      /\ \A e, f \in Range(modules[m].opens) : e.alias = f.alias => e = f

ClosedStays == \A m \in Closed : OpensOf(m) \subseteq Closed /\ ClosedEdges(m)

ClosedHasNoCircle ==
  \A ms \in SUBSET Closed : ms # {} => \E m \in ms : OpensOf(m) \cap ms = {}

\* m is opened by n.
OpenedBy(m, n) ==
  (n \in Closed /\ m \in OpensOf(n))
    \/ \E i \in DOMAIN stack : stack[i].module = n /\ m \in Range(stack[i].targets)
OpenedBefore == \A m \in DOMAIN modules \ {1} : \E n \in 1..(m - 1) : OpenedBy(m, n)

ParamsBound ==
  \A m \in DOMAIN modules \ {1} : DOMAIN modules[m].params = DOMAIN Text(modules[m].file).params

LoadInv ==
  /\ LoadTypeOK /\ Bottom
  /\ phase # "refused" =>
       /\ ChainIsSimple /\ (\A i \in DOMAIN stack : WalkedSoFar(i))
       /\ ClosedStays /\ ClosedHasNoCircle
       /\ OpenedBefore /\ ParamsBound /\ NoTwins

LEMMA FrameFacts ==
  ASSUME LoadTypeOK
  PROVE  /\ Len(stack) \in Nat /\ DOMAIN stack = 1..Len(stack)
         /\ \A i \in DOMAIN stack :
              /\ stack[i] \in Frames /\ stack[i].module \in DOMAIN modules
              /\ stack[i].targets \in Seq(DOMAIN modules)
              /\ stack[i] = [module |-> stack[i].module, targets |-> stack[i].targets]
              /\ Len(stack[i].targets) \in Nat
              /\ DOMAIN stack[i].targets = 1..Len(stack[i].targets)
              /\ \A j \in DOMAIN stack[i].targets : stack[i].targets[j] \in DOMAIN modules
<1>1. Len(stack) \in Nat /\ DOMAIN stack = 1..Len(stack) /\ \A i \in DOMAIN stack : stack[i] \in Frames
  BY DEF LoadTypeOK
<1>2. \A f \in Frames : /\ f.module \in DOMAIN modules /\ f.targets \in Seq(DOMAIN modules)
                        /\ f = [module |-> f.module, targets |-> f.targets]
  BY DEF Frames
<1>3. \A ts \in Seq(DOMAIN modules) : /\ Len(ts) \in Nat /\ DOMAIN ts = 1..Len(ts)
                                      /\ \A j \in DOMAIN ts : ts[j] \in DOMAIN modules
  OBVIOUS
<1> QED BY <1>1, <1>2, <1>3

\* The module on top.
LEMMA TopFacts ==
  ASSUME LoadTypeOK, stack # <<>>
  PROVE  /\ Len(stack) \in Nat /\ Len(stack) >= 1 /\ DOMAIN stack = 1..Len(stack)
         /\ Len(stack) \in DOMAIN stack
         /\ Top = stack[Len(stack)] /\ Top.module \in DOMAIN modules
         /\ Top.targets \in Seq(DOMAIN modules) /\ Here.file \in Files
         /\ Top.module \in OnStack
         /\ all_opens(HereText) = OpensWritten(Top.module)
<1>1. Len(stack) >= 1
  BY DEF LoadTypeOK
<1>2. Top = stack[Len(stack)]
  BY DEF Top, Last
<1>3. Len(stack) \in DOMAIN stack
  BY <1>1, FrameFacts
<1> QED BY <1>1, <1>2, <1>3, FrameFacts DEF LoadTypeOK, Here, HereText, OpensWritten, OnStack

LEMMA ModuleFacts ==
  ASSUME LoadTypeOK
  PROVE  /\ Len(modules) \in Nat /\ DOMAIN modules = 1..Len(modules)
         /\ Len(loaded) \in Nat /\ DOMAIN loaded = 1..Len(loaded)
         /\ \A m \in DOMAIN modules :
              /\ IsText(Text(modules[m].file))
              /\ IsList(OpensWritten(m))
              /\ \A o \in Range(OpensWritten(m)) : IsList(o.args)
<1>1. \A m \in DOMAIN modules : IsText(Text(modules[m].file))
  BY TextIsText DEF LoadTypeOK
<1> QED BY <1>1, AllOpens, ListLength DEF LoadTypeOK, OpensWritten

\* What is about to be opened.
LEMMA OpenableFacts ==
  ASSUME LoadTypeOK, Openable
  PROVE  /\ Found[1] \in Files /\ Found = <<Found[1]>>
         /\ NextOpen = OpensWritten(Top.module)[Len(Top.targets) + 1]
         /\ NextOpen \in Range(OpensWritten(Top.module))
         /\ Len(Top.targets) \in Nat /\ Len(Top.targets) + 1 <= Len(OpensWritten(Top.module))
         /\ IsList(NextOpen.args)
         /\ Found = FoundAmong({loaded[i] : i \in 1..Len(loaded)}, Top.module, NextOpen)
         /\ Found[1] \notin Chain
<1>1. stack # <<>> /\ Unwalked /\ Found # None /\ Found[1] \notin Chain
  BY DEF Openable, Circular
<1>2. PICK p \in Files : Found = <<p>>
  <2>1. Range(loaded) \subseteq Files
    BY DEF LoadTypeOK
  <2> QED BY <1>1, <2>1, SearchFinds DEF Found, FoundAmong
<1>3. Len(Top.targets) \in Nat /\ Len(Top.targets) < Len(OpensWritten(Top.module))
  BY <1>1, TopFacts DEF Unwalked
<1>4. NextOpen = OpensWritten(Top.module)[Len(Top.targets) + 1]
  BY <1>1, TopFacts DEF NextOpen
<1>5. IsList(OpensWritten(Top.module))
  BY <1>1, TopFacts, ModuleFacts
<1>6. Len(OpensWritten(Top.module)) \in Nat /\ DOMAIN OpensWritten(Top.module) = 1..Len(OpensWritten(Top.module))
  BY <1>5, ListLength
<1>7. Len(Top.targets) + 1 \in DOMAIN OpensWritten(Top.module)
  BY <1>3, <1>6
<1>8. NextOpen \in Range(OpensWritten(Top.module))
  BY <1>4, <1>7, Zenon DEF Range
<1>9. Range(loaded) = {loaded[i] : i \in 1..Len(loaded)}
  BY ModuleFacts DEF Range
<1> QED BY <1>1, <1>2, <1>3, <1>4, <1>6, <1>8, <1>9, TopFacts, ModuleFacts DEF Found

----------------------------------------------------------------------------
(* What no step of the load changes.                                       *)

Keeps ==
  /\ project' = project
  /\ Len(loaded') \in Nat /\ Len(loaded) <= Len(loaded')
  /\ \A i \in 1..Len(loaded) : loaded'[i] = loaded[i]
  /\ \A m \in DOMAIN modules :
       /\ m \in DOMAIN modules'
       /\ modules'[m].file = modules[m].file /\ modules'[m].name = modules[m].name
       /\ modules'[m].params = modules[m].params

LEMMA TextKept ==
  ASSUME project' = project, NEW p
  PROVE  Text(p)' = Text(p)
  BY DEF Text

LEMMA LeadsKept ==
  ASSUME LoadTypeOK, Keeps, NEW m \in DOMAIN modules, NEW t \in DOMAIN modules, NEW o, Leads(m, o, t)
  PROVE  Leads(m, o, t)'
<1>1. PICK n \in 1..Len(loaded) : FoundAmong({loaded[i] : i \in 1..n}, m, o) = <<modules[t].file>>
  BY DEF Leads
<1>2. n \in 1..Len(loaded') /\ {loaded'[i] : i \in 1..n} = {loaded[i] : i \in 1..n}
  BY ModuleFacts DEF Keeps
<1>3. \A files, name, file, target : search(files, name, file, target)' = search(files, name, file, target)
  BY DEF Keeps, search
<1>4. FoundAmong({loaded[i] : i \in 1..n}, m, o)' = FoundAmong({loaded[i] : i \in 1..n}, m, o)
  BY <1>2, <1>3 DEF FoundAmong, Keeps
<1>5. args_of(modules[t])' = args_of(modules[t]) /\ modules[t].file' = modules[t].file
      /\ modules[m].params' = modules[m].params
  BY DEF Keeps, args_of
<1>6. Text(modules[t].file)' = Text(modules[t].file)
  BY <1>5 DEF Keeps, Text
<1>7. \E k \in 1..Len(loaded') : FoundAmong({loaded[i] : i \in 1..k}, m, o)' = <<modules[t].file>>'
  BY <1>1, <1>2, <1>4, <1>5
<1>8. \A params : substituted(o, params)' = substituted(o, params)
  BY DEF substituted, substitute_arg
<1>9. substituted(o, modules[m].params)' = substituted(o, modules[m].params)
  BY <1>5, <1>8
<1>10. /\ args_of(modules[t]) = substituted(o, modules[m].params)
       /\ Len(o.args) = Len(Text(modules[t].file).params)
  BY DEF Leads
<1> QED BY <1>5, <1>6, <1>7, <1>9, <1>10 DEF Leads

LEMMA OpensWrittenKept ==
  ASSUME Keeps, NEW m \in DOMAIN modules
  PROVE  OpensWritten(m)' = OpensWritten(m)
<1>1. modules[m].file' = modules[m].file
  BY DEF Keeps
<1> QED BY <1>1 DEF OpensWritten, Text, Keeps

LEMMA EqualRanges ==
  ASSUME NEW a \in Nat, NEW b \in Nat, 1..a = 1..b
  PROVE  a = b
<1>1. a < b => b \in 1..b /\ b \notin 1..a
  OBVIOUS
<1>2. b < a => a \in 1..a /\ a \notin 1..b
  OBVIOUS
<1> QED BY <1>1, <1>2

----------------------------------------------------------------------------
(* Opening what is there already.                                          *)

\* What a step changes of the stack when the open on top leads to m.
LEMMA WalkedFacts ==
  ASSUME LoadTypeOK, stack # <<>>, NEW m
  PROVE  /\ DOMAIN Walked(m) = DOMAIN stack /\ Len(Walked(m)) = Len(stack)
         /\ \A i \in DOMAIN stack :
              /\ Walked(m)[i].module = stack[i].module
              /\ i # Len(stack) => Walked(m)[i] = stack[i]
         /\ Walked(m)[Len(stack)].targets = Append(Top.targets, m)
         /\ Walked(m)[Len(stack)] = [module |-> Top.module, targets |-> Append(Top.targets, m)]
         /\ Walked(m) \in Seq({Walked(m)[i] : i \in DOMAIN stack})
<1> DEFINE walked == Walked(m)
<1> DEFINE n == Len(stack)
<1>1. walked = [stack EXCEPT ![n] = [stack[n] EXCEPT !.targets = Append(stack[n].targets, m)]]
  BY DEF Walked
<1>2. n \in DOMAIN stack /\ DOMAIN stack = 1..n /\ n \in Nat /\ Top = stack[n]
  BY TopFacts
<1>3. stack[n] = [module |-> stack[n].module, targets |-> stack[n].targets]
  BY <1>2, FrameFacts
<1>4. [stack[n] EXCEPT !.targets = Append(stack[n].targets, m)]
        = [module |-> stack[n].module, targets |-> Append(stack[n].targets, m)]
  BY <1>3
<1>5. walked = [i \in 1..n |-> IF i = n THEN [module |-> stack[n].module, targets |-> Append(stack[n].targets, m)]
                               ELSE stack[i]]
  BY <1>1, <1>2, <1>4
<1> HIDE DEF n, walked
<1>6. DOMAIN walked = 1..n /\ Len(walked) = n
  BY <1>2, <1>5
<1>7. walked[n] = [module |-> stack[n].module, targets |-> Append(stack[n].targets, m)]
  BY <1>2, <1>5
<1>8. \A i \in 1..n : i # n => walked[i] = stack[i]
  BY <1>5
<1>9. \A i \in 1..n : walked[i].module = stack[i].module
  BY <1>7, <1>8
<1>10. walked \in Seq({walked[i] : i \in 1..n})
  <2>1. walked = [i \in 1..n |-> walked[i]]
    BY <1>5
  <2> QED BY <1>2, <2>1
<1>11. walked[n].targets = Append(stack[n].targets, m)
  BY <1>7
<1> QED BY <1>2, <1>6, <1>7, <1>8, <1>9, <1>10, <1>11 DEF n, walked

LEMMA OpenAgainStep ==
  ASSUME LoadInv, OpenAgain
  PROVE  LoadInv'
<1> USE DEF LoadInv
<1>1. Openable /\ phase = "loading" /\ stack # <<>> /\ Unwalked
      /\ UNCHANGED <<project, phase, loaded, modules, refused>>
  BY DEF OpenAgain, Openable
<1>2. PICK m \in Instances(Found[1], Args) : stack' = Walked(m)
  BY DEF OpenAgain
<1> DEFINE n == Len(stack)
<1>3. /\ DOMAIN stack' = DOMAIN stack /\ Len(stack') = Len(stack)
      /\ \A i \in DOMAIN stack : stack'[i].module = stack[i].module /\ (i # n => stack'[i] = stack[i])
      /\ stack'[n].targets = Append(Top.targets, m)
      /\ stack'[n] = [module |-> Top.module, targets |-> Append(Top.targets, m)]
      /\ stack' \in Seq({stack'[i] : i \in DOMAIN stack})
  <2>1. LoadTypeOK /\ stack # <<>>
    BY <1>1
  <2>2. /\ DOMAIN Walked(m) = DOMAIN stack /\ Len(Walked(m)) = Len(stack)
        /\ \A i \in DOMAIN stack : Walked(m)[i].module = stack[i].module /\ (i # n => Walked(m)[i] = stack[i])
        /\ Walked(m)[n].targets = Append(Top.targets, m)
        /\ Walked(m)[n] = [module |-> Top.module, targets |-> Append(Top.targets, m)]
        /\ Walked(m) \in Seq({Walked(m)[i] : i \in DOMAIN stack})
    BY <2>1, WalkedFacts
  <2> HIDE DEF n
  <2> QED BY <1>2, <2>2, Zenon
<1>4. /\ n \in Nat /\ n >= 1 /\ DOMAIN stack = 1..n /\ n \in DOMAIN stack /\ Top = stack[n]
      /\ Top.targets \in Seq(DOMAIN modules) /\ Top.module \in DOMAIN modules
  BY <1>1, TopFacts
<1>5. m \in DOMAIN modules /\ modules[m].file = Found[1] /\ args_of(modules[m]) = Args
  BY <1>2 DEF Instances
<1>6. OnStack' = OnStack /\ Closed' = Closed
  BY <1>1, <1>3 DEF OnStack, Closed
<1>7. m \in Closed
  <2>1. Found[1] \notin Chain
    BY <1>1, OpenableFacts
  <2>2. \A i \in DOMAIN stack : modules[stack[i].module].file # Found[1]
    BY <2>1 DEF Chain
  <2> QED BY <1>5, <2>2 DEF Closed, OnStack
<1>8. /\ \A x, o, t : Leads(x, o, t)' <=> Leads(x, o, t)
      /\ \A x : OpensWritten(x)' = OpensWritten(x) /\ OpensOf(x)' = OpensOf(x)
      /\ \A p : Text(p)' = Text(p)
      /\ Files' = Files /\ Frames' = Frames
  BY <1>1 DEF Leads, OpensWritten, OpensOf, Text, Files, Frames, FoundAmong, search
<1>9. LoadTypeOK'
  <2>1. \A i \in DOMAIN stack : stack'[i] \in Frames
    <3>1. Append(Top.targets, m) \in Seq(DOMAIN modules)
      BY <1>4, <1>5
    <3>2. stack'[n] \in Frames
      BY <1>3, <1>4, <3>1 DEF Frames
    <3> HIDE DEF n
    <3> QED BY <1>3, <3>2, FrameFacts
  <2>2. stack' \in Seq(Frames)
    <3> HIDE DEF n
    <3> QED BY <1>3, <2>1, <1>4
  <2> QED BY <1>1, <1>8, <2>2 DEF LoadTypeOK
<1>10. Bottom'
  <2>1. stack' # <<>> /\ stack'[1].module = 1
    <3>1. stack[1].module = 1 /\ 1 \in DOMAIN stack
      BY <1>1, <1>4 DEF Bottom
    <3>2. stack' # <<>>
      BY <1>3, <1>4
    <3> QED BY <1>3, <3>1, <3>2
  <2> QED BY <1>1, <2>1 DEF Bottom, Built
<1>11. ChainIsSimple'
  <2>1. ChainIsSimple
    BY <1>1
  <2> QED BY <1>1, <1>3, <2>1 DEF ChainIsSimple
<1>12. \A i \in DOMAIN stack : Above(i)' = Above(i)
  BY <1>3 DEF Above
<1>13. \A i \in DOMAIN stack' : WalkedSoFar(i)'
  <2> SUFFICES ASSUME NEW i \in DOMAIN stack PROVE WalkedSoFar(i)'
    BY <1>3
  <2>0. WalkedSoFar(i)
    BY <1>1
  <2>1. CASE i # n
    BY <1>3, <1>6, <1>8, <1>12, <2>0, <2>1 DEF WalkedSoFar, Walks
  <2>2. CASE i = n
    <3> DEFINE k == Len(Top.targets)
               top == Top.module
    <3>1. k \in Nat /\ k + 1 <= Len(OpensWritten(top)) /\ NextOpen = OpensWritten(top)[k + 1]
      BY <1>1, OpenableFacts
    <3>2. /\ Len(Append(Top.targets, m)) = k + 1 /\ DOMAIN Append(Top.targets, m) = 1..(k + 1)
          /\ \A j \in 1..k : Append(Top.targets, m)[j] = Top.targets[j]
          /\ Append(Top.targets, m)[k + 1] = m
      BY <1>4, <1>5
    <3>3. \A j \in 1..k : Leads(top, OpensWritten(top)[j], Top.targets[j]) /\ Top.targets[j] \in Closed \cup Above(n)
      BY <1>4, <2>0, <2>2 DEF WalkedSoFar, Walks
    <3>4. Leads(top, NextOpen, m)
      <4>1. FoundAmong({loaded[i_1] : i_1 \in 1..Len(loaded)}, top, NextOpen) = <<modules[m].file>>
        BY <1>1, <1>5, OpenableFacts
      <4>2. Len(loaded) \in 1..Len(loaded)
        BY ModuleFacts DEF LoadTypeOK
      <4>3. args_of(modules[m]) = substituted(NextOpen, modules[top].params)
        BY <1>5 DEF Args, Here
      <4>4. Len(NextOpen.args) = Len(Text(modules[m].file).params)
        <5>1. m # 1
          BY <1>1, <1>4, <1>7 DEF Bottom, Closed, OnStack
        <5>2. DOMAIN modules[m].params = DOMAIN Text(modules[m].file).params
          BY <1>1, <1>5, <5>1 DEF ParamsBound
        <5>3. DOMAIN args_of(modules[m]) = DOMAIN modules[m].params
          BY DEF args_of
        <5>4. DOMAIN args_of(modules[m]) = 1..Len(NextOpen.args) /\ Len(NextOpen.args) \in Nat
          BY <1>1, <4>3, OpenableFacts, Substituted, ListLength
        <5>5. IsList(Text(modules[m].file).params)
          BY <1>5, ModuleFacts DEF IsText
        <5>6. Len(Text(modules[m].file).params) \in Nat
              /\ DOMAIN Text(modules[m].file).params = 1..Len(Text(modules[m].file).params)
          BY <5>5, ListLength
        <5>7. 1..Len(NextOpen.args) = 1..Len(Text(modules[m].file).params)
          BY <5>2, <5>3, <5>4, <5>6
        <5> QED BY <5>4, <5>6, <5>7, EqualRanges
      <4> QED BY <4>1, <4>2, <4>3, <4>4 DEF Leads
    <3>5. \A j \in 1..(k + 1) : /\ Leads(top, OpensWritten(top)[j], Append(Top.targets, m)[j])
                                /\ Append(Top.targets, m)[j] \in Closed \cup Above(n)
      <4> SUFFICES ASSUME NEW j \in 1..(k + 1)
                   PROVE  /\ Leads(top, OpensWritten(top)[j], Append(Top.targets, m)[j])
                          /\ Append(Top.targets, m)[j] \in Closed \cup Above(n)
        OBVIOUS
      <4>1. CASE j = k + 1
        BY <1>7, <3>1, <3>2, <3>4, <4>1
      <4>2. CASE j \in 1..k
        BY <3>2, <3>3, <4>2
      <4> QED BY <3>1, <4>1, <4>2
    <3>6. stack'[i].module = top /\ stack'[i].targets = Append(Top.targets, m)
      BY <1>3, <1>4, <2>2
    <3> HIDE DEF k, top
    <3> QED BY <1>6, <1>8, <1>12, <2>2, <3>1, <3>2, <3>5, <3>6 DEF WalkedSoFar, Walks
  <2> QED BY <2>1, <2>2
<1>14. ClosedStays'
  <2>1. ClosedStays
    BY <1>1
  <2>2. \A x : ClosedEdges(x)' <=> ClosedEdges(x)
    BY <1>1, <1>8 DEF ClosedEdges
  <2> QED BY <1>6, <1>8, <2>1, <2>2 DEF ClosedStays
<1>15. ClosedHasNoCircle'
  <2>1. ClosedHasNoCircle
    BY <1>1
  <2> QED BY <1>6, <1>8, <2>1 DEF ClosedHasNoCircle
<1>16. OpenedBefore'
  <2>1. OpenedBefore
    BY <1>1
  <2>2. \A i \in DOMAIN stack : Range(stack[i].targets) \subseteq Range(stack'[i].targets)
    <3> SUFFICES ASSUME NEW i \in DOMAIN stack
                 PROVE  Range(stack[i].targets) \subseteq Range(stack'[i].targets)
      OBVIOUS
    <3>1. CASE i # n
      BY <1>3, <3>1
    <3>2. CASE i = n
      <4>1. \A j \in DOMAIN Top.targets : j \in DOMAIN Append(Top.targets, m) /\ Append(Top.targets, m)[j] = Top.targets[j]
        BY <1>4, <1>5
      <4>2. Range(Top.targets) \subseteq Range(Append(Top.targets, m))
        BY <4>1 DEF Range
      <4> QED BY <1>3, <1>4, <3>2, <4>2
    <3> QED BY <3>1, <3>2
  <2>3. \A x, y : OpenedBy(x, y) => OpenedBy(x, y)'
    BY <1>3, <1>6, <1>8, <2>2 DEF OpenedBy
  <2> QED BY <1>1, <2>1, <2>3 DEF OpenedBefore
<1>17. ParamsBound' /\ NoTwins'
  BY <1>1, <1>8 DEF ParamsBound, NoTwins, args_of
<1> QED BY <1>1, <1>9, <1>10, <1>11, <1>13, <1>14, <1>15, <1>16, <1>17

----------------------------------------------------------------------------
(* Opening what is new.                                                    *)

New == Instance(Found[1], module_name_of(Text(Found[1]), NextOpen.target), bind_params(Text(Found[1]), Args))

\* What the step does, place by place.
LEMMA FreshFacts ==
  ASSUME LoadTypeOK, OpenFresh
  PROVE  LET n == Len(stack)
             id == Len(modules) + 1
         IN  /\ Openable /\ phase = "loading" /\ stack # <<>>
             /\ UNCHANGED <<project, phase, refused>>
             /\ Instances(Found[1], Args) = {} /\ Len(Text(Found[1]).params) = Len(Args)
             /\ n \in Nat /\ n >= 1 /\ DOMAIN stack = 1..n /\ Top = stack[n]
             /\ id \in Nat /\ DOMAIN modules = 1..(id - 1) /\ DOMAIN modules' = 1..id /\ Len(modules') = id
             /\ \A m \in DOMAIN modules : modules'[m] = modules[m]
             /\ modules'[id] = New
             /\ Len(stack') = n + 1 /\ DOMAIN stack' = 1..(n + 1)
             /\ \A i \in DOMAIN stack : stack'[i].module = stack[i].module /\ (i # n => stack'[i] = stack[i])
             /\ stack'[n] = [module |-> Top.module, targets |-> Append(Top.targets, id)]
             /\ stack'[n + 1] = [module |-> id, targets |-> <<>>]
<1> DEFINE n == Len(stack)
           id == Len(modules) + 1
<1>1. /\ Openable /\ phase = "loading" /\ stack # <<>> /\ UNCHANGED <<project, phase, refused>>
      /\ Instances(Found[1], Args) = {} /\ Len(Text(Found[1]).params) = Len(Args)
      /\ modules' = Append(modules, New) /\ stack' = Append(Walked(id), Frame(id))
  BY DEF OpenFresh, Openable, New
<1>2. n \in Nat /\ n >= 1 /\ DOMAIN stack = 1..n /\ Top = stack[n] /\ n \in DOMAIN stack
  BY <1>1, TopFacts
<1>3. id \in Nat /\ DOMAIN modules = 1..(id - 1) /\ Len(modules) = id - 1 /\ modules \in Seq(Range(modules))
  BY ModuleFacts DEF LoadTypeOK, IsList
<1>4. /\ DOMAIN modules' = 1..id /\ Len(modules') = id /\ modules'[id] = New
      /\ \A m \in DOMAIN modules : modules'[m] = modules[m]
  <2> HIDE DEF id
  <2> QED BY <1>1, <1>3
<1>5. /\ DOMAIN Walked(id) = 1..n /\ Len(Walked(id)) = n
      /\ \A i \in DOMAIN stack : Walked(id)[i].module = stack[i].module /\ (i # n => Walked(id)[i] = stack[i])
      /\ Walked(id)[n] = [module |-> Top.module, targets |-> Append(Top.targets, id)]
      /\ Walked(id) \in Seq({Walked(id)[i] : i \in DOMAIN stack})
  BY <1>1, <1>2, WalkedFacts
<1>6. /\ Len(stack') = n + 1 /\ DOMAIN stack' = 1..(n + 1)
      /\ \A i \in 1..n : stack'[i] = Walked(id)[i]
      /\ stack'[n + 1] = Frame(id)
  <2> DEFINE walked == Walked(id)
             S == {walked[i] : i \in DOMAIN stack}
  <2>1. walked \in Seq(S) /\ Len(walked) = n
    BY <1>5
  <2>2. stack' = Append(walked, Frame(id))
    BY <1>1
  <2> HIDE DEF walked, S, id, n
  <2>3. /\ Len(stack') = n + 1 /\ DOMAIN stack' = 1..(n + 1)
        /\ \A i \in 1..n : stack'[i] = walked[i]
        /\ stack'[n + 1] = Frame(id)
    BY <1>2, <2>1, <2>2
  <2> QED BY <2>3 DEF walked
<1>7. \A i \in DOMAIN stack : stack'[i].module = stack[i].module /\ (i # n => stack'[i] = stack[i])
  <2> HIDE DEF n, id
  <2> QED BY <1>2, <1>5, <1>6
<1>8. stack'[n] = [module |-> Top.module, targets |-> Append(Top.targets, id)]
  <2> HIDE DEF n, id
  <2> QED BY <1>2, <1>5, <1>6
<1> QED BY <1>1, <1>2, <1>3, <1>4, <1>6, <1>7, <1>8 DEF Frame

LEMMA FreshKeeps ==
  ASSUME LoadTypeOK, OpenFresh
  PROVE  /\ Keeps /\ Files' = Files
         /\ IsList(loaded') /\ Range(loaded') \subseteq Files
<1>1. Found[1] \in Files
  BY FreshFacts, OpenableFacts
<1>2. loaded' = IF Found[1] \in Range(loaded) THEN loaded ELSE Append(loaded, Found[1])
  BY DEF OpenFresh
<1>3. loaded \in Seq(Files) /\ Len(loaded) \in Nat
  <2>1. loaded \in Seq(Range(loaded)) /\ Range(loaded) \subseteq Files
    BY DEF LoadTypeOK, IsList
  <2> QED BY <2>1
<1>4. /\ loaded' \in Seq(Files) /\ Len(loaded') \in Nat /\ Len(loaded) <= Len(loaded')
      /\ \A i \in 1..Len(loaded) : loaded'[i] = loaded[i]
  <2>1. CASE Found[1] \in Range(loaded)
    BY <1>2, <1>3, <2>1
  <2>2. CASE Found[1] \notin Range(loaded)
    BY <1>1, <1>2, <1>3, <2>2
  <2> QED BY <2>1, <2>2
<1>5. Files' = Files /\ project' = project
  BY FreshFacts DEF Files
<1>6. IsList(loaded') /\ Range(loaded') \subseteq Files
  BY <1>4, Lists
<1>7. \A m \in DOMAIN modules : m \in DOMAIN modules' /\ modules'[m] = modules[m]
  BY FreshFacts
<1> QED BY <1>4, <1>5, <1>6, <1>7 DEF Keeps

\* The new module, and where it stands.
LEMMA FreshModule ==
  ASSUME LoadTypeOK, OpenFresh
  PROVE  LET id == Len(modules) + 1
         IN  /\ New.file = Found[1] /\ args_of(New) = Args /\ IsInstance(New)
             /\ DOMAIN New.params = DOMAIN Text(Found[1]).params
             /\ id \notin DOMAIN modules
             /\ OnStack' = OnStack \cup {id} /\ Closed' = Closed
             /\ \A x, o, t : x = Top.module /\ o = NextOpen /\ t = id => Leads(x, o, t)'
<1> DEFINE id == Len(modules) + 1
<1>1. Openable /\ stack # <<>>
  BY FreshFacts
<1>2. /\ IsList(NextOpen.args) /\ Found[1] \in Files /\ Found = <<Found[1]>>
      /\ Found = FoundAmong({loaded[i] : i \in 1..Len(loaded)}, Top.module, NextOpen)
  BY <1>1, OpenableFacts
<1>3. /\ Args = substituted(NextOpen, Here.params)
      /\ Len(Args) = Len(NextOpen.args) /\ DOMAIN Args = 1..Len(NextOpen.args)
  BY <1>2, Substituted DEF Args
<1>4. args_of(New) = Args /\ DOMAIN New.params = 1..Len(NextOpen.args)
  BY <1>2, <1>3, BoundArgs DEF New
<1>5. New.file = Found[1] /\ IsInstance(New) /\ New.opens = <<>>
  BY DEF New, Instance, IsInstance
<1>6. Len(Text(Found[1]).params) = Len(NextOpen.args)
  BY <1>3, FreshFacts
<1>7. DOMAIN New.params = DOMAIN Text(Found[1]).params
  <2>1. IsList(Text(Found[1]).params)
    BY <1>2, TextIsText DEF LoadTypeOK, IsText
  <2> QED BY <1>4, <1>6, <2>1, ListLength
<1>8. id \notin DOMAIN modules /\ id \in Nat
  BY ModuleFacts
<1>9. OnStack' = OnStack \cup {id}
  <2> DEFINE n == Len(stack)
  <2>0. /\ n \in Nat /\ DOMAIN stack = 1..n /\ DOMAIN stack' = 1..(n + 1)
        /\ \A i \in DOMAIN stack : stack'[i].module = stack[i].module
        /\ stack'[n + 1] = [module |-> id, targets |-> <<>>]
    BY FreshFacts
  <2>1. /\ n \in Nat /\ DOMAIN stack = 1..n /\ DOMAIN stack' = 1..(n + 1)
        /\ \A i \in 1..n : stack'[i].module = stack[i].module
        /\ stack'[n + 1].module = id
    BY <2>0
  <2> HIDE DEF n, id
  <2> QED BY <2>1 DEF OnStack
<1>10. Closed' = Closed
  <2>1. DOMAIN modules' = DOMAIN modules \cup {id} /\ id \notin DOMAIN modules
    BY <1>8, FreshFacts
  <2> HIDE DEF id
  <2> QED BY <1>9, <2>1 DEF Closed
<1>11. \A x, o, t : x = Top.module /\ o = NextOpen /\ t = id => Leads(x, o, t)'
  <2> SUFFICES ASSUME NEW x, NEW o, NEW t, x = Top.module, o = NextOpen, t = id
               PROVE  Leads(x, o, t)'
    OBVIOUS
  <2>0. PICK l : l = Len(loaded)
    OBVIOUS
  <2>1. x \in DOMAIN modules /\ l \in Nat /\ l >= 1
    BY <1>1, <2>0, TopFacts, ModuleFacts DEF LoadTypeOK
  <2>2. Keeps
    BY FreshKeeps
  <2>3. l \in 1..Len(loaded') /\ {loaded'[i] : i \in 1..l} = {loaded[i] : i \in 1..l}
    BY <2>0, <2>1, <2>2 DEF Keeps
  <2>4. \A files, name, file, target : search(files, name, file, target)' = search(files, name, file, target)
    BY <2>2 DEF Keeps, search
  <2>5. modules'[x].file = modules[x].file /\ modules'[x].name = modules[x].name /\ modules'[x].params = modules[x].params
    BY <2>1, <2>2 DEF Keeps
  <2>6. modules'[t] = New
    BY FreshFacts
  <2>7. FoundAmong({loaded[i] : i \in 1..l}, x, o)' = <<modules'[t].file>>
    <3>1. FoundAmong({loaded[i] : i \in 1..l}, x, o) = <<New.file>>
      BY <1>2, <1>5, <2>0
    <3>2. FoundAmong({loaded[i] : i \in 1..l}, x, o)' = FoundAmong({loaded[i] : i \in 1..l}, x, o)
      BY <2>3, <2>4, <2>5 DEF FoundAmong
    <3> QED BY <2>6, <3>1, <3>2
  <2>8. args_of(modules[t])' = substituted(o, modules[x].params)'
    <3>1. args_of(modules[t])' = Args
      BY <1>4, <2>6 DEF args_of
    <3>2. \A params : substituted(o, params)' = substituted(o, params)
      BY DEF substituted, substitute_arg
    <3>3. substituted(o, modules[x].params)' = substituted(o, modules[x].params)
      BY <2>5, <3>2
    <3>4. Args = substituted(o, modules[x].params)
      BY <1>3 DEF Here
    <3> QED BY <3>1, <3>3, <3>4
  <2>9. Len(o.args) = Len(Text(modules[t].file).params)'
    <3>1. Text(modules[t].file)' = Text(Found[1])
      BY <1>5, <2>2, <2>6 DEF Text, Keeps
    <3> QED BY <1>6, <3>1
  <2>10. \E k \in 1..Len(loaded') : FoundAmong({loaded[i] : i \in 1..k}, x, o)' = <<modules'[t].file>>
    BY <2>3, <2>7
  <2> QED BY <2>8, <2>9, <2>10 DEF Leads
<1> QED BY <1>4, <1>5, <1>7, <1>8, <1>9, <1>10, <1>11

LEMMA OpenFreshStep ==
  ASSUME LoadInv, OpenFresh
  PROVE  LoadInv'
<1> USE DEF LoadInv
<1>0. PICK n, id, ts : n = Len(stack) /\ id = Len(modules) + 1 /\ ts = Append(Top.targets, id)
  OBVIOUS
<1>1. /\ Openable /\ phase = "loading" /\ stack # <<>>
      /\ UNCHANGED <<project, phase, refused>>
      /\ Instances(Found[1], Args) = {}
  BY FreshFacts
<1>2. /\ n \in Nat /\ n >= 1 /\ DOMAIN stack = 1..n /\ Top = stack[n]
      /\ DOMAIN stack' = 1..(n + 1) /\ Len(stack') = n + 1
      /\ \A i \in DOMAIN stack : stack'[i].module = stack[i].module /\ (i # n => stack'[i] = stack[i])
      /\ stack'[n] = [module |-> Top.module, targets |-> ts]
      /\ stack'[n + 1] = [module |-> id, targets |-> <<>>]
  BY <1>0, FreshFacts
<1>3. /\ id \in Nat /\ DOMAIN modules = 1..(id - 1) /\ DOMAIN modules' = 1..id /\ Len(modules') = id
      /\ \A m \in DOMAIN modules : modules'[m] = modules[m]
      /\ modules'[id] = New /\ id \notin DOMAIN modules /\ id >= 2
  BY <1>0, FreshFacts DEF LoadTypeOK
<1>4. /\ New.file = Found[1] /\ args_of(New) = Args /\ IsInstance(New)
      /\ DOMAIN New.params = DOMAIN Text(Found[1]).params
      /\ OnStack' = OnStack \cup {id} /\ Closed' = Closed
      /\ \A x, o, t : x = Top.module /\ o = NextOpen /\ t = id => Leads(x, o, t)'
  BY <1>0, FreshModule
<1>5. Keeps /\ Files' = Files /\ IsList(loaded') /\ Range(loaded') \subseteq Files
  BY FreshKeeps
<1>6. Top.targets \in Seq(DOMAIN modules) /\ Top.module \in DOMAIN modules /\ n \in DOMAIN stack
  BY <1>0, <1>1, TopFacts
<1>7. \A m \in DOMAIN modules : OpensOf(m)' = OpensOf(m) /\ OpensWritten(m)' = OpensWritten(m)
  BY <1>3, <1>5, OpensWrittenKept DEF OpensOf
<1>8. Closed \subseteq DOMAIN modules
  BY DEF Closed
<1>9. /\ DOMAIN ts = 1..(Len(Top.targets) + 1) /\ Len(ts) = Len(Top.targets) + 1
      /\ Len(Top.targets) \in Nat /\ DOMAIN Top.targets = 1..Len(Top.targets)
      /\ \A j \in 1..Len(Top.targets) : ts[j] = Top.targets[j] /\ ts[j] \in DOMAIN modules
      /\ ts[Len(Top.targets) + 1] = id
      /\ ts \in Seq(DOMAIN modules')
  <2>1. DOMAIN modules \subseteq DOMAIN modules' /\ id \in DOMAIN modules'
    BY <1>3
  <2>2. ts \in Seq(DOMAIN modules')
    BY <1>0, <1>6, <2>1
  <2> QED BY <1>0, <1>6, <2>2
<1>10. LoadTypeOK'
  <2>1. \A m \in DOMAIN modules' : IsInstance(modules'[m]) /\ modules'[m].file \in Files
    <3>1. Found[1] \in Files
      BY <1>1, OpenableFacts
    <3>2. \A m \in DOMAIN modules' : m \in DOMAIN modules \/ m = id
      BY <1>3
    <3> QED BY <1>3, <1>4, <3>1, <3>2 DEF LoadTypeOK
  <2>2. IsList(modules')
    <3>1. modules \in Seq(Range(modules)) /\ modules' = Append(modules, New)
      BY DEF LoadTypeOK, IsList, OpenFresh, New
    <3>2. modules' \in Seq(Range(modules) \cup {New})
      BY <3>1
    <3> QED BY <3>2, Lists
  <2>3. \A i \in 1..(n + 1) : stack'[i] \in Frames'
    <3> SUFFICES ASSUME NEW i \in 1..(n + 1) PROVE stack'[i] \in Frames'
      OBVIOUS
    <3>1. \A m \in DOMAIN modules : m \in DOMAIN modules'
      BY <1>3
    <3>2. CASE i = n + 1
      <4>1. <<>> \in Seq(DOMAIN modules') /\ id \in DOMAIN modules'
        BY <1>3, EmptySeq
      <4>2. PICK none : none = <<>>
        OBVIOUS
      <4>3. none \in Seq(DOMAIN modules') /\ stack'[i] = [module |-> id, targets |-> none]
        BY <1>2, <3>2, <4>1, <4>2
      <4> QED BY <4>1, <4>3 DEF Frames
    <3>3. CASE i = n
      BY <1>2, <1>6, <1>9, <3>1, <3>3 DEF Frames
    <3>4. CASE i \in 1..n /\ i # n
      <4>1. i \in DOMAIN stack /\ stack'[i] = stack[i]
        BY <1>2, <3>4
      <4>2. /\ stack[i].module \in DOMAIN modules /\ stack[i].targets \in Seq(DOMAIN modules)
            /\ stack[i] = [module |-> stack[i].module, targets |-> stack[i].targets]
        BY <4>1, FrameFacts
      <4>3. stack[i].targets \in Seq(DOMAIN modules') /\ stack[i].module \in DOMAIN modules'
        BY <3>1, <4>2
      <4> QED BY <4>1, <4>2, <4>3 DEF Frames
    <3> QED BY <1>2, <3>2, <3>3, <3>4
  <2>4. stack' \in Seq(Frames')
    <3>1. IsList(stack')
      <4>1. \E S : stack' \in Seq(S)
        <5>1. stack' = Append(Walked(id), Frame(id))
          BY <1>0 DEF OpenFresh
        <5>2. Walked(id) \in Seq({Walked(id)[i] : i \in DOMAIN stack})
          BY <1>1, WalkedFacts
        <5> DEFINE w == Walked(id)
                   S == {w[i] : i \in DOMAIN stack}
                   f == Frame(id)
        <5>3. w \in Seq(S) /\ stack' = Append(w, f)
          BY <5>1, <5>2
        <5> HIDE DEF w, S, f
        <5>4. stack' \in Seq(S \cup {f})
          BY <5>3
        <5> QED BY <5>4
      <4> QED BY <4>1, Lists
    <3>2. stack' \in Seq(Range(stack')) /\ Range(stack') \subseteq Frames'
      BY <1>2, <2>3, <3>1 DEF IsList, Range
    <3> QED BY <3>2
  <2>5. Len(loaded') >= 1
    BY <1>5, ModuleFacts DEF Keeps, LoadTypeOK
  <2> QED BY <1>1, <1>3, <1>5, <2>1, <2>2, <2>4, <2>5 DEF LoadTypeOK
<1>11. Bottom'
  <2>1. stack[1].module = 1 /\ 1 \in DOMAIN stack
    BY <1>1, <1>2 DEF Bottom
  <2>2. stack' # <<>> /\ stack'[1].module = 1
    BY <1>2, <2>1
  <2> QED BY <1>1, <2>2 DEF Bottom, Built
<1>12. ChainIsSimple'
  <2>1. ChainIsSimple /\ Found[1] \notin Chain
    BY <1>1, OpenableFacts
  <2>2. \A i \in DOMAIN stack : stack[i].module \in DOMAIN modules /\ modules[stack[i].module].file # Found[1]
    BY <2>1, FrameFacts DEF Chain
  <2>3. \A i \in DOMAIN stack : modules'[stack'[i].module].file = modules[stack[i].module].file
    BY <1>2, <1>3, <2>2
  <2>4. modules'[stack'[n + 1].module].file = Found[1]
    BY <1>2, <1>3, <1>4
  <2>5. \A i \in DOMAIN stack' : i \in DOMAIN stack \/ i = n + 1
    BY <1>2
  <2> QED BY <2>1, <2>2, <2>3, <2>4, <2>5 DEF ChainIsSimple
<1>13. /\ \A i \in DOMAIN stack : Above(i)' = Above(i) \cup {id}
       /\ Above(n + 1)' = {}
  <2>1. DOMAIN stack' = DOMAIN stack \cup {n + 1} /\ \A i \in DOMAIN stack : i < n + 1
    BY <1>2
  <2>2. stack'[n + 1].module = id
    BY <1>2
  <2> QED BY <1>2, <2>1, <2>2 DEF Above
<1>14. \A i \in DOMAIN stack' : WalkedSoFar(i)'
  <2>1. \A i \in DOMAIN stack : WalkedSoFar(i)
    BY <1>1
  <2>2. ASSUME NEW i \in DOMAIN stack, i # n PROVE WalkedSoFar(i)'
    <3>1. /\ stack'[i] = stack[i] /\ stack[i].module \in DOMAIN modules
          /\ \A j \in DOMAIN stack[i].targets : stack[i].targets[j] \in DOMAIN modules
      BY <1>2, <2>2, FrameFacts
    <3>2. PICK m, targets : m = stack[i].module /\ targets = stack[i].targets
      OBVIOUS
    <3>3. OpensWritten(m)' = OpensWritten(m) /\ m \in DOMAIN modules
      BY <1>7, <3>1, <3>2
    <3>4. /\ Len(targets) <= Len(OpensWritten(m))
          /\ \A j \in DOMAIN targets : Leads(m, OpensWritten(m)[j], targets[j]) /\ targets[j] \in Closed \cup Above(i)
      BY <2>1, <2>2, <3>2 DEF WalkedSoFar, Walks
    <3>5. \A o, t : t \in DOMAIN modules /\ Leads(m, o, t) => Leads(m, o, t)'
      BY <1>5, <3>3, LeadsKept
    <3>6. \A j \in DOMAIN targets : Leads(m, OpensWritten(m)[j], targets[j])'
      <4> SUFFICES ASSUME NEW j \in DOMAIN targets PROVE Leads(m, OpensWritten(m)[j], targets[j])'
        OBVIOUS
      <4>1. PICK o : o = OpensWritten(m)[j]
        OBVIOUS
      <4>2. Leads(m, o, targets[j])'
        BY <3>1, <3>2, <3>4, <3>5, <4>1
      <4>3. o = OpensWritten(m)'[j]
        BY <3>3, <4>1
      <4> QED BY <4>2, <4>3
    <3>7. Walks(m, targets, Above(i))'
      BY <1>4, <1>13, <2>2, <3>3, <3>4, <3>6 DEF Walks
    <3> QED BY <3>1, <3>2, <3>7 DEF WalkedSoFar
  <2>3. ASSUME NEW i, i = n PROVE WalkedSoFar(i)'
    <3>1. PICK m, targets, k : m = Top.module /\ targets = Top.targets /\ k = Len(Top.targets)
      OBVIOUS
    <3>2. OpensWritten(m)' = OpensWritten(m) /\ m \in DOMAIN modules
      BY <1>6, <1>7, <3>1
    <3>3. k \in Nat /\ k + 1 <= Len(OpensWritten(m)) /\ NextOpen = OpensWritten(m)[k + 1]
      BY <1>1, <3>1, OpenableFacts
    <3>4. \A j \in 1..k : Leads(m, OpensWritten(m)[j], targets[j]) /\ targets[j] \in Closed \cup Above(n)
      BY <1>2, <1>6, <1>9, <2>1, <3>1 DEF WalkedSoFar, Walks
    <3>5. \A o, t : t \in DOMAIN modules /\ Leads(m, o, t) => Leads(m, o, t)'
      BY <1>5, <3>2, LeadsKept
    <3>6. \A j \in 1..(k + 1) : /\ Leads(m, OpensWritten(m)[j], ts[j])'
                                /\ ts[j] \in Closed \cup Above(n) \cup {id}
      <4> SUFFICES ASSUME NEW j \in 1..(k + 1)
                   PROVE  Leads(m, OpensWritten(m)[j], ts[j])' /\ ts[j] \in Closed \cup Above(n) \cup {id}
        OBVIOUS
      <4>1. PICK o : o = OpensWritten(m)[j]
        OBVIOUS
      <4>2. o = OpensWritten(m)'[j]
        BY <3>2, <4>1
      <4>3. CASE j = k + 1
        <5>1. o = NextOpen /\ ts[j] = id
          BY <1>9, <3>1, <3>3, <4>1, <4>3
        <5>2. Leads(m, o, ts[j])'
          BY <1>4, <3>1, <5>1
        <5> QED BY <4>2, <5>1, <5>2
      <4>4. CASE j \in 1..k
        <5>1. ts[j] = targets[j] /\ ts[j] \in DOMAIN modules
          BY <1>9, <3>1, <4>4
        <5>2. Leads(m, o, ts[j])'
          BY <3>4, <3>5, <4>1, <4>4, <5>1
        <5> QED BY <3>4, <4>2, <4>4, <5>1, <5>2
      <4> QED BY <3>3, <4>3, <4>4
    <3>7. Walks(m, ts, Above(i))'
      <4>1. DOMAIN ts = 1..(k + 1) /\ Len(ts) = k + 1
        BY <1>9, <3>1
      <4>2. Above(i)' = Above(n) \cup {id}
        BY <1>6, <1>13, <1>0, <2>3
      <4> QED BY <1>4, <3>2, <3>3, <3>6, <4>1, <4>2 DEF Walks
    <3>8. stack'[i].module = m /\ stack'[i].targets = ts
      BY <1>2, <2>3, <3>1
    <3> QED BY <3>7, <3>8 DEF WalkedSoFar
  <2>4. ASSUME NEW i, i = n + 1 PROVE WalkedSoFar(i)'
    <3>1. stack'[i].module = id /\ stack'[i].targets = <<>>
      BY <1>2, <2>4
    <3>2. Len(OpensWritten(id)') \in Nat
      <4>1. PICK p : p = Found[1]
        OBVIOUS
      <4>2. IsText(Text(p)) /\ Text(p)' = Text(p)
        <5>1. p \in Files /\ project \in Projects /\ project' = project
          BY <1>1, <4>1, OpenableFacts DEF LoadTypeOK
        <5> QED BY <5>1, TextIsText, TextKept
      <4>3. modules'[id].file = p
        BY <1>3, <1>4, <4>1
      <4>4. OpensWritten(id)' = all_opens(Text(p)')
        BY <4>3 DEF OpensWritten, Text
      <4> QED BY <4>2, <4>4, AllOpens, ListLength
    <3>3. Walks(id, <<>>, Above(i))'
      <4>1. Len(<<>>) = 0 /\ DOMAIN <<>> = {}
        OBVIOUS
      <4> QED BY <3>2, <4>1 DEF Walks
    <3> QED BY <3>1, <3>3 DEF WalkedSoFar
  <2> SUFFICES ASSUME NEW i \in 1..(n + 1) PROVE WalkedSoFar(i)'
    BY <1>2
  <2>5. (i \in DOMAIN stack /\ i # n) \/ i = n \/ i = n + 1
    BY <1>2
  <2> QED BY <2>2, <2>3, <2>4, <2>5
<1>15. ClosedStays'
  <2> SUFFICES ASSUME NEW m \in Closed PROVE OpensOf(m)' \subseteq Closed /\ ClosedEdges(m)'
    BY <1>4 DEF ClosedStays
  <2>1. m \in DOMAIN modules /\ OpensOf(m) \subseteq Closed /\ ClosedEdges(m)
    BY <1>1, <1>8 DEF ClosedStays
  <2>2. OpensOf(m)' = OpensOf(m) /\ OpensWritten(m)' = OpensWritten(m) /\ modules'[m] = modules[m]
    BY <1>3, <1>7, <2>1
  <2>3. \A e \in Range(modules[m].opens) : e.target \in DOMAIN modules
    BY <1>8, <2>1 DEF OpensOf
  <2>4. \A o, t : t \in DOMAIN modules /\ Leads(m, o, t) => Leads(m, o, t)'
    BY <1>5, <2>1, LeadsKept
  <2>5. \A e \in Range(modules[m].opens) : /\ args_of(modules'[e.target]) = args_of(modules[e.target])
                                           /\ \A o : Leads(m, o, e.target) => Leads(m, o, e.target)'
    BY <1>3, <2>3, <2>4
  <2> QED BY <2>1, <2>2, <2>5 DEF ClosedEdges
<1>16. ClosedHasNoCircle'
  <2>1. ClosedHasNoCircle
    BY <1>1
  <2>2. \A m \in Closed : OpensOf(m)' = OpensOf(m)
    BY <1>7, <1>8
  <2> QED BY <1>4, <2>1, <2>2 DEF ClosedHasNoCircle
<1>17. OpenedBefore'
  <2>1. OpenedBefore
    BY <1>1
  <2>2. \A i \in DOMAIN stack : Range(stack[i].targets) \subseteq Range(stack'[i].targets)
    <3> SUFFICES ASSUME NEW i \in DOMAIN stack
                 PROVE  Range(stack[i].targets) \subseteq Range(stack'[i].targets)
      OBVIOUS
    <3>1. CASE i # n
      BY <1>2, <3>1
    <3>2. CASE i = n
      <4>1. \A j \in DOMAIN Top.targets : j \in DOMAIN ts /\ ts[j] = Top.targets[j]
        BY <1>9
      <4>2. Range(Top.targets) \subseteq Range(ts)
        BY <4>1 DEF Range
      <4> QED BY <1>2, <3>2, <4>2
    <3> QED BY <3>1, <3>2
  <2>3. \A i \in DOMAIN stack : i \in DOMAIN stack' /\ stack'[i].module = stack[i].module
    BY <1>2
  <2>4. \A x, y : y \in DOMAIN modules /\ OpenedBy(x, y) => OpenedBy(x, y)'
    BY <1>4, <1>7, <2>2, <2>3 DEF OpenedBy
  <2>5. \A m \in DOMAIN modules \ {1} : \E y \in 1..(m - 1) : OpenedBy(m, y)'
    <3> SUFFICES ASSUME NEW m \in DOMAIN modules \ {1} PROVE \E y \in 1..(m - 1) : OpenedBy(m, y)'
      OBVIOUS
    <3>1. PICK y \in 1..(m - 1) : OpenedBy(m, y)
      BY <2>1 DEF OpenedBefore
    <3>2. y \in DOMAIN modules
      BY <1>3, <3>1
    <3> QED BY <2>4, <3>1, <3>2
  <2>6. \A x, y : x = id /\ y = Top.module => y \in 1..(id - 1) /\ OpenedBy(x, y)'
    <3> SUFFICES ASSUME NEW x, NEW y, x = id, y = Top.module PROVE y \in 1..(id - 1) /\ OpenedBy(x, y)'
      OBVIOUS
    <3>1. id \in Range(ts)
      BY <1>9 DEF Range
    <3>2. n \in DOMAIN stack' /\ stack'[n].module = y /\ x \in Range(stack'[n].targets)
      BY <1>2, <3>1
    <3>3. y \in 1..(id - 1)
      BY <1>3, <1>6
    <3> QED BY <3>2, <3>3 DEF OpenedBy
  <2>7. \A m \in DOMAIN modules' \ {1} : m \in DOMAIN modules \ {1} \/ m = id
    BY <1>3
  <2> QED BY <2>5, <2>6, <2>7 DEF OpenedBefore
<1>18. ParamsBound'
  <2>1. ParamsBound /\ \A p : Text(p)' = Text(p)
    BY <1>1, TextKept
  <2>2. \A m \in DOMAIN modules' : m \in DOMAIN modules \/ m = id
    BY <1>3
  <2> QED BY <1>3, <1>4, <2>1, <2>2 DEF ParamsBound
<1>19. NoTwins'
  <2>1. NoTwins /\ \A m \in DOMAIN modules : ~(modules[m].file = Found[1] /\ args_of(modules[m]) = Args)
    BY <1>1 DEF Instances
  <2>2. \A m \in DOMAIN modules' : m \in DOMAIN modules \/ m = id
    BY <1>3
  <2>3. \A m \in DOMAIN modules : args_of(modules'[m]) = args_of(modules[m]) /\ modules'[m].file = modules[m].file
    BY <1>3
  <2>4. args_of(modules'[id]) = Args /\ modules'[id].file = Found[1]
    BY <1>3, <1>4
  <2>5. \A m \in DOMAIN modules' : args_of(modules[m])' = args_of(modules'[m])
    BY DEF args_of
  <2> QED BY <2>1, <2>2, <2>3, <2>4, <2>5 DEF NoTwins
<1> QED BY <1>1, <1>10, <1>11, <1>12, <1>14, <1>15, <1>16, <1>17, <1>18, <1>19

----------------------------------------------------------------------------
(* Closing a module.                                                       *)

Laid ==
  LET opens == all_opens(HereText)
  IN  build_edges(opens, Top.targets, compute_aliases(opens, integer_idx(HereText)), Here.params)

LEMMA AllWalked ==
  ASSUME LoadInv, phase = "loading", stack # <<>>, ~Unwalked
  PROVE  /\ Len(Top.targets) = Len(OpensWritten(Top.module))
         /\ DOMAIN Top.targets = DOMAIN OpensWritten(Top.module)
         /\ \A j \in DOMAIN Top.targets :
              Leads(Top.module, OpensWritten(Top.module)[j], Top.targets[j]) /\ Top.targets[j] \in Closed
<1>1. LoadTypeOK
  BY DEF LoadInv
<1>2. /\ Top = stack[Len(stack)] /\ Len(stack) \in DOMAIN stack /\ Top.module \in DOMAIN modules
      /\ DOMAIN stack = 1..Len(stack) /\ Len(stack) \in Nat
      /\ all_opens(HereText) = OpensWritten(Top.module)
  BY <1>1, TopFacts
<1>3. Walks(Top.module, Top.targets, Above(Len(stack)))
  BY <1>2 DEF LoadInv, WalkedSoFar
<1>4. Above(Len(stack)) = {}
  BY <1>2 DEF Above
<1>5. IsList(OpensWritten(Top.module)) /\ Len(Top.targets) \in Nat /\ DOMAIN Top.targets = 1..Len(Top.targets)
  BY <1>1, <1>2, ModuleFacts, FrameFacts
<1>6. Len(OpensWritten(Top.module)) \in Nat /\ DOMAIN OpensWritten(Top.module) = 1..Len(OpensWritten(Top.module))
  BY <1>5, ListLength
<1>7. Len(Top.targets) = Len(OpensWritten(Top.module))
  BY <1>2, <1>3, <1>5, <1>6 DEF Unwalked, Walks
<1> QED BY <1>3, <1>4, <1>5, <1>6, <1>7 DEF Walks

\* The edges that are laid.
LEMMA LaidFacts ==
  ASSUME LoadInv, phase = "loading", stack # <<>>, ~Unwalked,
         ~Clashing(compute_aliases(all_opens(HereText), integer_idx(HereText)), Top.targets)
  PROVE  LET m == Top.module
             opens == OpensWritten(m)
         IN  /\ {e.target : e \in Range(Laid)} = Range(Top.targets)
             /\ \A o \in Range(opens) : \E e \in Range(Laid) : Leads(m, o, e.target)
             /\ \A e \in Range(Laid) :
                  /\ e.target \in Closed
                  /\ args_of(modules[e.target]) = e.args
                  /\ \E o \in Range(opens) : o.args = e.written /\ Leads(m, o, e.target)
             /\ \A e, f \in Range(Laid) : e.alias = f.alias => e = f
<1>1. LoadTypeOK
  BY DEF LoadInv
<1> DEFINE m == Top.module
           opens == OpensWritten(m)
           targets == Top.targets
           aliases == compute_aliases(opens, integer_idx(HereText))
           params == Here.params
           Edge(i) == EdgeOf(opens, targets, aliases, params, i)
<1>2. /\ opens = all_opens(HereText) /\ m \in DOMAIN modules /\ IsList(opens)
  BY <1>1, TopFacts, ModuleFacts
<1>3. /\ DOMAIN targets = DOMAIN opens
      /\ \A j \in DOMAIN opens : Leads(m, opens[j], targets[j]) /\ targets[j] \in Closed
  BY AllWalked
<1>4. DOMAIN aliases = DOMAIN opens
  BY DEF compute_aliases
<1>5. ~Clashing(aliases, targets)
  BY <1>2
<1>6. Laid = build_edges(opens, targets, aliases, params)
  BY <1>2 DEF Laid
<1> HIDE DEF opens, aliases, params
<1>7. /\ \A e \in Range(Laid) : \E i \in DOMAIN opens : e = Edge(i)
      /\ \A i \in DOMAIN opens : \E e \in Range(Laid) : e.target = targets[i]
      /\ \A e, f \in Range(Laid) : e.alias = f.alias => e = f
  BY <1>2, <1>4, <1>5, <1>6, Edges
<1>8. \A i : /\ Edge(i).target = targets[i] /\ Edge(i).args = substituted(opens[i], params)
             /\ Edge(i).written = opens[i].args
  BY DEF EdgeOf
<1> HIDE DEF Edge
<1>9. {e.target : e \in Range(Laid)} = Range(targets)
  BY <1>3, <1>7, <1>8 DEF Range
<1>10. \A o \in Range(opens) : \E e \in Range(Laid) : Leads(m, o, e.target)
  <2> SUFFICES ASSUME NEW i \in DOMAIN opens PROVE \E e \in Range(Laid) : Leads(m, opens[i], e.target)
    BY DEF Range
  <2>1. PICK e \in Range(Laid) : e.target = targets[i]
    BY <1>7
  <2> QED BY <1>3, <2>1
<1>11. \A e \in Range(Laid) : /\ e.target \in Closed
                              /\ args_of(modules[e.target]) = e.args
                              /\ \E o \in Range(opens) : o.args = e.written /\ Leads(m, o, e.target)
  <2> TAKE e \in Range(Laid)
  <2>1. PICK i \in DOMAIN opens : e = Edge(i)
    BY <1>7
  <2>2. e.target = targets[i] /\ e.args = substituted(opens[i], params) /\ e.written = opens[i].args
    BY <1>8, <2>1
  <2>3. Leads(m, opens[i], e.target) /\ e.target \in Closed
    BY <1>3, <2>2
  <2>4. args_of(modules[e.target]) = substituted(opens[i], modules[m].params)
    BY <2>3 DEF Leads
  <2>5. opens[i] \in Range(opens)
    BY DEF Range
  <2> QED BY <2>2, <2>3, <2>4, <2>5 DEF params, Here
<1> QED BY <1>7, <1>9, <1>10, <1>11 DEF opens

CloseLays ==
  /\ CloseModule
  /\ ~Clashing(compute_aliases(all_opens(HereText), integer_idx(HereText)), Top.targets)

LEMMA CloseFacts ==
  ASSUME LoadInv, CloseLays
  PROVE  LET n == Len(stack)
             top == Top.module
         IN  /\ phase = "loading" /\ stack # <<>> /\ ~Unwalked
             /\ UNCHANGED <<project, loaded, refused>>
             /\ phase' = IF n = 1 THEN "loaded" ELSE phase
             /\ n \in Nat /\ n >= 1 /\ DOMAIN stack = 1..n /\ DOMAIN stack' = 1..(n - 1)
             /\ \A i \in 1..(n - 1) : stack'[i] = stack[i]
             /\ stack' \in Seq(Frames) /\ Len(stack') = n - 1
             /\ top = stack[n].module /\ top \in DOMAIN modules
             /\ DOMAIN modules' = DOMAIN modules /\ Len(modules') = Len(modules)
             /\ \A m \in DOMAIN modules : m # top => modules'[m] = modules[m]
             /\ modules'[top] = [file |-> modules[top].file, name |-> modules[top].name,
                                 params |-> modules[top].params, opens |-> Laid]
             /\ IsList(modules')
             /\ OnStack' = OnStack \ {top} /\ Closed' = Closed \cup {top} /\ top \notin Closed
<1>1. LoadTypeOK /\ phase = "loading" /\ stack # <<>> /\ ~Unwalked
  BY DEF CloseLays, CloseModule, LoadInv
<1>2. PICK n, top, laid : n = Len(stack) /\ top = Top.module /\ laid = Laid
  OBVIOUS
<1>3. /\ modules' = [modules EXCEPT ![top].opens = laid] /\ stack' = Front(stack)
      /\ phase' = IF n = 1 THEN "loaded" ELSE phase
      /\ UNCHANGED <<project, loaded, refused>>
  BY <1>2 DEF CloseLays, CloseModule, Laid
<1>4. /\ n \in Nat /\ n >= 1 /\ DOMAIN stack = 1..n /\ n \in DOMAIN stack
      /\ top = stack[n].module /\ top \in DOMAIN modules /\ top \in OnStack
  BY <1>1, <1>2, TopFacts
<1>5. /\ DOMAIN stack' = 1..(n - 1) /\ Len(stack') = n - 1 /\ stack' \in Seq(Frames)
      /\ \A i \in 1..(n - 1) : stack'[i] = stack[i]
  <2>1. stack \in Seq(Frames)
    BY <1>1 DEF LoadTypeOK
  <2>2. stack' = [i \in 1..(n - 1) |-> stack[i]]
    BY <1>2, <1>3, <1>4, <2>1 DEF Front
  <2>3. \A i \in 1..(n - 1) : stack[i] \in Frames
    BY <1>2, <1>4, <2>1
  <2> QED BY <1>4, <2>2, <2>3
<1>6. modules[top] = [file |-> modules[top].file, name |-> modules[top].name,
                      params |-> modules[top].params, opens |-> modules[top].opens]
  BY <1>1, <1>4 DEF LoadTypeOK, IsInstance
<1>7. [modules[top] EXCEPT !.opens = laid]
        = [file |-> modules[top].file, name |-> modules[top].name,
           params |-> modules[top].params, opens |-> laid]
  BY <1>6
<1>8. /\ DOMAIN modules' = DOMAIN modules
      /\ \A m \in DOMAIN modules : m # top => modules'[m] = modules[m]
      /\ modules'[top] = [modules[top] EXCEPT !.opens = laid]
  BY <1>3, <1>4
<1>9. IsList(modules') /\ Len(modules') = Len(modules)
  <2>1. Len(modules) \in Nat /\ DOMAIN modules = 1..Len(modules)
    BY <1>1, ModuleFacts
  <2>2. PICK k \in Nat : k = Len(modules)
    BY <2>1
  <2>3. modules' = [i \in 1..k |-> modules'[i]]
    BY <1>3, <1>8, <2>1, <2>2
  <2>4. DOMAIN modules' = 1..k /\ modules' \in Seq(Range(modules')) /\ Len(modules') = k
    BY <2>3 DEF Range
  <2> QED BY <2>2, <2>4 DEF IsList
<1>10. \A i \in 1..(n - 1) : stack[i].module # top
  <2>1. ChainIsSimple
    BY <1>1 DEF LoadInv
  <2> QED BY <1>4, <2>1 DEF ChainIsSimple
<1>11. OnStack = {stack[i].module : i \in 1..(n - 1)} \cup {top}
  <2>1. 1..n = 1..(n - 1) \cup {n}
    BY <1>4
  <2> QED BY <1>4, <2>1 DEF OnStack
<1>12. OnStack' = {stack[i].module : i \in 1..(n - 1)}
  BY <1>5 DEF OnStack
<1>13. OnStack' = OnStack \ {top}
  BY <1>10, <1>11, <1>12
<1>14. Closed' = Closed \cup {top} /\ top \notin Closed
  BY <1>4, <1>8, <1>13 DEF Closed
<1> QED BY <1>1, <1>2, <1>3, <1>4, <1>5, <1>7, <1>8, <1>9, <1>13, <1>14

LEMMA CloseStep ==
  ASSUME LoadInv, CloseLays
  PROVE  LoadInv'
<1> USE DEF LoadInv
<1>0. PICK n, top, laid, targets :
        n = Len(stack) /\ top = Top.module /\ laid = Laid /\ targets = Top.targets
  OBVIOUS
<1>1. /\ phase = "loading" /\ stack # <<>> /\ ~Unwalked /\ UNCHANGED <<project, loaded, refused>>
      /\ phase' = IF n = 1 THEN "loaded" ELSE phase
      /\ n \in Nat /\ n >= 1 /\ DOMAIN stack = 1..n /\ DOMAIN stack' = 1..(n - 1)
      /\ \A i \in 1..(n - 1) : stack'[i] = stack[i]
      /\ stack' \in Seq(Frames) /\ Len(stack') = n - 1
      /\ top = stack[n].module /\ top \in DOMAIN modules
  BY <1>0, CloseFacts
<1>2. /\ DOMAIN modules' = DOMAIN modules /\ Len(modules') = Len(modules)
      /\ \A m \in DOMAIN modules : m # top => modules'[m] = modules[m]
      /\ modules'[top] = [file |-> modules[top].file, name |-> modules[top].name,
                          params |-> modules[top].params, opens |-> laid]
      /\ IsList(modules')
      /\ Closed' = Closed \cup {top} /\ top \notin Closed
  BY <1>0, CloseFacts
<1>3. /\ {e.target : e \in Range(laid)} = Range(targets)
      /\ \A o \in Range(OpensWritten(top)) : \E e \in Range(laid) : Leads(top, o, e.target)
      /\ \A e \in Range(laid) :
           /\ e.target \in Closed
           /\ args_of(modules[e.target]) = e.args
           /\ \E o \in Range(OpensWritten(top)) : o.args = e.written /\ Leads(top, o, e.target)
      /\ \A e, f \in Range(laid) : e.alias = f.alias => e = f
  <2>1. ~Clashing(compute_aliases(all_opens(HereText), integer_idx(HereText)), Top.targets)
    BY DEF CloseLays
  <2> QED BY <1>0, <1>1, <2>1, LaidFacts
<1>4. /\ targets = stack[n].targets /\ n \in DOMAIN stack
      /\ \A j \in DOMAIN targets : targets[j] \in Closed
  BY <1>0, <1>1, TopFacts, AllWalked
<1>5. \A m \in DOMAIN modules :
        /\ modules'[m].file = modules[m].file /\ modules'[m].name = modules[m].name
        /\ modules'[m].params = modules[m].params
  BY <1>2
<1>6. Keeps
  BY <1>1, <1>2, <1>5, ModuleFacts DEF Keeps
<1>7. \A m \in DOMAIN modules :
        /\ OpensWritten(m)' = OpensWritten(m)
        /\ \A o, t : t \in DOMAIN modules /\ Leads(m, o, t) => Leads(m, o, t)'
        /\ args_of(modules'[m]) = args_of(modules[m])
  BY <1>5, <1>6, OpensWrittenKept, LeadsKept DEF args_of
<1>8. /\ \A m \in DOMAIN modules : m # top => OpensOf(m)' = OpensOf(m)
      /\ OpensOf(top)' = Range(targets)
  BY <1>2, <1>3 DEF OpensOf
<1>9. Closed \subseteq DOMAIN modules
  BY DEF Closed
<1>10. LoadTypeOK'
  <2>1. Files' = Files /\ Frames' = Frames
    BY <1>1, <1>2 DEF Files, Frames
  <2>2. \A m \in DOMAIN modules : IsInstance(modules'[m]) /\ modules'[m].file \in Files
    <3> SUFFICES ASSUME NEW m \in DOMAIN modules PROVE IsInstance(modules'[m]) /\ modules'[m].file \in Files
      OBVIOUS
    <3>1. modules'[m].file \in Files
      BY <1>5 DEF LoadTypeOK
    <3>2. CASE m = top
      BY <1>2, <3>1, <3>2 DEF IsInstance
    <3>3. CASE m # top
      BY <1>2, <3>1, <3>3 DEF LoadTypeOK
    <3> QED BY <3>2, <3>3
  <2> QED BY <1>1, <1>2, <2>1, <2>2 DEF LoadTypeOK
<1>11. Bottom'
  <2>1. n = 1 => stack' = <<>>
    BY <1>1
  <2>2. n # 1 => stack' # <<>> /\ stack'[1].module = 1
    <3> SUFFICES ASSUME n # 1 PROVE stack' # <<>> /\ stack'[1].module = 1
      OBVIOUS
    <3>1. 1 \in 1..(n - 1) /\ stack[1].module = 1
      BY <1>1 DEF Bottom
    <3>2. stack'[1] = stack[1] /\ DOMAIN stack' # {}
      BY <1>1, <3>1
    <3> QED BY <3>1, <3>2
  <2> QED BY <1>1, <2>1, <2>2 DEF Bottom, Built
<1>12. ChainIsSimple'
  <2>1. ChainIsSimple
    BY <1>1
  <2>2. \A i \in 1..(n - 1) : i \in DOMAIN stack /\ stack[i].module \in DOMAIN modules
    BY <1>1, FrameFacts
  <2>3. \A i \in DOMAIN stack' : modules'[stack'[i].module].file = modules[stack[i].module].file
    BY <1>1, <1>5, <2>2
  <2> QED BY <1>1, <2>1, <2>2, <2>3 DEF ChainIsSimple
<1>13. \A i \in DOMAIN stack' : WalkedSoFar(i)'
  <2> SUFFICES ASSUME NEW i \in 1..(n - 1) PROVE WalkedSoFar(i)'
    BY <1>1
  <2>1. PICK m, ts : m = stack[i].module /\ ts = stack[i].targets
    OBVIOUS
  <2>2. /\ i \in DOMAIN stack /\ stack'[i] = stack[i] /\ m \in DOMAIN modules
        /\ \A j \in DOMAIN ts : ts[j] \in DOMAIN modules
    BY <1>1, <2>1, FrameFacts
  <2>3. /\ Len(ts) <= Len(OpensWritten(m))
        /\ \A j \in DOMAIN ts : Leads(m, OpensWritten(m)[j], ts[j]) /\ ts[j] \in Closed \cup Above(i)
    BY <1>1, <2>1, <2>2 DEF WalkedSoFar, Walks
  <2>4. Above(i) \subseteq Above(i)' \cup {top}
    <3> SUFFICES ASSUME NEW k \in 1..n, k > i PROVE stack[k].module \in Above(i)' \cup {top}
      BY <1>1 DEF Above
    <3>1. CASE k = n
      BY <1>1, <3>1
    <3>2. CASE k \in 1..(n - 1)
      BY <1>1, <3>2 DEF Above
    <3> QED BY <1>1, <3>1, <3>2
  <2>5. \A j \in DOMAIN ts : Leads(m, OpensWritten(m)[j], ts[j])'
    <3> SUFFICES ASSUME NEW j \in DOMAIN ts PROVE Leads(m, OpensWritten(m)[j], ts[j])'
      OBVIOUS
    <3>1. PICK o : o = OpensWritten(m)[j]
      OBVIOUS
    <3>2. Leads(m, o, ts[j])'
      BY <1>7, <2>2, <2>3, <3>1
    <3>3. o = OpensWritten(m)'[j]
      BY <1>7, <2>2, <3>1
    <3> QED BY <3>2, <3>3
  <2>6. OpensWritten(m)' = OpensWritten(m)
    BY <1>7, <2>2
  <2>7. Walks(m, ts, Above(i))'
    BY <1>2, <2>3, <2>4, <2>5, <2>6 DEF Walks
  <2> QED BY <2>1, <2>2, <2>7 DEF WalkedSoFar
<1>14. ClosedStays'
  <2> SUFFICES ASSUME NEW m \in Closed \cup {top}
               PROVE  OpensOf(m)' \subseteq Closed \cup {top} /\ ClosedEdges(m)'
    BY <1>2 DEF ClosedStays
  <2>1. CASE m = top
    <3>1. OpensOf(m)' \subseteq Closed
      BY <1>4, <1>8, <2>1 DEF Range
    <3>2. \A e \in Range(laid) : /\ e.target \in DOMAIN modules
                                 /\ args_of(modules'[e.target]) = args_of(modules[e.target])
                                 /\ \A o : Leads(top, o, e.target) => Leads(top, o, e.target)'
      BY <1>1, <1>3, <1>7, <1>9
    <3>3. modules'[top].opens = laid /\ OpensWritten(top)' = OpensWritten(top)
      BY <1>1, <1>2, <1>7
    <3>4. ClosedEdges(top)'
      BY <1>3, <3>2, <3>3 DEF ClosedEdges
    <3> QED BY <2>1, <3>1, <3>4
  <2>2. CASE m \in Closed
    <3>1. m \in DOMAIN modules /\ OpensOf(m) \subseteq Closed /\ ClosedEdges(m) /\ m # top
      BY <1>1, <1>2, <1>9, <2>2 DEF ClosedStays
    <3>2. OpensOf(m)' = OpensOf(m) /\ OpensWritten(m)' = OpensWritten(m) /\ modules'[m] = modules[m]
      BY <1>2, <1>7, <1>8, <3>1
    <3>3. \A e \in Range(modules[m].opens) : e.target \in DOMAIN modules
      BY <1>9, <3>1 DEF OpensOf
    <3>4. \A e \in Range(modules[m].opens) : /\ args_of(modules'[e.target]) = args_of(modules[e.target])
                                             /\ \A o : Leads(m, o, e.target) => Leads(m, o, e.target)'
      BY <1>7, <3>1, <3>3
    <3>5. ClosedEdges(m)'
      BY <3>1, <3>2, <3>4 DEF ClosedEdges
    <3> QED BY <3>1, <3>2, <3>5
  <2> QED BY <2>1, <2>2
<1>15. ClosedHasNoCircle'
  <2> SUFFICES ASSUME NEW ms \in SUBSET (Closed \cup {top}), ms # {}
               PROVE  \E m \in ms : OpensOf(m)' \cap ms = {}
    BY <1>2 DEF ClosedHasNoCircle
  <2>1. \A m \in Closed : OpensOf(m)' = OpensOf(m) /\ OpensOf(m) \subseteq Closed
    BY <1>1, <1>2, <1>8, <1>9 DEF ClosedStays
  <2>2. CASE ms \cap Closed # {}
    <3>1. PICK m \in ms \cap Closed : OpensOf(m) \cap (ms \cap Closed) = {}
      BY <1>1, <2>2 DEF ClosedHasNoCircle
    <3>2. OpensOf(m)' \cap ms = {}
      BY <2>1, <3>1
    <3> QED BY <3>1, <3>2
  <2>3. CASE ms \cap Closed = {}
    <3>1. ms = {top}
      BY <2>3
    <3>2. OpensOf(top)' \subseteq Closed
      BY <1>4, <1>8 DEF Range
    <3> QED BY <1>2, <3>1, <3>2
  <2> QED BY <2>2, <2>3
<1>16. OpenedBefore'
  <2>1. \A x, y : y \in DOMAIN modules /\ OpenedBy(x, y) => OpenedBy(x, y)'
    <3> SUFFICES ASSUME NEW x, NEW y \in DOMAIN modules, OpenedBy(x, y) PROVE OpenedBy(x, y)'
      OBVIOUS
    <3>1. CASE y \in Closed /\ x \in OpensOf(y)
      BY <1>2, <1>8, <3>1 DEF OpenedBy
    <3>3. CASE \E i \in DOMAIN stack : stack[i].module = y /\ x \in Range(stack[i].targets)
      <4>1. PICK i \in 1..n : stack[i].module = y /\ x \in Range(stack[i].targets)
        BY <1>1, <3>3
      <4>2. CASE i = n
        BY <1>1, <1>2, <1>4, <1>8, <4>1, <4>2 DEF OpenedBy
      <4>3. CASE i \in 1..(n - 1)
        BY <1>1, <4>1, <4>3 DEF OpenedBy
      <4> QED BY <1>1, <4>1, <4>2, <4>3
    <3> QED BY <3>1, <3>3 DEF OpenedBy
  <2> SUFFICES ASSUME NEW m \in DOMAIN modules \ {1} PROVE \E y \in 1..(m - 1) : OpenedBy(m, y)'
    BY <1>2 DEF OpenedBefore
  <2>2. PICK y \in 1..(m - 1) : OpenedBy(m, y)
    BY <1>1 DEF OpenedBefore
  <2>3. y \in DOMAIN modules
    BY <2>2, ModuleFacts
  <2> QED BY <2>1, <2>2, <2>3
<1>17. ParamsBound'
  BY <1>1, <1>2, <1>5, TextKept DEF ParamsBound
<1>18. NoTwins'
  <2>1. \A m \in DOMAIN modules' : args_of(modules[m])' = args_of(modules[m]) /\ modules'[m].file = modules[m].file
    BY <1>2, <1>5 DEF args_of
  <2> QED BY <1>1, <1>2, <2>1 DEF NoTwins
<1> QED BY <1>1, <1>10, <1>11, <1>12, <1>13, <1>14, <1>15, <1>16, <1>17, <1>18

----------------------------------------------------------------------------
(* The other steps, and the theorem.                                       *)

LEMMA LoadInitInv == LoadInit => LoadInv
<1> SUFFICES ASSUME LoadInit PROVE LoadInv
  OBVIOUS
<1> DEFINE root == Instance(project.root, module_name_of(Text(project.root), <<>>), <<>>)
<1>1. project \in Projects /\ project.root \in Files
  BY ProjectsAssumption DEF LoadInit, Files
<1>2. /\ phase = "loading" /\ loaded = <<project.root>> /\ modules = <<root>>
      /\ stack = <<[module |-> 1, targets |-> <<>>]>>
  BY DEF LoadInit, Frame
<1>3. root.file = project.root /\ IsInstance(root)
  BY DEF Instance, IsInstance
<1> HIDE DEF root
<1>4. /\ DOMAIN modules = {1} /\ modules[1] = root /\ Len(modules) = 1 /\ IsList(modules)
      /\ IsList(loaded) /\ Len(loaded) = 1 /\ Range(loaded) = {project.root}
  <2>1. modules \in Seq({root}) /\ loaded \in Seq({project.root})
    BY <1>2
  <2>2. /\ DOMAIN modules = {1} /\ modules[1] = root /\ Len(modules) = 1
        /\ DOMAIN loaded = {1} /\ loaded[1] = project.root /\ Len(loaded) = 1
    BY <1>2
  <2> QED BY <2>1, <2>2, Lists DEF Range
<1>5. PICK none : none = <<>>
  OBVIOUS
<1>6. none \in Seq(DOMAIN modules) /\ Len(none) = 0 /\ DOMAIN none = {}
  BY <1>5, EmptySeq
<1>7. /\ DOMAIN stack = {1} /\ stack[1] = [module |-> 1, targets |-> none] /\ Len(stack) = 1
      /\ stack # <<>>
  BY <1>2, <1>5
<1>8. stack \in Seq(Frames)
  <2>1. [module |-> 1, targets |-> none] \in Frames
    BY <1>4, <1>6 DEF Frames
  <2> QED BY <1>2, <1>5, <2>1
<1>9. LoadTypeOK
  BY <1>1, <1>3, <1>4, <1>8 DEF LoadTypeOK
<1>10. Closed = {}
  BY <1>4, <1>7 DEF Closed, OnStack
<1>11. \A i \in DOMAIN stack : WalkedSoFar(i)
  <2>1. Len(OpensWritten(1)) \in Nat
    BY <1>4, <1>9, ModuleFacts, ListLength
  <2> QED BY <1>6, <1>7, <2>1 DEF WalkedSoFar, Walks
<1> QED BY <1>2, <1>4, <1>7, <1>9, <1>10, <1>11
     DEF LoadInv, Bottom, Built, ChainIsSimple, ClosedStays, ClosedHasNoCircle, OpenedBefore, ParamsBound, NoTwins

LEMMA LoadRefuses ==
  ASSUME LoadInv, UNCHANGED <<project, loaded, modules, stack>>, phase' = "refused"
  PROVE  LoadInv'
  BY DEF LoadInv, LoadTypeOK, Files, Frames, Bottom, Built

LEMMA LoadRests ==
  ASSUME LoadInv, UNCHANGED <<project, loaded, modules, stack>>,
         phase' = phase \/ (Built /\ phase' # "loading")
  PROVE  LoadInv'
<1>1. /\ LoadTypeOK' <=> LoadTypeOK
      /\ ChainIsSimple' <=> ChainIsSimple
      /\ ClosedHasNoCircle' <=> ClosedHasNoCircle
      /\ ParamsBound' <=> ParamsBound
      /\ NoTwins' <=> NoTwins
      /\ OpenedBefore' <=> OpenedBefore
  BY DEF LoadTypeOK, Files, Frames, ChainIsSimple, ClosedHasNoCircle, ParamsBound, NoTwins, OpenedBefore,
         OpenedBy, OpensOf, Closed, OnStack, Text, args_of
<1>2. \A m, o, t : Leads(m, o, t)' <=> Leads(m, o, t)
  BY DEF Leads, Text, FoundAmong, search
<1>3. \A m : OpensWritten(m)' = OpensWritten(m)
  BY DEF OpensWritten, Text
<1>4. Closed' = Closed /\ \A i : Above(i)' = Above(i)
  BY DEF Closed, OnStack, Above
<1>5. \A m, ts, above : Walks(m, ts, above)' <=> Walks(m, ts, above)
  BY <1>2, <1>3, <1>4 DEF Walks
<1>6. \A i : WalkedSoFar(i)' <=> WalkedSoFar(i)
  BY <1>4, <1>5 DEF WalkedSoFar
<1>7. \A m : (ClosedEdges(m)' <=> ClosedEdges(m)) /\ OpensOf(m)' = OpensOf(m)
  BY <1>2, <1>3 DEF ClosedEdges, OpensOf
<1>8. ClosedStays' <=> ClosedStays
  BY <1>4, <1>7 DEF ClosedStays
<1>9. Bottom'
  BY DEF LoadInv, Bottom, Built
<1> QED BY <1>1, <1>6, <1>8, <1>9 DEF LoadInv, Built

LEMMA LoadStep == LoadInv /\ [Load \/ Afterwards]_loadVars => LoadInv'
<1> SUFFICES ASSUME LoadInv, [Load \/ Afterwards]_loadVars PROVE LoadInv'
  OBVIOUS
<1>1. CASE OpenRefused
  BY <1>1, LoadRefuses DEF OpenRefused, Refuse
<1>2. CASE OpenAgain
  BY <1>2, OpenAgainStep
<1>3. CASE OpenFresh
  BY <1>3, OpenFreshStep
<1>4. CASE CloseModule
  <2>1. CASE Clashing(compute_aliases(all_opens(HereText), integer_idx(HereText)), Top.targets)
    BY <1>4, <2>1, LoadRefuses DEF CloseModule, Refuse
  <2>2. CASE ~Clashing(compute_aliases(all_opens(HereText), integer_idx(HereText)), Top.targets)
    BY <1>4, <2>2, CloseStep DEF CloseLays
  <2> QED BY <2>1, <2>2
<1>5. CASE Afterwards
  BY <1>5, LoadRests DEF Afterwards
<1>6. CASE UNCHANGED loadVars
  BY <1>6, LoadRests DEF loadVars
<1> QED BY <1>1, <1>2, <1>3, <1>4, <1>5, <1>6 DEF Load

\* Once every module is closed: the least module out of reach would have been
\* opened by one before it.
LEMMA InvIsAsWritten == LoadInv => GraphIsAsWritten
<1> SUFFICES ASSUME LoadInv, Built PROVE NoCircle /\ NoTwins /\ FromTheRoot /\ EdgesAsWritten
  BY DEF GraphIsAsWritten
<1>1. /\ LoadTypeOK /\ stack = <<>> /\ ClosedStays /\ ClosedHasNoCircle /\ OpenedBefore /\ NoTwins
  BY DEF LoadInv, Bottom, Built
<1>2. DOMAIN stack = {}
  BY <1>1
<1>3. Closed = DOMAIN modules
  BY <1>2 DEF Closed, OnStack
<1>4. NoCircle
  BY <1>1, <1>3 DEF NoCircle, ClosedHasNoCircle
<1>5. EdgesAsWritten
  BY <1>1, <1>3 DEF EdgesAsWritten, ClosedStays, ClosedEdges, OpensWritten
<1>6. FromTheRoot
  <2> SUFFICES ASSUME NEW ms \in SUBSET DOMAIN modules, 1 \in ms,
                      \A m \in ms : OpensOf(m) \subseteq ms,
                      NEW x \in DOMAIN modules, x \notin ms
               PROVE  FALSE
    BY DEF FromTheRoot
  <2> DEFINE astray == DOMAIN modules \ ms
  <2>1. DOMAIN modules = 1..Len(modules) /\ Len(modules) \in Nat
    BY <1>1, ModuleFacts
  <2>2. astray \in SUBSET Nat /\ astray # {}
    BY <2>1
  <2>3. PICK m \in astray : \A k \in astray : m <= k
    <3> HIDE DEF astray
    <3> QED BY <2>2, LeastNatural
  <2>4. PICK y \in 1..(m - 1) : OpenedBy(m, y)
    BY <1>1, <2>3 DEF OpenedBefore
  <2>5. y \in DOMAIN modules /\ ~(m <= y)
    BY <2>1, <2>3, <2>4
  <2>6. y \in ms
    BY <2>3, <2>5
  <2>7. m \in OpensOf(y)
    BY <1>2, <2>4 DEF OpenedBy
  <2> QED BY <2>3, <2>6, <2>7
<1> QED BY <1>1, <1>4, <1>5, <1>6

\* Whatever the files open, what is loaded has no circle and no twin, every
\* module is reached from the root, and the edges are what the files say
\* (load.rs: process_opens, instantiate, build_edges).
THEOREM LoadIsAsWritten == LoadSpec => []GraphIsAsWritten
<1>1. LoadSpec => []LoadInv
  BY LoadInitInv, LoadStep, PTL DEF LoadSpec
<1> QED BY <1>1, InvIsAsWritten, PTL

============================================================================
