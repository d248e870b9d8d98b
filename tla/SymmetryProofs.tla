--------------------------- MODULE SymmetryProofs ---------------------------
(***************************************************************************)
(* The classes of atoms are the coarsest sound partition, for every        *)
(* universe and all bounds: atoms of a class can be renamed into each      *)
(* other, and atoms of two classes never can.  And the circuits keep, of   *)
(* the renamings of each instance, the least in the order of their cells.  *)
(***************************************************************************)
EXTENDS Symmetry, FiniteSetTheorems, SequenceTheorems, WellFoundedInduction, TLAPS

----------------------------------------------------------------------------
(* Tuples with one column removed.                                         *)

\* RemoveAt leaves the other columns, in their order.
LEMMA RestOfTuple ==
  ASSUME NEW S, NEW n \in Nat, NEW t \in [1..n -> S], NEW i \in 1..n
  PROVE  /\ Len(RemoveAt(t, i)) = n - 1
         /\ \A j \in 1..n-1 : RemoveAt(t, i)[j] = IF j < i THEN t[j] ELSE t[j + 1]
<1> DEFINE front == SubSeq(t, 1, i - 1)
           back  == SubSeq(t, i + 1, n)
<1>1. Len(t) = n /\ t \in Seq(S)
  OBVIOUS
<1>2. /\ front \in Seq(S)
      /\ Len(front) = i - 1
      /\ \A j \in 1..i-1 : front[j] = t[j]
  <2>1. \A j \in 1..(i - 1) : t[j] \in S
    OBVIOUS
  <2> QED BY <2>1, SubSeqProperties
<1>3. /\ back \in Seq(S)
      /\ Len(back) = n - i
      /\ \A j \in 1..n-i : back[j] = t[i + j]
  <2>1. \A j \in (i + 1)..n : t[j] \in S
    OBVIOUS
  <2>2. /\ back \in Seq(S)
        /\ Len(back) = IF i + 1 <= n THEN n - (i + 1) + 1 ELSE 0
        /\ \A j \in 1..n-(i + 1)+1 : back[j] = t[(i + 1) + j - 1]
    BY <2>1, SubSeqProperties
  <2> QED BY <2>2
<1> HIDE DEF front, back
<1>4. RemoveAt(t, i) = front \o back
  BY <1>1 DEF RemoveAt, front, back
<1>5. /\ Len(front \o back) = (i - 1) + (n - i)
      /\ \A j \in 1..(i - 1)+(n - i) :
           (front \o back)[j] = IF j <= i - 1 THEN front[j] ELSE back[j - (i - 1)]
  <2>1. /\ Len(front \o back) = Len(front) + Len(back)
        /\ \A j \in 1..Len(front) + Len(back) :
             (front \o back)[j] = IF j <= Len(front) THEN front[j] ELSE back[j - Len(front)]
    BY <1>2, <1>3, ConcatProperties, Zenon
  <2> QED BY <2>1, <1>2, <1>3
<1>6. ASSUME NEW j \in 1..n-1
      PROVE  RemoveAt(t, i)[j] = IF j < i THEN t[j] ELSE t[j + 1]
  <2>1. CASE j < i
    BY <2>1, <1>2, <1>4, <1>5
  <2>2. CASE ~(j < i)
    <3>1. j - (i - 1) \in 1..n-i /\ i + (j - (i - 1)) = j + 1
      BY <2>2
    <3>2. RemoveAt(t, i)[j] = back[j - (i - 1)]
      BY <2>2, <1>4, <1>5
    <3> QED BY <2>2, <3>1, <3>2, <1>3
  <2> QED BY <2>1, <2>2
<1> QED BY <1>4, <1>5, <1>6

\* The n-tuples of atoms and their columns, as sets that the provers need not look into.
Columns(n)  == 1..n
AtomRows(n) == [1..n -> Atoms]

\* Two tuples that agree once a column is removed agree on the other columns.
LEMMA SameRest ==
  ASSUME NEW n \in Nat, NEW t \in AtomRows(n), NEW u \in AtomRows(n), NEW i \in Columns(n),
         RemoveAt(t, i) = RemoveAt(u, i)
  PROVE  \A j \in Columns(n) : j # i => t[j] = u[j]
<1> USE DEF Columns, AtomRows
<1> SUFFICES ASSUME NEW j \in 1..n, j # i PROVE t[j] = u[j]
  OBVIOUS
<1>1. CASE j < i
  <2>1. j \in 1..n-1
    BY <1>1
  <2>2. RemoveAt(t, i)[j] = t[j] /\ RemoveAt(u, i)[j] = u[j]
    BY <1>1, <2>1, RestOfTuple
  <2> QED BY <2>2
<1>2. CASE j > i
  <2>1. j - 1 \in 1..n-1 /\ ~(j - 1 < i) /\ (j - 1) + 1 = j
    BY <1>2
  <2>2. /\ RemoveAt(t, i)[j - 1] = t[(j - 1) + 1]
        /\ RemoveAt(u, i)[j - 1] = u[(j - 1) + 1]
    BY <2>1, RestOfTuple
  <2> QED BY <2>1, <2>2
<1> QED BY <1>1, <1>2

LEMMA SameColumns ==
  ASSUME NEW n \in Nat, NEW t \in AtomRows(n), NEW u \in AtomRows(n), NEW i \in Columns(n),
         \A j \in Columns(n) : j # i => t[j] = u[j]
  PROVE  RemoveAt(t, i) = RemoveAt(u, i)
<1> USE DEF Columns, AtomRows
<1>1. /\ RemoveAt(t, i) \in Seq(Atoms)
      /\ RemoveAt(u, i) \in Seq(Atoms)
  <2>1. \A v \in [1..n -> Atoms] : Len(v) = n
    OBVIOUS
  <2>2. ASSUME NEW v \in [1..n -> Atoms]
        PROVE  SubSeq(v, 1, i - 1) \in Seq(Atoms) /\ SubSeq(v, i + 1, n) \in Seq(Atoms)
    <3>1. /\ \A j \in 1..(i - 1) : v[j] \in Atoms
          /\ \A j \in (i + 1)..n : v[j] \in Atoms
      OBVIOUS
    <3> QED BY <3>1, SubSeqProperties
  <2> QED BY <2>1, <2>2, ConcatProperties DEF RemoveAt
<1>2. Len(RemoveAt(t, i)) = n - 1 /\ Len(RemoveAt(u, i)) = n - 1
  BY RestOfTuple
<1>3. ASSUME NEW j \in 1..n-1
      PROVE  RemoveAt(t, i)[j] = RemoveAt(u, i)[j]
  <2>1. CASE j < i
    <3>1. j \in 1..n /\ j # i
      BY <2>1
    <3>2. RemoveAt(t, i)[j] = t[j] /\ RemoveAt(u, i)[j] = u[j]
      BY <2>1, RestOfTuple
    <3> QED BY <3>1, <3>2
  <2>2. CASE ~(j < i)
    <3>1. j + 1 \in 1..n /\ j + 1 # i
      BY <2>2
    <3> QED BY <2>2, <3>1, RestOfTuple
  <2> QED BY <2>1, <2>2
<1> QED BY <1>1, <1>2, <1>3, SeqEqual

LEMMA ContinuationsAre ==
  ASSUME NEW tuples, NEW a, NEW i, NEW rest
  PROVE  <<i, rest>> \in Continuations(tuples, a)
           <=> \E t \in tuples : i \in DOMAIN t /\ t[i] = a /\ rest = RemoveAt(t, i)
  BY DEF Continuations

----------------------------------------------------------------------------
(* Atoms with the same continuations.                                      *)

\* One column at a time: a tuple stays a tuple of the set when its atom at a column
\* gives way to one with the same continuations.
LEMMA Continues ==
  ASSUME NEW n \in Nat, NEW tuples \in SUBSET AtomRows(n), NEW c \in Atoms,
         NEW t \in tuples, NEW i \in Columns(n),
         Continuations(tuples, t[i]) = Continuations(tuples, c)
  PROVE  [t EXCEPT ![i] = c] \in tuples
<1>1. <<i, RemoveAt(t, i)>> \in Continuations(tuples, c)
  <2>1. i \in DOMAIN t
    BY DEF AtomRows, Columns
  <2> QED BY <2>1, ContinuationsAre
<1>2. PICK u \in tuples : i \in DOMAIN u /\ u[i] = c /\ RemoveAt(t, i) = RemoveAt(u, i)
  BY <1>1, ContinuationsAre
<1>3. t \in AtomRows(n) /\ u \in AtomRows(n)
  OBVIOUS
<1>4. \A j \in Columns(n) : j # i => t[j] = u[j]
  BY <1>2, <1>3, SameRest
<1>5. u = [t EXCEPT ![i] = c]
  BY <1>2, <1>3, <1>4 DEF AtomRows, Columns
<1> QED BY <1>5

\* Every set of naturals that has a member has a least one.
LEMMA LeastNatural ==
  ASSUME NEW T \in SUBSET Nat, T # {}
  PROVE  \E m \in T : \A k \in T : m <= k
<1>1. PICK m \in T : \A k \in T : <<k, m>> \notin OpToRel(<, Nat)
  BY NatLessThanWellFounded, WFMin
<1>2. \A k \in T : ~(k < m)
  BY <1>1 DEF OpToRel
<1> QED BY <1>2

\* And so for every column at once: among tuples over atoms with the same continuations,
\* a set has all or none.
LEMMA ProfilesDecide ==
  ASSUME NEW n \in Nat, NEW tuples \in SUBSET AtomRows(n),
         NEW t \in tuples, NEW u \in AtomRows(n),
         \A i \in Columns(n) : Continuations(tuples, t[i]) = Continuations(tuples, u[i])
  PROVE  u \in tuples
<1> DEFINE mixed(m) == [i \in Columns(n) |-> IF i <= m THEN u[i] ELSE t[i]]
           astray == {m \in 0..n : mixed(m) \notin tuples}
<1>1. mixed(0) \in tuples
  <2>1. mixed(0) = t
    BY DEF Columns, AtomRows
  <2> QED BY <2>1
<1>2. mixed(n) = u
  BY DEF Columns, AtomRows
<1>3. ASSUME NEW m \in 1..n, mixed(m - 1) \in tuples
      PROVE  mixed(m) \in tuples
  <2>1. m \in Columns(n) /\ \A i \in Columns(n) : i \in Int
    BY DEF Columns
  <2>2. mixed(m - 1)[m] = t[m] /\ u[m] \in Atoms
    BY <2>1 DEF AtomRows, Columns
  <2>3. mixed(m) = [mixed(m - 1) EXCEPT ![m] = u[m]]
    <3>1. ASSUME NEW i \in Columns(n)
          PROVE  mixed(m)[i] = IF i = m THEN u[m] ELSE mixed(m - 1)[i]
      BY <2>1
    <3> QED BY <3>1
  <2> HIDE DEF mixed
  <2>4. Continuations(tuples, mixed(m - 1)[m]) = Continuations(tuples, u[m])
    BY <2>1, <2>2
  <2> QED BY <1>3, <2>1, <2>2, <2>3, <2>4, Continues
<1> HIDE DEF mixed
<1>4. ASSUME astray # {} PROVE FALSE
  <2>1. PICK m \in astray : \A k \in astray : m <= k
    <3>1. astray \in SUBSET Nat
      OBVIOUS
    <3> QED BY <1>4, <3>1, LeastNatural
  <2>2. m \in 1..n /\ m - 1 \in 0..n /\ m - 1 \notin astray
    BY <1>1, <2>1
  <2> QED BY <1>3, <2>1, <2>2
<1>5. n \in 0..n /\ n \notin astray
  BY <1>4
<1> QED BY <1>2, <1>5

\* And of none but those: a set that is whole over the values of f has the same
\* continuations for the atoms of one value.
LEMMA ValuesDecide ==
  ASSUME NEW n \in Nat, NEW tuples \in SUBSET AtomRows(n), NEW f, NEW a \in Atoms, NEW c \in Atoms,
         f[a] = f[c],
         \A t \in tuples : \A u \in [DOMAIN t -> Atoms] :
           (\A i \in DOMAIN t : f[u[i]] = f[t[i]]) => u \in tuples
  PROVE  Continuations(tuples, a) \subseteq Continuations(tuples, c)
<1> SUFFICES ASSUME NEW x \in Continuations(tuples, a)
             PROVE  x \in Continuations(tuples, c)
  OBVIOUS
<1>0. PICK t \in tuples : \E i \in DOMAIN t : t[i] = a /\ x = <<i, RemoveAt(t, i)>>
  BY DEF Continuations
<1>1. PICK i \in DOMAIN t : t[i] = a /\ x = <<i, RemoveAt(t, i)>>
  BY <1>0
<1> DEFINE u == [t EXCEPT ![i] = c]
<1>2. t \in AtomRows(n) /\ DOMAIN t = Columns(n) /\ u \in AtomRows(n) /\ u \in [DOMAIN t -> Atoms]
  BY DEF AtomRows, Columns
<1>3. u \in tuples
  <2>1. \A j \in DOMAIN t : f[u[j]] = f[t[j]]
    BY <1>1, <1>2 DEF AtomRows, Columns
  <2> QED BY <1>2, <2>1
<1>4. u[i] = c /\ i \in DOMAIN u /\ \A j \in Columns(n) : j # i => t[j] = u[j]
  BY <1>1, <1>2 DEF AtomRows, Columns
<1> HIDE DEF u
<1>5. RemoveAt(t, i) = RemoveAt(u, i)
  BY <1>1, <1>2, <1>4, SameColumns
<1> QED BY <1>1, <1>3, <1>4, <1>5, ContinuationsAre

----------------------------------------------------------------------------
(* Renamings.                                                              *)

\* What is one-to-one on the finitely many atoms reaches every atom.
LEMMA OneToOneIsOnto ==
  ASSUME NEW f \in [Atoms -> Atoms], \A a, c \in Atoms : f[a] = f[c] => a = c
  PROVE  \A c \in Atoms : \E a \in Atoms : f[a] = c
<1>1. f \in Injection(Atoms, Atoms)
  BY DEF Injection, IsInjective
<1>2. f \in Surjection(Atoms, Atoms)
  BY <1>1, FS_Injection, AtomsAssumption
<1> QED BY <1>2 DEF Surjection

\* A renaming among atoms with the same continuations does not move the set.
LEMMA ImageKept ==
  ASSUME NEW n \in Nat, NEW tuples \in SUBSET AtomRows(n), NEW f \in [Atoms -> Atoms],
         \A a, c \in Atoms : f[a] = f[c] => a = c,
         \A a \in Atoms : Continuations(tuples, f[a]) = Continuations(tuples, a)
  PROVE  Image(f, tuples) = tuples
<1>1. \A t \in tuples : t \in AtomRows(n) /\ DOMAIN t = Columns(n)
                        /\ \A i \in Columns(n) : t[i] \in Atoms
  BY DEF AtomRows, Columns
<1>2. ASSUME NEW t \in tuples
      PROVE  [i \in DOMAIN t |-> f[t[i]]] \in tuples
  <2> DEFINE u == [i \in Columns(n) |-> f[t[i]]]
  <2>1. u \in AtomRows(n) /\ u = [i \in DOMAIN t |-> f[t[i]]]
    BY <1>1 DEF AtomRows, Columns
  <2>2. \A i \in Columns(n) : Continuations(tuples, t[i]) = Continuations(tuples, u[i])
    BY <1>1
  <2> HIDE DEF u
  <2> QED BY <2>1, <2>2, ProfilesDecide
<1>3. ASSUME NEW t \in tuples
      PROVE  \E u \in tuples : t = [i \in DOMAIN u |-> f[u[i]]]
  <2> DEFINE origin(c) == CHOOSE a \in Atoms : f[a] = c
             u == [i \in Columns(n) |-> origin(t[i])]
  <2>1. \A c \in Atoms : origin(c) \in Atoms /\ f[origin(c)] = c
    BY OneToOneIsOnto
  <2> HIDE DEF origin
  <2>2. u \in AtomRows(n)
    BY <1>1, <2>1 DEF AtomRows, Columns
  <2>3. \A i \in Columns(n) : u[i] \in Atoms /\ f[u[i]] = t[i]
    BY <1>1, <2>1
  <2>4. t = [i \in DOMAIN u |-> f[u[i]]]
    BY <1>1, <2>3 DEF AtomRows
  <2> HIDE DEF u
  <2>5. \A i \in Columns(n) : Continuations(tuples, t[i]) = Continuations(tuples, u[i])
    BY <2>3
  <2>6. u \in tuples
    BY <2>2, <2>5, ProfilesDecide
  <2> QED BY <2>4, <2>6
<1> QED BY <1>2, <1>3 DEF Image

----------------------------------------------------------------------------
(* The bounds of a problem.                                                *)

LEMMA ProblemFields ==
  ASSUME NEW b \in Problems, NEW r \in Rels
  PROVE  /\ Arity[r] \in Nat
         /\ b.lower[r] \subseteq b.upper[r]
         /\ b.upper[r] \in SUBSET AtomRows(Arity[r])
         /\ b.lower[r] \in SUBSET AtomRows(Arity[r])
         /\ Cardinality(b.lower[r]) < Cardinality(b.upper[r]) \/ b.lower[r] = b.upper[r]
<1>1. /\ b.lower[r] \subseteq b.upper[r]
      /\ b.upper[r] \subseteq AtomRows(Arity[r])
      /\ IsFiniteSet(b.upper[r])
  BY ProblemsAssumption DEF AtomRows, Tuples
<1>2. Arity[r] \in Nat
  BY RelsAssumption
<1>3. /\ Cardinality(b.lower[r]) <= Cardinality(b.upper[r])
      /\ Cardinality(b.lower[r]) = Cardinality(b.upper[r]) => b.lower[r] = b.upper[r]
      /\ Cardinality(b.lower[r]) \in Nat /\ Cardinality(b.upper[r]) \in Nat
  BY <1>1, FS_Subset, FS_CardinalityType
<1> QED BY <1>1, <1>2, <1>3

\* Each set that the partition is refined by has tuples of one length.
LEMMA RefiningRows ==
  ASSUME NEW b \in Problems, NEW g, NEW tuples \in Refining(b, g)
  PROVE  \E n \in Nat : tuples \in SUBSET AtomRows(n)
<1>1. ASSUME NEW retained \in SUBSET Rels, tuples \in BoundSets(b, retained)
      PROVE  \E n \in Nat : tuples \in SUBSET AtomRows(n)
  <2>1. \E r \in Rels : tuples = b.upper[r] \/ tuples = b.lower[r]
    BY <1>1 DEF BoundSets
  <2> QED BY <2>1, ProblemFields
<1>2. ASSUME tuples \in Singletons(IntStart)
      PROVE  tuples \in SUBSET AtomRows(1)
  <2>1. PICK i \in Atoms : tuples = {<<i>>}
    BY <1>2 DEF Singletons
  <2> QED BY <2>1 DEF AtomRows
<1>3. \/ \E retained \in SUBSET Rels : tuples \in BoundSets(b, retained)
      \/ tuples \in Singletons(IntStart)
  BY DEF Refining
<1> QED BY <1>1, <1>2, <1>3

\* A renaming that moves none of these sets does not move the bounds that they are made of.
LEMMA RetainedKept ==
  ASSUME NEW b \in Problems, NEW f, NEW retained \in SUBSET Rels, NEW r \in retained,
         \A tuples \in BoundSets(b, retained) : Image(f, tuples) = tuples
  PROVE  Image(f, b.lower[r]) = b.lower[r] /\ Image(f, b.upper[r]) = b.upper[r]
<1>1. Image(f, {}) = {}
  BY DEF Image
<1>2. b.upper[r] = {} \/ b.upper[r] \in BoundSets(b, retained)
  BY DEF BoundSets
<1>3. \/ b.lower[r] = {} \/ b.lower[r] \in BoundSets(b, retained)
      \/ b.lower[r] = b.upper[r]
  BY ProblemFields DEF BoundSets
<1> QED BY <1>1, <1>2, <1>3

\* Nor those of the relations that do not refine the partition.
LEMMA BuiltinsKept ==
  ASSUME NEW b \in Problems, NEW f \in [Atoms -> Atoms], NEW r \in Builtins,
         \A tuples \in Refining(b, "static") : Image(f, tuples) = tuples
  PROVE  Image(f, b.lower[r]) = b.lower[r] /\ Image(f, b.upper[r]) = b.upper[r]
<1>1. ASSUME NEW a \in Atoms, a >= IntStart
      PROVE  f[a] = a
  <2>1. {<<a>>} \in Refining(b, "static")
    BY <1>1 DEF Refining, Singletons
  <2>2. Image(f, {<<a>>}) = {<<f[a]>>}
    BY DEF Image
  <2>3. <<f[a]>> = <<a>>
    BY <2>1, <2>2
  <2> QED BY <2>3
<1>2. ASSUME NEW t \in b.upper[r]
      PROVE  [i \in DOMAIN t |-> f[t[i]]] = t
  <2>1. r \in Rels
    BY RelsAssumption
  <2>2. t \in AtomRows(Arity[r])
    BY <2>1, ProblemFields
  <2>3. \A i \in DOMAIN t : t[i] \in Atoms /\ t[i] >= IntStart
    BY <2>2, BuiltinsAssumption DEF AtomRows
  <2> QED BY <1>1, <2>2, <2>3 DEF AtomRows
<1>3. b.lower[r] \subseteq b.upper[r]
  BY ProblemFields, RelsAssumption
<1> QED BY <1>2, <1>3 DEF Image

LEMMA MetaFieldsKept ==
  ASSUME NEW b \in Problems, NEW f \in [Atoms -> Atoms], NEW r \in MetaFields,
         \A a, c \in Atoms : f[a] = f[c] => a = c,
         \A tuples \in Refining(b, "static") : Image(f, tuples) = tuples
  PROVE  Image(f, b.lower[r]) = b.lower[r] /\ Image(f, b.upper[r]) = b.upper[r]
<1> DEFINE origin(c) == CHOOSE a \in Atoms : f[a] = c
<1>1. \A c \in Atoms : origin(c) \in Atoms /\ f[origin(c)] = c
  BY OneToOneIsOnto
<1> HIDE DEF origin
<1>2. ASSUME NEW tuples \in Refining(b, "static"), NEW a \in Atoms
      PROVE  <<a>> \in tuples <=> <<f[a]>> \in tuples
  <2>1. ASSUME <<a>> \in tuples PROVE <<f[a]>> \in tuples
    <3>1. [i \in DOMAIN <<a>> |-> f[<<a>>[i]]] \in Image(f, tuples)
      BY <2>1 DEF Image
    <3>2. [i \in DOMAIN <<a>> |-> f[<<a>>[i]]] = <<f[a]>>
      OBVIOUS
    <3> QED BY <3>1, <3>2
  <2>2. ASSUME <<f[a]>> \in tuples PROVE <<a>> \in tuples
    <3>1. PICK n \in Nat : tuples \in SUBSET AtomRows(n)
      BY RefiningRows
    <3>2. <<f[a]>> \in Image(f, tuples)
      BY <2>2
    <3>3. PICK t \in tuples : <<f[a]>> = [i \in DOMAIN t |-> f[t[i]]]
      BY <3>2 DEF Image
    <3>4. t \in [1..n -> Atoms]
      BY <3>1 DEF AtomRows
    <3>5. DOMAIN t = 1..1
      BY <3>3, <3>4
    <3>6. f[a] = f[t[1]] /\ t[1] \in Atoms /\ t \in [1..1 -> Atoms]
      <4>1. 1 \in DOMAIN t /\ 1..n = DOMAIN t
        <5>1. 1 \in 1..1
          OBVIOUS
        <5>2. DOMAIN t = 1..n
          BY <3>4
        <5> QED BY <3>5, <5>1, <5>2
      <4>2. <<f[a]>>[1] = [i \in DOMAIN t |-> f[t[i]]][1]
        BY <3>3
      <4>3. f[a] = f[t[1]]
        BY <4>1, <4>2
      <4> QED BY <3>4, <3>5, <4>1, <4>3
    <3>7. t = <<a>>
      BY <3>6
    <3> QED BY <3>7
  <2> QED BY <2>1, <2>2
<1>3. ASSUME NEW t \in b.upper[r]
      PROVE  \A u \in [DOMAIN t -> Atoms] :
               (\A i \in DOMAIN t : u[i] = f[t[i]] \/ t[i] = f[u[i]]) => u \in b.upper[r]
  <2>1. PICK columns \in [DOMAIN t -> Refining(b, "static")] :
               t \in Product(columns) /\ Product(columns) \subseteq b.upper[r]
    BY MetaFieldsAssumption
  <2>2. ASSUME NEW u \in [DOMAIN t -> Atoms],
               \A i \in DOMAIN t : u[i] = f[t[i]] \/ t[i] = f[u[i]]
        PROVE  u \in Product(columns)
    <3>1. \A i \in DOMAIN t : <<t[i]>> \in columns[i] /\ t[i] \in Atoms
      BY <2>1 DEF Product
    <3>2. \A i \in DOMAIN t : <<u[i]>> \in columns[i]
      BY <1>2, <2>2, <3>1
    <3> QED BY <3>2 DEF Product
  <2> QED BY <2>1, <2>2
<1>4. \A t \in b.upper[r] : t \in [DOMAIN t -> Atoms]
  BY ProblemFields, RelsAssumption DEF AtomRows
<1>5. ASSUME NEW t \in b.upper[r]
      PROVE  [i \in DOMAIN t |-> f[t[i]]] \in b.upper[r]
  BY <1>3, <1>4
<1>6. ASSUME NEW t \in b.upper[r]
      PROVE  \E u \in b.upper[r] : t = [i \in DOMAIN u |-> f[u[i]]]
  <2> DEFINE u == [i \in DOMAIN t |-> origin(t[i])]
  <2>1. u \in [DOMAIN t -> Atoms] /\ \A i \in DOMAIN t : t[i] = f[u[i]]
    BY <1>1, <1>4
  <2>2. t = [i \in DOMAIN u |-> f[u[i]]]
    BY <1>4, <2>1
  <2> QED BY <1>3, <2>1, <2>2
<1>7. b.lower[r] = {} /\ Image(f, {}) = {}
  BY MetaFieldsAssumption DEF Image
<1> QED BY <1>5, <1>6, <1>7 DEF Image

LEMMA SkolemsKept ==
  ASSUME NEW b \in Problems, NEW f \in [Atoms -> Atoms], NEW r \in Skolems,
         \A a, c \in Atoms : f[a] = f[c] => a = c,
         \A tuples \in Refining(b, "static") : Image(f, tuples) = tuples
  PROVE  Image(f, b.lower[r]) = b.lower[r] /\ Image(f, b.upper[r]) = b.upper[r]
<1>1. b.lower[r] = {} /\ Image(f, {}) = {}
  BY SkolemsAssumption DEF Image
<1>2. Image(f, b.upper[r]) = b.upper[r]
  BY SkolemsAssumption
<1> QED BY <1>1, <1>2

----------------------------------------------------------------------------
(* The classes.                                                            *)

\* The plan never changes.
Planned ==
  /\ bounds \in Problems
  /\ goal = "folded" => \A r \in MetaFields : ~Free(bounds, r)
  /\ class = [a \in Atoms |-> ClassOf(Refining(bounds, goal), a)]

LEMMA RenamingsKeep ==
  ASSUME Planned, NEW f \in Renamings, NEW tuples \in Refining(bounds, goal)
  PROVE  Image(f, tuples) = tuples
<1>1. PICK n \in Nat : tuples \in SUBSET AtomRows(n)
  BY RefiningRows DEF Planned
<1>2. /\ f \in [Atoms -> Atoms]
      /\ \A a, c \in Atoms : f[a] = f[c] => a = c
      /\ \A a \in Atoms : f[a] \in class[a]
  BY DEF Renamings
<1>3. \A a \in Atoms : Continuations(tuples, f[a]) = Continuations(tuples, a)
  BY <1>2 DEF Planned, ClassOf
<1> QED BY <1>1, <1>2, <1>3, ImageKept

LEMMA ClassesAreSymmetric == Planned => Symmetric
<1> SUFFICES ASSUME Planned, NEW f \in Renamings, NEW r \in Rels,
                    goal # "folded" \/ Free(bounds, r)
             PROVE  /\ Image(f, bounds.lower[r]) = bounds.lower[r]
                    /\ Image(f, bounds.upper[r]) = bounds.upper[r]
  BY DEF Symmetric
<1>1. /\ f \in [Atoms -> Atoms]
      /\ \A a, c \in Atoms : f[a] = f[c] => a = c
      /\ bounds \in Problems
  BY DEF Renamings, Planned
<1>2. CASE goal = "folded"
  <2> DEFINE retained == {s \in Rels : Free(bounds, s) /\ s \notin MetaFields}
  <2>1. r \in retained /\ retained \in SUBSET Rels
    BY <1>2 DEF Planned
  <2>2. \A tuples \in BoundSets(bounds, retained) : Image(f, tuples) = tuples
    BY <1>2, RenamingsKeep DEF Refining
  <2> HIDE DEF retained
  <2> QED BY <1>1, <2>1, <2>2, RetainedKept
<1>3. CASE goal # "folded"
  <2>1. \A tuples \in Refining(bounds, "static") : Image(f, tuples) = tuples
    <3>1. Refining(bounds, "static") = Refining(bounds, goal)
      BY <1>3 DEF Refining
    <3> QED BY <3>1, RenamingsKeep
  <2>2. CASE RefinesOn(r)
    <3> DEFINE retained == {s \in Rels : RefinesOn(s)}
    <3>1. r \in retained /\ retained \in SUBSET Rels
      BY <2>2
    <3>2. \A tuples \in BoundSets(bounds, retained) : Image(f, tuples) = tuples
      BY <2>1 DEF Refining
    <3> HIDE DEF retained
    <3> QED BY <1>1, <3>1, <3>2, RetainedKept
  <2>3. CASE ~RefinesOn(r)
    <3>1. r \in Skolems \/ r \in Builtins \/ r \in MetaFields
      BY <2>3 DEF RefinesOn
    <3> QED BY <1>1, <2>1, <3>1, SkolemsKept, BuiltinsKept, MetaFieldsKept
  <2> QED BY <2>2, <2>3
<1> QED BY <1>2, <1>3

LEMMA ClassesAreCoarsest == Planned => Coarsest
<1> SUFFICES ASSUME Planned, NEW f \in [Atoms -> Atoms], NEW a \in Atoms, NEW c \in Atoms,
                    f[a] = f[c],
                    \A tuples \in Refining(bounds, goal) : \A t \in tuples :
                      \A u \in [DOMAIN t -> Atoms] :
                        (\A i \in DOMAIN t : f[u[i]] = f[t[i]]) => u \in tuples
             PROVE  c \in class[a]
  BY DEF Coarsest
<1>1. ASSUME NEW tuples \in Refining(bounds, goal)
      PROVE  Continuations(tuples, c) = Continuations(tuples, a)
  <2>1. PICK n \in Nat : tuples \in SUBSET AtomRows(n)
    BY RefiningRows DEF Planned
  <2>2. \A t \in tuples : \A u \in [DOMAIN t -> Atoms] :
          (\A i \in DOMAIN t : f[u[i]] = f[t[i]]) => u \in tuples
    OBVIOUS
  <2>3. Continuations(tuples, a) \subseteq Continuations(tuples, c)
    BY <2>1, <2>2, ValuesDecide
  <2>4. Continuations(tuples, c) \subseteq Continuations(tuples, a)
    BY <2>1, <2>2, ValuesDecide
  <2> QED BY <2>3, <2>4
<1> QED BY <1>1 DEF Planned, ClassOf

\* The classes of the plan are the coarsest sound partition (detect_partition,
\* trivial_partition): no renaming within them moves a bound of the problem, those of the
\* relations left out of the partition included, and no partition over which every bound
\* is a union of products of its parts joins what they separate.
THEOREM PartitionIsExact == Spec => []ClassesExact
<1>1. Init => Planned
  BY DEF Init, Planned
<1>2. Planned /\ [Next]_vars => Planned'
  BY DEF Planned, Next, Break, vars, Free
<1>3. Planned => ClassesExact
  BY ClassesAreSymmetric, ClassesAreCoarsest DEF ClassesExact
<1> QED BY <1>1, <1>2, <1>3, PTL DEF Spec

----------------------------------------------------------------------------
(* The order of the places.                                                *)

LEMMA LexBeforeIsOrder ==
  ASSUME NEW n \in Nat, NEW t \in AtomRows(n), NEW u \in AtomRows(n)
  PROVE  /\ ~LexBefore(t, t)
         /\ t # u => LexBefore(t, u) \/ LexBefore(u, t)
         /\ \A v \in AtomRows(n) : LexBefore(t, u) /\ LexBefore(u, v) => LexBefore(t, v)
<1>1. \A w \in AtomRows(n) : DOMAIN w = 1..n /\ \A i \in 1..n : w[i] \in Int
  BY AtomsAssumption DEF AtomRows
<1>2. ~LexBefore(t, t)
  BY <1>1 DEF LexBefore
<1>3. ASSUME t # u
      PROVE  LexBefore(t, u) \/ LexBefore(u, t)
  <2> DEFINE apart == {i \in 1..n : t[i] # u[i]}
  <2>1. apart # {} /\ apart \in SUBSET Nat
    BY <1>3 DEF AtomRows
  <2> HIDE DEF apart
  <2>2. PICK i \in apart : \A j \in apart : i <= j
    BY <2>1, LeastNatural
  <2>3. i \in 1..n /\ t[i] # u[i] /\ \A j \in 1..i-1 : t[j] = u[j]
    BY <2>2 DEF apart
  <2>4. t[i] < u[i] \/ u[i] < t[i]
    BY <1>1, <2>3
  <2> QED BY <1>1, <2>3, <2>4 DEF LexBefore
<1>4. ASSUME NEW v \in AtomRows(n), LexBefore(t, u), LexBefore(u, v)
      PROVE  LexBefore(t, v)
  <2>1. PICK i \in 1..n : t[i] < u[i] /\ \A j \in 1..i-1 : t[j] = u[j]
    BY <1>1, <1>4 DEF LexBefore
  <2>2. PICK k \in 1..n : u[k] < v[k] /\ \A j \in 1..k-1 : u[j] = v[j]
    BY <1>1, <1>4 DEF LexBefore
  <2>3. CASE i <= k
    <3>1. t[i] < v[i]
      <4>1. u[i] <= v[i]
        BY <1>1, <2>2, <2>3
      <4> QED BY <1>1, <2>1, <4>1
    <3>2. \A j \in 1..i-1 : t[j] = v[j]
      BY <2>1, <2>2, <2>3
    <3> QED BY <1>1, <3>1, <3>2 DEF LexBefore
  <2>4. CASE k < i
    <3>1. t[k] < v[k] /\ \A j \in 1..k-1 : t[j] = v[j]
      BY <2>1, <2>2, <2>4
    <3> QED BY <1>1, <3>1 DEF LexBefore
  <2> QED BY <2>3, <2>4
<1> QED BY <1>2, <1>3, <1>4

\* Where there may be a cell at all.
Places(b) == UNION {{r} \X b.upper[r] : r \in Rels}

LEMMA PlaceIs ==
  ASSUME NEW b \in Problems, NEW x \in Places(b)
  PROVE  /\ x = <<x[1], x[2]>>
         /\ x[1] \in Rels
         /\ x[2] \in b.upper[x[1]]
         /\ x[2] \in AtomRows(Arity[x[1]])
  BY ProblemFields DEF Places

LEMMA EarlierIsOrder ==
  ASSUME NEW b \in Problems, NEW x \in Places(b), NEW y \in Places(b)
  PROVE  /\ ~Earlier(x, x)
         /\ x # y => Earlier(x, y) \/ Earlier(y, x)
         /\ \A z \in Places(b) : Earlier(x, y) /\ Earlier(y, z) => Earlier(x, z)
<1>1. \A r \in Rels : Arity[r] \in Nat /\ Rank[r] \in Int
  BY RelsAssumption
<1>2. ~Earlier(x, x)
  BY <1>1, PlaceIs, LexBeforeIsOrder DEF Earlier, RelBefore
<1>3. ASSUME x # y
      PROVE  Earlier(x, y) \/ Earlier(y, x)
  <2>1. CASE x[1] = y[1]
    <3>1. x[2] # y[2] /\ x[2] \in AtomRows(Arity[x[1]]) /\ y[2] \in AtomRows(Arity[x[1]])
      BY <1>3, <2>1, PlaceIs
    <3> QED BY <1>1, <2>1, <3>1, PlaceIs, LexBeforeIsOrder DEF Earlier
  <2>2. CASE x[1] # y[1]
    <3>1. x[1] \in Rels /\ y[1] \in Rels /\ Rank[x[1]] # Rank[y[1]]
      BY <2>2, PlaceIs, RelsAssumption
    <3> QED BY <1>1, <3>1 DEF Earlier, RelBefore
  <2> QED BY <2>1, <2>2
<1>4. ASSUME NEW z \in Places(b), Earlier(x, y), Earlier(y, z)
      PROVE  Earlier(x, z)
  <2>1. x[1] \in Rels /\ y[1] \in Rels /\ z[1] \in Rels
    BY PlaceIs
  <2>2. CASE RelBefore(x[1], y[1]) \/ RelBefore(y[1], z[1])
    BY <1>1, <1>4, <2>1, <2>2 DEF Earlier, RelBefore
  <2>3. CASE ~RelBefore(x[1], y[1]) /\ ~RelBefore(y[1], z[1])
    <3>1. x[1] = y[1] /\ y[1] = z[1] /\ LexBefore(x[2], y[2]) /\ LexBefore(y[2], z[2])
      BY <1>4, <2>3 DEF Earlier
    <3>2. /\ x[2] \in AtomRows(Arity[x[1]]) /\ y[2] \in AtomRows(Arity[x[1]])
          /\ z[2] \in AtomRows(Arity[x[1]])
      BY <3>1, PlaceIs
    <3>3. LexBefore(x[2], z[2])
      BY <1>1, <2>1, <3>1, <3>2, LexBeforeIsOrder
    <3> QED BY <3>1, <3>3 DEF Earlier
  <2> QED BY <2>2, <2>3
<1> QED BY <1>2, <1>3, <1>4

LEMMA PlacesAreFinite ==
  ASSUME NEW b \in Problems
  PROVE  IsFiniteSet(Places(b))
<1> DEFINE part == [r \in Rels |-> {r} \X b.upper[r]]
           parts == {part[r] : r \in Rels}
<1>1. \A r \in Rels : IsFiniteSet({r} \X b.upper[r])
  BY ProblemsAssumption, FS_Singleton, FS_Product
<1>2. part \in Surjection(Rels, parts)
  BY DEF Surjection
<1>3. IsFiniteSet(parts)
  BY <1>2, FS_Surjection, RelsAssumption
<1>4. \A p \in parts : IsFiniteSet(p)
  BY <1>1
<1>5. Places(b) = UNION parts
  BY DEF Places
<1> HIDE DEF parts
<1> QED BY <1>3, <1>4, <1>5, FS_UNION

----------------------------------------------------------------------------
(* The order of the instances.                                             *)

\* The first place at which they differ, among those that a circuit may compare, is
\* false in the lesser.
Less(places, I, J) ==
  \E x \in places : /\ x \notin I /\ x \in J
                    /\ \A y \in places : Earlier(y, x) => (y \in I <=> y \in J)

LEMMA LessIsOrder ==
  ASSUME NEW b \in Problems, NEW places \in SUBSET Places(b), NEW I, NEW J, NEW K
  PROVE  /\ ~Less(places, I, I)
         /\ Less(places, I, J) /\ Less(places, J, K) => Less(places, I, K)
<1>1. ~Less(places, I, I)
  BY DEF Less
<1>2. ASSUME Less(places, I, J), Less(places, J, K)
      PROVE  Less(places, I, K)
  <2>1. PICK x \in places : /\ x \notin I /\ x \in J
                            /\ \A y \in places : Earlier(y, x) => (y \in I <=> y \in J)
    BY <1>2 DEF Less
  <2>2. PICK z \in places : /\ z \notin J /\ z \in K
                            /\ \A y \in places : Earlier(y, z) => (y \in J <=> y \in K)
    BY <1>2 DEF Less
  <2>3. Earlier(x, z) \/ Earlier(z, x)
    BY <2>1, <2>2, EarlierIsOrder
  <2>4. CASE Earlier(x, z)
    <3>1. \A y \in places : Earlier(y, x) => Earlier(y, z)
      BY <2>4, EarlierIsOrder
    <3> QED BY <2>1, <2>2, <2>4, <3>1 DEF Less
  <2>5. CASE Earlier(z, x)
    <3>1. \A y \in places : Earlier(y, z) => Earlier(y, x)
      BY <2>5, EarlierIsOrder
    <3> QED BY <2>1, <2>2, <2>5, <3>1 DEF Less
  <2> QED BY <2>3, <2>4, <2>5
<1> QED BY <1>1, <1>2

\* Of finitely many instances one is least.
LEMMA LeastInstance ==
  ASSUME NEW b \in Problems, NEW places \in SUBSET Places(b),
         NEW some, IsFiniteSet(some), some # {}
  PROVE  \E I \in some : \A J \in some : ~Less(places, J, I)
<1> DEFINE below(I) == {J \in some : Less(places, J, I)}
           sizes == {Cardinality(below(I)) : I \in some}
<1>1. \A I \in some : IsFiniteSet(below(I)) /\ Cardinality(below(I)) \in Nat
  BY FS_Subset, FS_CardinalityType
<1>2. sizes \in SUBSET Nat /\ sizes # {}
  BY <1>1
<1>3. PICK least \in sizes : \A k \in sizes : least <= k
  <2> HIDE DEF sizes
  <2> QED BY <1>2, LeastNatural
<1>4. PICK I \in some : Cardinality(below(I)) = least
  BY <1>3
<1>5. ASSUME NEW J \in some, Less(places, J, I)
      PROVE  FALSE
  <2>1. below(J) \subseteq below(I)
    BY <1>5, LessIsOrder
  <2>2. J \in below(I) /\ J \notin below(J)
    BY <1>5, LessIsOrder
  <2> HIDE DEF below
  <2>3. /\ Cardinality(below(J)) <= Cardinality(below(I))
        /\ Cardinality(below(J)) # Cardinality(below(I))
    BY <1>1, <2>1, <2>2, FS_Subset
  <2>4. Cardinality(below(J)) \in sizes
    OBVIOUS
  <2>5. /\ Cardinality(below(I)) <= Cardinality(below(J))
        /\ Cardinality(below(I)) \in Nat /\ Cardinality(below(J)) \in Nat
    BY <1>1, <1>3, <1>4, <2>4
  <2> QED BY <2>3, <2>5
<1> QED BY <1>5

----------------------------------------------------------------------------
(* Renamed instances.                                                      *)

Under(f, t) == [i \in DOMAIN t |-> f[t[i]]]
Swap(a, c) == [x \in Atoms |-> IF x = a THEN c ELSE IF x = c THEN a ELSE x]
After(g, f) == [a \in Atoms |-> g[f[a]]]

LEMMA RenamingsCompose ==
  ASSUME Planned, NEW f \in Renamings, NEW g \in Renamings
  PROVE  After(g, f) \in Renamings
<1>1. \A a \in Atoms : f[a] \in Atoms /\ g[f[a]] \in Atoms
  BY DEF Renamings
<1>2. \A a \in Atoms : g[f[a]] \in class[a]
  BY <1>1 DEF Renamings, Planned, ClassOf
<1> QED BY <1>1, <1>2 DEF Renamings, After

LEMMA SwapIsRenaming ==
  ASSUME Planned, NEW a \in Atoms, NEW c \in class[a]
  PROVE  /\ Swap(a, c) \in Renamings
         /\ c \in Atoms
         /\ a \in class[a]
<1>1. c \in Atoms /\ a \in class[c] /\ \A x \in Atoms : x \in class[x]
  BY DEF Planned, ClassOf
<1>2. Swap(a, c) \in [Atoms -> Atoms]
  BY <1>1 DEF Swap
<1>3. \A x \in Atoms : Swap(a, c)[x] \in class[x]
  BY <1>1 DEF Swap
<1>4. \A x, y \in Atoms : Swap(a, c)[x] = Swap(a, c)[y] => x = y
  BY <1>1 DEF Swap
<1> QED BY <1>1, <1>2, <1>3, <1>4 DEF Renamings

LEMMA IdentityIsRenaming == Planned => [a \in Atoms |-> a] \in Renamings
  BY DEF Planned, ClassOf, Renamings

\* A renaming that does not move a set of tuples moves none of them in or out.
LEMMA ImageDecides ==
  ASSUME NEW n \in Nat, NEW tuples \in SUBSET AtomRows(n), NEW t \in AtomRows(n),
         NEW f \in [Atoms -> Atoms], \A a, c \in Atoms : f[a] = f[c] => a = c,
         Image(f, tuples) = tuples
  PROVE  t \in tuples <=> Under(f, t) \in tuples
<1>1. ASSUME t \in tuples PROVE Under(f, t) \in tuples
  BY <1>1 DEF Image, Under
<1>2. ASSUME Under(f, t) \in tuples PROVE t \in tuples
  <2>1. PICK u \in tuples : Under(f, t) = Under(f, u)
    BY <1>2 DEF Image, Under
  <2>2. t \in [Columns(n) -> Atoms] /\ u \in [Columns(n) -> Atoms]
    BY DEF AtomRows, Columns
  <2>3. ASSUME NEW i \in Columns(n) PROVE t[i] = u[i]
    <3>1. Under(f, t)[i] = f[t[i]] /\ Under(f, u)[i] = f[u[i]]
      BY <2>2 DEF Under
    <3> QED BY <2>1, <2>2, <3>1
  <2>4. t = u
    BY <2>2, <2>3
  <2> QED BY <2>4
<1> QED BY <1>1, <1>2

LEMMA UnderIsRow ==
  ASSUME NEW n \in Nat, NEW t \in AtomRows(n), NEW f \in [Atoms -> Atoms]
  PROVE  Under(f, t) \in AtomRows(n)
  BY DEF AtomRows, Under

LEMMA CellIs ==
  ASSUME NEW b \in Problems, NEW x \in Cells(b)
  PROVE  /\ x = <<x[1], x[2]>>
         /\ x[1] \in Rels
         /\ x[2] \in b.upper[x[1]] \ b.lower[x[1]]
         /\ x[2] \in AtomRows(Arity[x[1]])
         /\ Free(b, x[1])
         /\ x \in Places(b)
<1>1. /\ x = <<x[1], x[2]>> /\ x[1] \in Rels
      /\ x[2] \in b.upper[x[1]] \ b.lower[x[1]]
  BY DEF Cells
<1>2. x[2] \in AtomRows(Arity[x[1]])
  BY <1>1, ProblemFields
<1>3. x \in Places(b)
  BY <1>1 DEF Places
<1> QED BY <1>1, <1>2, <1>3 DEF Free

\* What floats, floats under another name.
LEMMA CellsRename ==
  ASSUME Planned, NEW f \in Renamings, NEW r \in Rels, NEW t \in AtomRows(Arity[r])
  PROVE  <<r, t>> \in Cells(bounds) <=> <<r, Under(f, t)>> \in Cells(bounds)
<1>1. \A u : <<r, u>> \in Cells(bounds) <=> u \in bounds.upper[r] \ bounds.lower[r]
  BY DEF Cells
<1>2. CASE bounds.lower[r] = bounds.upper[r]
  BY <1>1, <1>2
<1>3. CASE Free(bounds, r)
  <2>1. Image(f, bounds.lower[r]) = bounds.lower[r] /\ Image(f, bounds.upper[r]) = bounds.upper[r]
    BY <1>3, ClassesAreSymmetric DEF Symmetric
  <2>2. /\ f \in [Atoms -> Atoms]
        /\ \A a, c \in Atoms : f[a] = f[c] => a = c
    BY DEF Renamings
  <2>3. /\ Arity[r] \in Nat
        /\ bounds.upper[r] \in SUBSET AtomRows(Arity[r])
        /\ bounds.lower[r] \in SUBSET AtomRows(Arity[r])
    BY ProblemFields DEF Planned
  <2>4. t \in bounds.upper[r] <=> Under(f, t) \in bounds.upper[r]
    BY <2>1, <2>2, <2>3, ImageDecides
  <2>5. t \in bounds.lower[r] <=> Under(f, t) \in bounds.lower[r]
    BY <2>1, <2>2, <2>3, ImageDecides
  <2> QED BY <1>1, <2>4, <2>5
<1> QED BY <1>2, <1>3 DEF Free

LEMMA RenamedIs ==
  ASSUME NEW f, NEW instance, NEW y
  PROVE  y \in Renamed(f, instance) <=> \E x \in instance : y = <<x[1], Under(f, x[2])>>
  BY DEF Renamed, Under

LEMMA RenamedDecides ==
  ASSUME Planned, NEW f \in Renamings, NEW instance \in Instances(bounds),
         NEW r \in Rels, NEW t \in AtomRows(Arity[r])
  PROVE  <<r, Under(f, t)>> \in Renamed(f, instance) <=> <<r, t>> \in instance
<1>1. ASSUME <<r, t>> \in instance PROVE <<r, Under(f, t)>> \in Renamed(f, instance)
  BY <1>1, RenamedIs
<1>2. ASSUME <<r, Under(f, t)>> \in Renamed(f, instance) PROVE <<r, t>> \in instance
  <2>1. PICK x \in instance : <<r, Under(f, t)>> = <<x[1], Under(f, x[2])>>
    BY <1>2, RenamedIs
  <2>2. /\ x = <<x[1], x[2]>> /\ x[2] \in AtomRows(Arity[x[1]]) /\ x[1] = r
    BY <2>1, CellIs DEF Instances, Planned
  <2>3. /\ f \in [Atoms -> Atoms]
        /\ \A a, c \in Atoms : f[a] = f[c] => a = c
        /\ Arity[r] \in Nat
    BY RelsAssumption DEF Renamings
  <2>4. /\ t \in [Columns(Arity[r]) -> Atoms]
        /\ x[2] \in [Columns(Arity[r]) -> Atoms]
    BY <2>2 DEF AtomRows, Columns
  <2>5. ASSUME NEW i \in Columns(Arity[r]) PROVE t[i] = x[2][i]
    <3>1. Under(f, t)[i] = f[t[i]] /\ Under(f, x[2])[i] = f[x[2][i]]
      BY <2>4 DEF Under
    <3>2. Under(f, t) = Under(f, x[2])
      BY <2>1
    <3> QED BY <2>3, <2>4, <3>1, <3>2
  <2>6. t = x[2]
    BY <2>4, <2>5
  <2> QED BY <2>2, <2>6
<1> QED BY <1>1, <1>2

LEMMA RenamedIsInstance ==
  ASSUME Planned, NEW f \in Renamings, NEW instance \in Instances(bounds)
  PROVE  Renamed(f, instance) \in Instances(bounds)
<1> SUFFICES ASSUME NEW y \in Renamed(f, instance) PROVE y \in Cells(bounds)
  BY DEF Instances
<1>1. PICK x \in instance : y = <<x[1], Under(f, x[2])>>
  BY RenamedIs
<1>2. x \in Cells(bounds) /\ x = <<x[1], x[2]>> /\ x[1] \in Rels /\ x[2] \in AtomRows(Arity[x[1]])
  BY CellIs DEF Instances, Planned
<1> QED BY <1>1, <1>2, CellsRename

LEMMA RenamedTwice ==
  ASSUME Planned, NEW f \in Renamings, NEW g \in Renamings, NEW instance \in Instances(bounds)
  PROVE  Renamed(g, Renamed(f, instance)) = Renamed(After(g, f), instance)
<1>1. ASSUME NEW x \in instance
      PROVE  Under(g, Under(f, x[2])) = Under(After(g, f), x[2])
  <2>1. x[2] \in AtomRows(Arity[x[1]])
    BY CellIs DEF Instances, Planned
  <2> QED BY <2>1 DEF Under, After, AtomRows
<1>2. ASSUME NEW y \in Renamed(g, Renamed(f, instance))
      PROVE  y \in Renamed(After(g, f), instance)
  <2>1. PICK z \in Renamed(f, instance) : y = <<z[1], Under(g, z[2])>>
    BY RenamedIs
  <2>2. PICK x \in instance : z = <<x[1], Under(f, x[2])>>
    BY RenamedIs
  <2> QED BY <1>1, <2>1, <2>2, RenamedIs
<1>3. ASSUME NEW y \in Renamed(After(g, f), instance)
      PROVE  y \in Renamed(g, Renamed(f, instance))
  <2>1. PICK x \in instance : y = <<x[1], Under(After(g, f), x[2])>>
    BY RenamedIs
  <2> DEFINE z == <<x[1], Under(f, x[2])>>
  <2>2. z \in Renamed(f, instance)
    BY RenamedIs
  <2>3. y = <<z[1], Under(g, z[2])>>
    BY <1>1, <2>1
  <2> QED BY <2>2, <2>3, RenamedIs
<1> QED BY <1>2, <1>3

----------------------------------------------------------------------------
(* What a circuit says.                                                    *)

LEMMA SwappedIs ==
  ASSUME NEW n \in Nat, NEW t \in AtomRows(n), NEW a \in Atoms, NEW c \in Atoms
  PROVE  /\ Swapped(t, a, c) = Under(Swap(a, c), t)
         /\ Swapped(t, a, c) \in AtomRows(n)
         /\ Under(Swap(a, c), Swapped(t, a, c)) = t
  BY DEF Swapped, Under, Swap, AtomRows

\* The places that the circuits compare.
Ordered == {x \in Cells(bounds) : x[1] \in RelParts(bounds, goal)}

MirrorOf(x, a, c) == <<x[1], Swapped(x[2], a, c)>>

\* A pair's circuit compares an instance with what the swap makes of it.
LEMMA SwapDecides ==
  ASSUME Planned, NEW a \in Atoms, NEW c \in class[a], NEW instance \in Instances(bounds),
         NEW x \in Ordered
  PROVE  /\ x \in Renamed(Swap(a, c), instance) <=> MirrorOf(x, a, c) \in instance
         /\ MirrorOf(x, a, c) \in Ordered
<1>1. /\ x = <<x[1], x[2]>> /\ x[1] \in Rels /\ x[2] \in AtomRows(Arity[x[1]])
      /\ Arity[x[1]] \in Nat
  BY CellIs, RelsAssumption DEF Ordered, Planned
<1>2. Swap(a, c) \in Renamings /\ c \in Atoms
  BY SwapIsRenaming
<1>3. /\ Swapped(x[2], a, c) = Under(Swap(a, c), x[2])
      /\ Swapped(x[2], a, c) \in AtomRows(Arity[x[1]])
      /\ Under(Swap(a, c), Swapped(x[2], a, c)) = x[2]
  BY <1>1, <1>2, SwappedIs
<1>4. x \in Renamed(Swap(a, c), instance) <=> MirrorOf(x, a, c) \in instance
  <2>1. <<x[1], Under(Swap(a, c), Swapped(x[2], a, c))>> \in Renamed(Swap(a, c), instance)
          <=> <<x[1], Swapped(x[2], a, c)>> \in instance
    BY <1>1, <1>2, <1>3, RenamedDecides
  <2> QED BY <1>1, <1>3, <2>1 DEF MirrorOf
<1>5. MirrorOf(x, a, c) \in Ordered
  <2>1. <<x[1], x[2]>> \in Cells(bounds) /\ x[1] \in RelParts(bounds, goal)
    BY <1>1 DEF Ordered
  <2>2. <<x[1], Under(Swap(a, c), x[2])>> \in Cells(bounds)
    BY <1>1, <1>2, <2>1, CellsRename
  <2> QED BY <1>3, <2>1, <2>2 DEF Ordered, MirrorOf
<1> QED BY <1>4, <1>5

LEMMA CellAt ==
  ASSUME NEW x \in Cells(bounds), bounds \in Problems
  PROVE  /\ Cell(bounds, x[1], x[2]) = x
         /\ x # True /\ x # False
<1>1. x = <<x[1], x[2]>> /\ x[2] \in bounds.upper[x[1]] \ bounds.lower[x[1]]
  BY CellIs
<1>2. Len(x) = 2
  BY <1>1
<1> QED BY <1>1, <1>2 DEF Cell, True, False

\* A floating place that the swap moves has a row, unless its mirror image came earlier.
Candidates(a, c) ==
  UNION {WithRelation(bounds, r, a, c) :
           r \in {s \in RelParts(bounds, goal) : Touches(bounds, s, class[a])}}

LEMMA MovedIsCandidate ==
  ASSUME Planned, NEW a \in Atoms, NEW c \in class[a], NEW x \in Ordered,
         MirrorOf(x, a, c) # x
  PROVE  /\ Row(bounds, a, c, x) \in Candidates(a, c)
         /\ Row(bounds, a, c, x) = [at |-> x, entry |-> x, image |-> MirrorOf(x, a, c)]
<1>1. /\ x = <<x[1], x[2]>> /\ x[1] \in Rels /\ x[2] \in AtomRows(Arity[x[1]])
      /\ x[2] \in bounds.upper[x[1]] /\ x[1] \in RelParts(bounds, goal)
  BY CellIs DEF Ordered, Planned
<1>2. Swapped(x[2], a, c) # x[2]
  BY <1>1 DEF MirrorOf
<1>3. \E i \in DOMAIN x[2] : x[2][i] = a \/ x[2][i] = c
  BY <1>1, <1>2 DEF Swapped, AtomRows
<1>4. Touches(bounds, x[1], class[a])
  BY <1>1, <1>3, SwapIsRenaming DEF Touches
<1>5. Row(bounds, a, c, x) \in Candidates(a, c)
  <2>1. Row(bounds, a, c, <<x[1], x[2]>>) \in WithRelation(bounds, x[1], a, c)
    BY <1>1, <1>2 DEF WithRelation
  <2> QED BY <1>1, <1>4, <2>1 DEF Candidates
<1>6. Row(bounds, a, c, x) = [at |-> x, entry |-> x, image |-> MirrorOf(x, a, c)]
  <2>1. Cell(bounds, x[1], x[2]) = x
    BY CellAt DEF Ordered, Planned
  <2>2. MirrorOf(x, a, c) \in Cells(bounds)
    BY SwapDecides DEF Ordered, Instances
  <2>3. Cell(bounds, x[1], Swapped(x[2], a, c)) = MirrorOf(x, a, c)
    BY <2>2, CellAt DEF MirrorOf, Planned
  <2> QED BY <2>1, <2>3 DEF Row
<1> QED BY <1>5, <1>6

LEMMA CandidateIs ==
  ASSUME bounds \in Problems, NEW a, NEW c, NEW row \in Candidates(a, c)
  PROVE  /\ row.at \in Places(bounds)
         /\ row = Row(bounds, a, c, row.at)
         /\ row.at[1] \in RelParts(bounds, goal)
<1>1. PICK r \in RelParts(bounds, goal) : row \in WithRelation(bounds, r, a, c)
  BY DEF Candidates
<1>2. PICK t \in bounds.upper[r] : row = Row(bounds, a, c, <<r, t>>)
  BY <1>1 DEF WithRelation
<1>3. row.at = <<r, t>> /\ r \in Rels
  BY <1>2 DEF Row, RelParts
<1> QED BY <1>1, <1>2, <1>3 DEF Places

LEMMA ComparedIsFinite ==
  ASSUME bounds \in Problems, NEW a, NEW c
  PROVE  IsFiniteSet(Compared(bounds, a, c))
<1> DEFINE row == [x \in Places(bounds) |-> Row(bounds, a, c, x)]
           rows == {row[x] : x \in Places(bounds)}
<1>1. row \in Surjection(Places(bounds), rows)
  BY DEF Surjection
<1>2. IsFiniteSet(rows)
  BY <1>1, PlacesAreFinite, FS_Surjection
<1>3. Compared(bounds, a, c) \subseteq rows
  <2>1. Compared(bounds, a, c) \subseteq Candidates(a, c)
    BY DEF Compared, Candidates
  <2>2. \A x \in Candidates(a, c) : x.at \in Places(bounds) /\ x = Row(bounds, a, c, x.at)
    BY CandidateIs
  <2> QED BY <2>1, <2>2
<1> HIDE DEF rows
<1> QED BY <1>2, <1>3, FS_Subset

\* Whether the mirror image was skipped or the place itself, one row compares the two,
\* at one of them.
LEMMA MovedIsCompared ==
  ASSUME Planned, NEW a \in Atoms, NEW c \in class[a], NEW x \in Ordered,
         MirrorOf(x, a, c) # x
  PROVE  \E row \in Compared(bounds, a, c) :
           /\ row.at = x \/ Earlier(row.at, x)
           /\ {row.entry, row.image} = {x, MirrorOf(x, a, c)}
<1> DEFINE m == MirrorOf(x, a, c)
<1>0. bounds \in Problems
  BY DEF Planned
<1>1. m \in Ordered /\ MirrorOf(m, a, c) = x
  <2>1. m \in Ordered
    BY SwapDecides DEF Instances
  <2>2. /\ x = <<x[1], x[2]>> /\ x[2] \in AtomRows(Arity[x[1]]) /\ Arity[x[1]] \in Nat
    BY <1>0, CellIs, RelsAssumption DEF Ordered
  <2>3. Swapped(x[2], a, c) \in AtomRows(Arity[x[1]]) /\ c \in Atoms
    BY <2>2, SwapIsRenaming, SwappedIs
  <2>4. Swapped(Swapped(x[2], a, c), a, c) = x[2]
    BY <2>2, <2>3, SwappedIs
  <2> QED BY <2>1, <2>2, <2>4 DEF MirrorOf
<1> HIDE DEF m
<1>2. /\ Row(bounds, a, c, x) \in Candidates(a, c)
      /\ Row(bounds, a, c, x) = [at |-> x, entry |-> x, image |-> m]
      /\ Row(bounds, a, c, m) \in Candidates(a, c)
      /\ Row(bounds, a, c, m) = [at |-> m, entry |-> m, image |-> x]
  BY <1>1, MovedIsCandidate DEF m
<1>3. \A z \in Candidates(a, c) : /\ z.entry = x => z.at = x
                                  /\ z.entry = m => z.at = m
  <2> SUFFICES ASSUME NEW z \in Candidates(a, c), NEW y \in Ordered, z.entry = y
               PROVE  z.at = y
    BY <1>1
  <2>1. z.at \in Places(bounds) /\ z.entry = Cell(bounds, z.at[1], z.at[2])
    BY <1>0, CandidateIs DEF Row
  <2>2. y # True /\ y # False
    BY <1>0, CellAt DEF Ordered
  <2>3. z.at = <<z.at[1], z.at[2]>>
    BY <1>0, <2>1, PlaceIs
  <2> QED BY <2>1, <2>2, <2>3 DEF Cell
<1>4. x \in Places(bounds) /\ m \in Places(bounds)
  BY <1>0, <1>1, CellIs DEF Ordered
<1>5. CASE Earlier(m, x)
  <2>1. ~\E z \in Candidates(a, c) : Mirrors(Row(bounds, a, c, m), z)
    <3> SUFFICES ASSUME NEW z \in Candidates(a, c), Mirrors(Row(bounds, a, c, m), z)
                 PROVE  FALSE
      OBVIOUS
    <3>1. z.entry = x /\ Earlier(z.at, m)
      BY <1>2 DEF Mirrors
    <3> QED BY <1>0, <1>3, <1>4, <1>5, <3>1, EarlierIsOrder
  <2>2. Row(bounds, a, c, m) \in Compared(bounds, a, c)
    BY <1>2, <2>1 DEF Compared, Candidates
  <2> QED BY <1>2, <1>5, <2>2 DEF m
<1>6. CASE ~Earlier(m, x)
  <2>1. ~\E z \in Candidates(a, c) : Mirrors(Row(bounds, a, c, x), z)
    <3> SUFFICES ASSUME NEW z \in Candidates(a, c), Mirrors(Row(bounds, a, c, x), z)
                 PROVE  FALSE
      OBVIOUS
    <3>1. z.entry = m /\ Earlier(z.at, x)
      BY <1>2 DEF Mirrors
    <3> QED BY <1>3, <1>6, <3>1
  <2>2. Row(bounds, a, c, x) \in Compared(bounds, a, c)
    BY <1>2, <2>1 DEF Compared, Candidates
  <2> QED BY <1>2, <2>2 DEF m
<1> QED BY <1>5, <1>6

\* The cap cuts behind a relation: what comes before a row that is in is in.
LEMMA CapCuts ==
  ASSUME bounds \in Problems, cap \in Nat, NEW a, NEW c,
         NEW x \in Rows(bounds, a, c), NEW y \in Compared(bounds, a, c),
         Earlier(y.at, x.at)
  PROVE  y \in Rows(bounds, a, c)
<1> DEFINE all == Compared(bounds, a, c)
           before(z) == {w \in all : RelBefore(w.at[1], z.at[1])}
<1>1. IsFiniteSet(all)
  BY ComparedIsFinite
<1>2. x \in all /\ Cardinality(before(x)) < cap
  BY DEF Rows
<1>3. \A w \in all : w.at[1] \in Rels
  BY CandidateIs DEF Compared, Candidates, RelParts
<1>4. before(y) \subseteq before(x)
  <2>1. RelBefore(y.at[1], x.at[1]) \/ y.at[1] = x.at[1]
    BY DEF Earlier
  <2>2. \A r \in Rels : Arity[r] \in Nat /\ Rank[r] \in Int
    BY RelsAssumption
  <2> QED BY <1>2, <1>3, <2>1, <2>2 DEF RelBefore
<1>5. IsFiniteSet(before(x)) /\ IsFiniteSet(before(y))
  BY <1>1, FS_Subset
<1>6. Cardinality(before(y)) <= Cardinality(before(x))
  BY <1>4, <1>5, FS_Subset
<1>7. Cardinality(before(x)) \in Nat /\ Cardinality(before(y)) \in Nat
  BY <1>5, FS_CardinalityType
<1>8. Cardinality(before(y)) < cap
  BY <1>2, <1>6, <1>7
<1> QED BY <1>8 DEF Rows

\* An instance that a circuit forbids has a lesser one among its renamings: that of the
\* pair's own swap.
LEMMA ForbiddenIsNotLeast ==
  ASSUME Planned, cap \in Nat, NEW a \in Atoms, NEW c \in class[a],
         NEW instance \in Instances(bounds),
         ~LexLeq(Rows(bounds, a, c), instance)
  PROVE  Less(Ordered, Renamed(Swap(a, c), instance), instance)
<1> DEFINE J == Renamed(Swap(a, c), instance)
<1>0. bounds \in Problems
  BY DEF Planned
<1>1. PICK row \in Rows(bounds, a, c) :
        /\ Holds(row.entry, instance) /\ ~Holds(row.image, instance)
        /\ \A y \in Rows(bounds, a, c) :
             Earlier(y.at, row.at) => Holds(y.entry, instance) = Holds(y.image, instance)
  BY DEF LexLeq
<1>2. /\ row \in Candidates(a, c)
      /\ row.at \in Places(bounds)
      /\ row = Row(bounds, a, c, row.at)
      /\ row.at[1] \in RelParts(bounds, goal)
  BY <1>0, CandidateIs DEF Rows, Compared, Candidates
<1> DEFINE x == row.at
<1>3. /\ x = <<x[1], x[2]>> /\ x[1] \in Rels /\ x[2] \in AtomRows(Arity[x[1]])
      /\ x[2] \in bounds.upper[x[1]]
      /\ Arity[x[1]] \in Nat /\ Free(bounds, x[1])
  BY <1>0, <1>2, PlaceIs, RelsAssumption DEF RelParts
\* The row is about a cell: a tuple that is sure is sure under its other name.
<1>4. x[2] \notin bounds.lower[x[1]]
  <2>1. SUFFICES ASSUME x[2] \in bounds.lower[x[1]] PROVE FALSE
    OBVIOUS
  <2>2. Swap(a, c) \in Renamings /\ c \in Atoms
    BY SwapIsRenaming
  <2>3. Image(Swap(a, c), bounds.lower[x[1]]) = bounds.lower[x[1]]
    BY <1>3, <2>2, ClassesAreSymmetric DEF Symmetric
  <2>4. Under(Swap(a, c), x[2]) \in bounds.lower[x[1]]
    BY <2>1, <2>3 DEF Image, Under
  <2>5. Swapped(x[2], a, c) \in bounds.lower[x[1]]
    BY <1>3, <2>2, <2>4, SwappedIs
  <2>6. row.image = True
    BY <1>2, <2>5 DEF Row, Cell
  <2> QED BY <1>1, <2>6 DEF Holds
<1>5. x \in Ordered
  BY <1>2, <1>3, <1>4 DEF Ordered, Cells
<1>6. row.entry = x /\ row.image = MirrorOf(x, a, c)
  <2>1. Cell(bounds, x[1], x[2]) = x
    BY <1>0, <1>5, CellAt DEF Ordered
  <2>2. MirrorOf(x, a, c) \in Cells(bounds)
    BY <1>5, SwapDecides DEF Ordered
  <2>3. Cell(bounds, x[1], Swapped(x[2], a, c)) = MirrorOf(x, a, c)
    BY <1>0, <2>2, CellAt DEF MirrorOf
  <2> QED BY <1>2, <2>1, <2>3 DEF Row
<1>7. \A z \in Ordered : Holds(z, instance) <=> z \in instance
  <2>1. \A z \in Ordered : z # True
    BY <1>0, CellAt DEF Ordered
  <2> QED BY <2>1 DEF Holds
<1> HIDE DEF x
<1>8. MirrorOf(x, a, c) \in Ordered
  BY <1>5, SwapDecides
<1>9. x \in instance /\ x \notin J
  BY <1>1, <1>5, <1>6, <1>7, <1>8, SwapDecides
<1>10. ASSUME NEW y \in Ordered, Earlier(y, x)
       PROVE  y \in J <=> y \in instance
  <2>1. y \in J <=> MirrorOf(y, a, c) \in instance
    BY SwapDecides
  <2>2. CASE MirrorOf(y, a, c) = y
    BY <2>1, <2>2
  <2>3. CASE MirrorOf(y, a, c) # y
    <3>1. PICK other \in Compared(bounds, a, c) :
            /\ other.at = y \/ Earlier(other.at, y)
            /\ {other.entry, other.image} = {y, MirrorOf(y, a, c)}
      BY <2>3, MovedIsCompared
    <3>2. other.at \in Places(bounds) /\ y \in Places(bounds) /\ x \in Places(bounds)
      BY <1>0, <1>5, CandidateIs, CellIs DEF Compared, Candidates, Ordered
    <3>3. Earlier(other.at, x)
      BY <1>0, <1>10, <3>1, <3>2, EarlierIsOrder
    <3>4. other \in Rows(bounds, a, c)
      BY <1>0, <3>3, CapCuts DEF x
    <3>5. Holds(other.entry, instance) = Holds(other.image, instance)
      BY <1>1, <3>3, <3>4 DEF x
    <3>6. MirrorOf(y, a, c) \in Ordered
      BY SwapDecides
    <3>7. \/ other.entry = y /\ other.image = MirrorOf(y, a, c)
          \/ other.image = y /\ other.entry = MirrorOf(y, a, c)
      BY <2>3, <3>1
    <3> QED BY <1>7, <2>1, <3>5, <3>6, <3>7
  <2> QED BY <2>2, <2>3
<1> QED BY <1>5, <1>9, <1>10 DEF Less

\* So the least renaming of an instance is allowed by all the circuits.
LEMMA LeastIsAllowed ==
  ASSUME Planned, cap \in Nat, NEW instance \in Instances(bounds)
  PROVE  \E f \in Renamings : \A a \in Atoms : \A c \in class[a] :
           LexLeq(Rows(bounds, a, c), Renamed(f, instance))
<1> DEFINE orbit == {Renamed(f, instance) : f \in Renamings}
<1>1. bounds \in Problems /\ Ordered \in SUBSET Places(bounds)
  BY CellIs DEF Planned, Ordered
<1>2. orbit # {}
  BY IdentityIsRenaming
<1>3. IsFiniteSet(orbit)
  <2>1. Cells(bounds) \subseteq Places(bounds)
    BY <1>1, CellIs
  <2>2. IsFiniteSet(SUBSET Cells(bounds))
    BY <1>1, <2>1, PlacesAreFinite, FS_Subset, FS_SUBSET
  <2>3. orbit \subseteq SUBSET Cells(bounds)
    BY RenamedIsInstance DEF Instances
  <2> QED BY <2>2, <2>3, FS_Subset
<1>4. PICK least \in orbit : \A other \in orbit : ~Less(Ordered, other, least)
  <2> HIDE DEF orbit
  <2> QED BY <1>1, <1>2, <1>3, LeastInstance
<1>5. PICK f \in Renamings : least = Renamed(f, instance)
  BY <1>4
<1>6. ASSUME NEW a \in Atoms, NEW c \in class[a]
      PROVE  LexLeq(Rows(bounds, a, c), least)
  <2>1. SUFFICES ASSUME ~LexLeq(Rows(bounds, a, c), least) PROVE FALSE
    OBVIOUS
  <2>2. least \in Instances(bounds)
    BY <1>5, RenamedIsInstance
  <2>3. Less(Ordered, Renamed(Swap(a, c), least), least)
    BY <2>1, <2>2, ForbiddenIsNotLeast
  <2>4. Swap(a, c) \in Renamings
    BY SwapIsRenaming
  <2>5. Renamed(Swap(a, c), least) = Renamed(After(Swap(a, c), f), instance)
    BY <1>5, <2>4, RenamedTwice
  <2>6. Renamed(Swap(a, c), least) \in orbit
    BY <2>4, <2>5, RenamingsCompose
  <2> QED BY <1>4, <2>3, <2>6
<1> QED BY <1>5, <1>6

\* What the circuits so far allow is at least what all of them allow.
KeptInv ==
  /\ Planned
  /\ cap \in Nat
  /\ \A pair \in todo : pair[1] \in Atoms /\ pair[2] \in class[pair[1]]
  /\ \A instance \in Enumerated(bounds, goal) :
       (\A a \in Atoms : \A c \in class[a] : LexLeq(Rows(bounds, a, c), instance))
         => instance \in kept

LEMMA KeptHolds == KeptInv => SomeRenamingKept
<1> SUFFICES ASSUME KeptInv, NEW instance \in Enumerated(bounds, goal)
             PROVE  \E f \in Renamings : Renamed(f, instance) \in kept
  BY DEF SomeRenamingKept
<1>1. instance \in Instances(bounds)
  BY DEF Enumerated
<1>2. PICK f \in Renamings : \A a \in Atoms : \A c \in class[a] :
             LexLeq(Rows(bounds, a, c), Renamed(f, instance))
  BY <1>1, LeastIsAllowed DEF KeptInv
<1>3. Renamed(f, instance) \in Enumerated(bounds, goal)
  <2>1. Renamed(f, instance) \in Instances(bounds)
    BY <1>1, RenamedIsInstance DEF KeptInv
  <2>2. Renamed(f, instance) = {} => instance = {}
    BY DEF Renamed
  <2> QED BY <2>1, <2>2 DEF Enumerated, TrivialInstance
<1> QED BY <1>2, <1>3 DEF KeptInv

\* Symmetry breaking is verdict-neutral (generate_sbp, lex_leq): for every universe, all
\* bounds, every cap and kind of goal, however many of the circuits are in, each instance
\* has a renaming within the classes that they allow, the least in the circuits' order.
THEOREM BreakingIsNeutral == Spec => []SomeRenamingKept
<1>1. Init => KeptInv
  <2> SUFFICES ASSUME Init PROVE KeptInv
    OBVIOUS
  <2>1. Planned
    BY DEF Init, Planned
  <2>2. cap \in Nat
    BY CapsAssumption DEF Init
  <2>3. \A pair \in todo : pair[1] \in Atoms /\ pair[2] \in class[pair[1]]
    BY DEF Init, AdjacentPairs
  <2>4. kept = Enumerated(bounds, goal)
    BY DEF Init
  <2> QED BY <2>1, <2>2, <2>3, <2>4 DEF KeptInv
<1>2. KeptInv /\ [Next]_vars => KeptInv'
  <2> SUFFICES ASSUME KeptInv, [Next]_vars PROVE KeptInv'
    OBVIOUS
  <2>1. CASE UNCHANGED vars
    <3>1. /\ bounds' = bounds /\ goal' = goal /\ class' = class /\ cap' = cap
          /\ todo' = todo /\ kept' = kept
      BY <2>1 DEF vars
    <3>2. \A a, c : Rows(bounds, a, c)' = Rows(bounds, a, c)
      BY <3>1 DEF Rows, Compared
    <3> QED BY <3>1, <3>2 DEF KeptInv, Planned, Free
  <2>2. ASSUME NEW pair \in todo, Break(pair)
        PROVE  KeptInv'
    <3>1. UNCHANGED <<bounds, goal, class, cap>> /\ todo' \subseteq todo
      BY <2>2 DEF Break
    <3>2. Planned' /\ (cap \in Nat)'
      BY <3>1 DEF KeptInv, Planned, Free
    <3>3. kept' = {instance \in kept : LexLeq(Rows(bounds, pair[1], pair[2]), instance)}
      BY <2>2 DEF Break
    <3>4. \A a, c : Rows(bounds, a, c)' = Rows(bounds, a, c)
      BY <3>1 DEF Rows, Compared
    <3>5. Enumerated(bounds, goal)' = Enumerated(bounds, goal)
      BY <3>1
    <3>6. pair[1] \in Atoms /\ pair[2] \in class[pair[1]]
      BY DEF KeptInv
    <3>7. ASSUME NEW instance \in Enumerated(bounds, goal),
                 \A a \in Atoms : \A c \in class[a] : LexLeq(Rows(bounds, a, c), instance)
          PROVE  instance \in kept'
      BY <3>3, <3>6, <3>7 DEF KeptInv
    <3> QED BY <3>1, <3>2, <3>4, <3>5, <3>7 DEF KeptInv
  <2> QED BY <2>1, <2>2 DEF Next
<1>3. KeptInv => SomeRenamingKept
  BY KeptHolds
<1> QED BY <1>1, <1>2, <1>3, PTL DEF Spec

=============================================================================
