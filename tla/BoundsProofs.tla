---------------------------- MODULE BoundsProofs ----------------------------
(***************************************************************************)
(* Theorems about Scopes and Bounds, for all worlds and commands: siblings *)
(* that are declared alike get the same scope, and what a command writes   *)
(* is what its signature gets.                                             *)
(***************************************************************************)
EXTENDS Bounds, FiniteSetTheorems, WellFoundedInduction, TLAPS

-----------------------------------------------------------------------------
(* Numbers.                                                                *)

LEMMA LeastNumber ==
  ASSUME NEW T \in SUBSET Nat, T # {}
  PROVE  /\ \E m \in T : \A i \in T : m <= i
         /\ Min(T) \in T
<1>1. PICK m \in T : \A i \in T : <<i, m>> \notin OpToRel(<, Nat)
  BY NatLessThanWellFounded, WFMin
<1>2. \A i \in T : ~(i < m)
  BY <1>1 DEF OpToRel
<1>3. \A i \in T : m <= i
  BY <1>2
<1> QED BY <1>3, Zenon DEF Min

LEMMA GreatestOfTwo ==
  ASSUME NEW a \in Int, NEW b \in Int
  PROVE  Max({a, b}) = IF a >= b THEN a ELSE b
<1>1. \E m \in {a, b} : \A i \in {a, b} : m >= i
  <2>1. CASE a >= b
    BY <2>1
  <2>2. CASE ~(a >= b)
    BY <2>2
  <2> QED BY <2>1, <2>2
<1>2. Max({a, b}) \in {a, b} /\ \A i \in {a, b} : Max({a, b}) >= i
  BY <1>1, Zenon DEF Max
<1> QED BY <1>2

\* The last of some places of a sequence.
LEMMA LastPlace ==
  ASSUME NEW n \in Nat, NEW T \in SUBSET (1..n), T # {}
  PROVE  Max(T) \in T /\ \A i \in T : Max(T) >= i
<1> DEFINE mirrored == {n - i : i \in T}
<1>1. mirrored \in SUBSET Nat /\ mirrored # {}
  OBVIOUS
<1>2. PICK m \in mirrored : \A i \in mirrored : m <= i
  BY <1>1, LeastNumber
<1>3. PICK top \in T : m = n - top
  BY <1>2
<1>4. ASSUME NEW i \in T PROVE top >= i
  <2>1. n - i \in mirrored
    OBVIOUS
  <2>2. n - top <= n - i
    BY <2>1, <1>2, <1>3
  <2>3. top \in 1..n /\ i \in 1..n
    BY <1>3
  <2> QED BY <2>2, <2>3
<1> QED BY <1>3, <1>4, Zenon DEF Max

-----------------------------------------------------------------------------
(* Recursive functions of a world.                                         *)

\* A pass visits the signatures one by one.
LEMMA PassIsStepwise ==
  ASSUME NEW rule, NEW w, NEW sc, Len(w.parent) \in Nat
  PROVE  \E after : /\ after[0] = sc
                    /\ \A s \in SigsOf(w) : after[s] = Visit(rule, w, after[s - 1], s)
                    /\ FullPass(rule, w, sc) = after[Len(w.parent)]
<1> DEFINE n == Len(w.parent)
           Passed(g, m) == g = [s \in 0..m |-> IF s = 0 THEN sc ELSE Visit(rule, w, g[s - 1], s)]
           bad == {m \in Nat : ~\E g : Passed(g, m)}
<1>1. bad = {}
  <2>1. SUFFICES ASSUME bad # {} PROVE FALSE
    OBVIOUS
  <2>2. PICK m \in bad : \A i \in bad : m <= i
    BY <2>1, LeastNumber
  <2>3. CASE m = 0
    <3>1. Passed([s \in 0..0 |-> sc], 0)
      OBVIOUS
    <3> QED BY <3>1, <2>2, <2>3
  <2>4. CASE m # 0
    <3>1. m - 1 \in Nat /\ m - 1 \notin bad
      BY <2>2, <2>4
    <3>2. PICK g : Passed(g, m - 1)
      BY <3>1
    <3> DEFINE h == [s \in 0..m |-> IF s = m THEN Visit(rule, w, g[m - 1], m) ELSE g[s]]
    <3>3. ASSUME NEW s \in 0..m
          PROVE  h[s] = IF s = 0 THEN sc ELSE Visit(rule, w, h[s - 1], s)
      <4>1. CASE s = m
        BY <4>1, <2>4
      <4>2. CASE s # m
        <5>1. s \in 0..m-1 /\ h[s] = g[s]
          BY <4>2
        <5>2. g[s] = IF s = 0 THEN sc ELSE Visit(rule, w, g[s - 1], s)
          BY <5>1, <3>2
        <5>3. s # 0 => h[s - 1] = g[s - 1]
          BY <5>1
        <5> QED BY <5>1, <5>2, <5>3
      <4> QED BY <4>1, <4>2
    <3>4. Passed(h, m)
      <4> DEFINE F == [s \in 0..m |-> IF s = 0 THEN sc ELSE Visit(rule, w, h[s - 1], s)]
      <4>1. \A s \in 0..m : h[s] = F[s]
        BY <3>3
      <4>2. DOMAIN h = 0..m /\ DOMAIN F = 0..m /\ h = [s \in 0..m |-> h[s]] /\ F = [s \in 0..m |-> F[s]]
        OBVIOUS
      <4> HIDE DEF h, F
      <4>3. h = F
        BY <4>1, <4>2
      <4> QED BY <4>3 DEF F
    <3> QED BY <3>4, <2>2
  <2> QED BY <2>3, <2>4
<1> DEFINE F(g) == [s \in {0} \cup SigsOf(w) |-> IF s = 0 THEN sc ELSE Visit(rule, w, g[s - 1], s)]
           after == CHOOSE g : g = F(g)
<1>2. {0} \cup SigsOf(w) = 0..n
  BY DEF SigsOf
<1>3. \E g : g = F(g)
  <2>1. PICK g : Passed(g, n)
    BY <1>1
  <2> QED BY <2>1, <1>2
<1>4. after = F(after)
  BY <1>3, Zenon
<1>5. FullPass(rule, w, sc) = after[n]
  BY Zenon DEF FullPass
<1> HIDE DEF after
<1>6. after[0] = sc /\ \A s \in SigsOf(w) : after[s] = Visit(rule, w, after[s - 1], s)
  <2>1. \A s \in {0} \cup SigsOf(w) :
          after[s] = IF s = 0 THEN sc ELSE Visit(rule, w, after[s - 1], s)
    BY <1>4, Zenon
  <2>2. 0 \notin SigsOf(w)
    BY DEF SigsOf
  <2> QED BY <2>1, <2>2
<1> QED BY <1>5, <1>6

\* A sum of naturals is a natural.
LEMMA SumIsNatural ==
  ASSUME NEW w, NEW g \in [SigsOf(w) -> Nat], Len(w.parent) \in Nat
  PROVE  SumOf(w, g) \in Nat
<1> DEFINE n == Len(w.parent)
           Summed(u, m) == u = [s \in 0..m |-> IF s = 0 THEN 0 ELSE u[s - 1] + g[s]]
           bad == {m \in Nat : m <= n /\ ~\E u \in [0..m -> Nat] : Summed(u, m)}
<1>1. bad = {}
  <2>1. SUFFICES ASSUME bad # {} PROVE FALSE
    OBVIOUS
  <2>2. PICK m \in bad : \A i \in bad : m <= i
    BY <2>1, LeastNumber
  <2>3. CASE m = 0
    <3>1. Summed([s \in 0..0 |-> 0], 0) /\ [s \in 0..0 |-> 0] \in [0..0 -> Nat]
      OBVIOUS
    <3> QED BY <3>1, <2>2, <2>3
  <2>4. CASE m # 0
    <3>0. m \in Nat /\ m <= n
      BY <2>2
    <3>1. m - 1 \in Nat /\ m - 1 \notin bad /\ m \in SigsOf(w)
      <4>1. m - 1 \in Nat /\ ~(m <= m - 1)
        BY <3>0, <2>4
      <4>2. m - 1 \notin bad
        <5> HIDE DEF bad
        <5> QED BY <4>1, <2>2
      <4> QED BY <4>1, <4>2, <3>0, <2>4 DEF SigsOf
    <3>2. PICK u \in [0..m-1 -> Nat] : Summed(u, m - 1)
      <4>1. m - 1 <= n
        BY <3>0
      <4> QED BY <3>1, <4>1
    <3> DEFINE h == [s \in 0..m |-> IF s = m THEN u[m - 1] + g[m] ELSE u[s]]
    <3>3. h \in [0..m -> Nat]
      BY <3>1, <2>4
    <3>4. ASSUME NEW s \in 0..m
          PROVE  h[s] = IF s = 0 THEN 0 ELSE h[s - 1] + g[s]
      <4>1. CASE s = m
        BY <4>1, <2>4
      <4>2. CASE s # m
        <5>1. s \in 0..m-1 /\ h[s] = u[s]
          BY <4>2
        <5>2. u[s] = IF s = 0 THEN 0 ELSE u[s - 1] + g[s]
          BY <5>1, <3>2
        <5>3. s # 0 => h[s - 1] = u[s - 1]
          BY <5>1
        <5> QED BY <5>1, <5>2, <5>3
      <4> QED BY <4>1, <4>2
    <3>5. Summed(h, m)
      <4> DEFINE H == [s \in 0..m |-> IF s = 0 THEN 0 ELSE h[s - 1] + g[s]]
      <4>1. \A s \in 0..m : h[s] = H[s]
        BY <3>4
      <4>2. DOMAIN h = 0..m /\ DOMAIN H = 0..m /\ h = [s \in 0..m |-> h[s]] /\ H = [s \in 0..m |-> H[s]]
        OBVIOUS
      <4> HIDE DEF h, H
      <4>3. h = H
        BY <4>1, <4>2
      <4> QED BY <4>3 DEF H
    <3> HIDE DEF h
    <3> QED BY <3>3, <3>5, <2>2
  <2> QED BY <2>3, <2>4
<1> DEFINE F(u) == [s \in {0} \cup SigsOf(w) |-> IF s = 0 THEN 0 ELSE u[s - 1] + g[s]]
           upto == CHOOSE u : u = F(u)
<1>2. {0} \cup SigsOf(w) = 0..n
  BY DEF SigsOf
<1>3. PICK u \in [0..n -> Nat] : Summed(u, n)
  BY <1>1
<1>4. u = F(u)
  BY <1>2, <1>3
<1>5. upto = F(upto)
  BY <1>4, Zenon
<1>6. SumOf(w, g) = upto[n]
  BY Zenon DEF SumOf
<1> HIDE DEF upto
<1>7. \A s \in 0..n : upto[s] = IF s = 0 THEN 0 ELSE upto[s - 1] + g[s]
  BY <1>5, <1>2, Zenon
<1> DEFINE off == {s \in Nat : s <= n /\ upto[s] \notin Nat}
<1>8. off = {}
  <2>1. SUFFICES ASSUME off # {} PROVE FALSE
    OBVIOUS
  <2>2. PICK m \in off : \A i \in off : m <= i
    BY <2>1, LeastNumber
  <2>3. m # 0
    BY <2>2, <1>7
  <2>4. m - 1 \in Nat /\ upto[m - 1] \in Nat /\ m \in SigsOf(w)
    BY <2>2, <2>3 DEF SigsOf
  <2>5. upto[m] = upto[m - 1] + g[m]
    BY <2>2, <2>3, <1>7
  <2> QED BY <2>2, <2>4, <2>5
<1> QED BY <1>6, <1>8

Share(w, sc, ex, f, s) ==
  IF sc[s] > KidsLower(w, f, s) /\ (s \in ex \/ s \in TopLevel(w)) THEN sc[s]
  ELSE KidsLower(w, f, s)

\* What a signature's share depends on are the shares of its children.
LEMMA SharesOfChildren ==
  ASSUME NEW w, NEW sc, NEW ex, NEW f, NEW g, NEW s,
         \A k \in Children(w, s) : f[k] = g[k]
  PROVE  /\ KidsLower(w, f, s) = KidsLower(w, g, s)
         /\ Share(w, sc, ex, f, s) = Share(w, sc, ex, g, s)
<1>1. [k \in SigsOf(w) |-> IF k \in Children(w, s) THEN f[k] ELSE 0]
        = [k \in SigsOf(w) |-> IF k \in Children(w, s) THEN g[k] ELSE 0]
  OBVIOUS
<1> QED BY <1>1, Zenon DEF KidsLower, Share

\* In a forest one function, and no other, gives every signature its share.
LEMMA SubtreeIsDefined ==
  ASSUME NEW w, NEW sc, NEW ex, Len(w.parent) \in Nat, Univ \notin Nat, IsForest(w)
  PROVE  /\ SubtreeLower(w, sc, ex)
              = [s \in SigsOf(w) |-> Share(w, sc, ex, SubtreeLower(w, sc, ex), s)]
         /\ \A f : f = [s \in SigsOf(w) |-> Share(w, sc, ex, f, s)]
                   => f = SubtreeLower(w, sc, ex)
<1> DEFINE n == Len(w.parent)
           F(f) == [s \in SigsOf(w) |-> Share(w, sc, ex, f, s)]
<1>1. PICK height \in [SigsOf(w) -> 0..n] :
        \A s \in SigsOf(w) : w.parent[s] # Univ => height[s] < height[w.parent[s]]
  BY Zenon DEF IsForest
<1>2. \A s \in SigsOf(w) : \A k \in Children(w, s) : k \in SigsOf(w) /\ height[k] < height[s]
  <2> SUFFICES ASSUME NEW s \in SigsOf(w), NEW k \in Children(w, s)
               PROVE  k \in SigsOf(w) /\ height[k] < height[s]
    OBVIOUS
  <2>1. k \in SigsOf(w) /\ w.parent[k] = s
    BY DEF Children
  <2>2. w.parent[k] # Univ
    BY <2>1 DEF SigsOf
  <2> QED BY <2>1, <2>2, <1>1
<1> DEFINE Below(m) == {s \in SigsOf(w) : height[s] < m}
           Shared(f, m) == f = [s \in Below(m) |-> Share(w, sc, ex, f, s)]
           bad == {m \in Nat : ~\E f : Shared(f, m)}
<1>3. bad = {}
  <2>1. SUFFICES ASSUME bad # {} PROVE FALSE
    OBVIOUS
  <2>2. PICK m \in bad : \A i \in bad : m <= i
    BY <2>1, LeastNumber
  <2>3. CASE m = 0
    <3>1. Below(0) = {}
      BY <1>1
    <3>2. Shared([s \in Below(0) |-> 0], 0)
      BY <3>1
    <3> QED BY <3>2, <2>2, <2>3
  <2>4. CASE m # 0
    <3>1. m \in Nat /\ m - 1 \in Nat /\ ~(m <= m - 1)
      BY <2>2, <2>4
    <3>2. m - 1 \notin bad
      <4> HIDE DEF bad
      <4> QED BY <3>1, <2>2
    <3>3. PICK f : Shared(f, m - 1)
      BY <3>1, <3>2
    <3> DEFINE h == [s \in Below(m) |->
                       IF s \in Below(m - 1) THEN f[s] ELSE Share(w, sc, ex, f, s)]
    <3>4. ASSUME NEW s \in Below(m) PROVE h[s] = Share(w, sc, ex, h, s)
      <4>1. \A k \in Children(w, s) : k \in Below(m - 1) /\ k \in Below(m)
        <5> SUFFICES ASSUME NEW k \in Children(w, s) PROVE k \in Below(m - 1) /\ k \in Below(m)
          OBVIOUS
        <5>1. k \in SigsOf(w) /\ height[k] < height[s] /\ height[s] < m
          BY <1>2
        <5>2. height[k] \in Nat /\ height[s] \in Nat
          BY <1>1, <5>1
        <5> QED BY <5>1, <5>2, <3>1
      <4>2. \A k \in Children(w, s) : h[k] = f[k]
        BY <4>1
      <4>3. Share(w, sc, ex, h, s) = Share(w, sc, ex, f, s)
        <5> HIDE DEF h
        <5> QED BY <4>2, SharesOfChildren
      <4>4. s \in Below(m - 1) => f[s] = Share(w, sc, ex, f, s)
        <5> HIDE DEF Below
        <5> QED BY <3>3, Zenon
      <4> QED BY <4>3, <4>4
    <3>5. Shared(h, m)
      <4> DEFINE H == [s \in Below(m) |-> Share(w, sc, ex, h, s)]
      <4>1. \A s \in Below(m) : h[s] = H[s]
        BY <3>4
      <4>2. DOMAIN h = Below(m) /\ DOMAIN H = Below(m) /\ h = [s \in Below(m) |-> h[s]]
              /\ H = [s \in Below(m) |-> H[s]]
        OBVIOUS
      <4> HIDE DEF h, H, Below
      <4>3. h = H
        BY <4>1, <4>2
      <4> QED BY <4>3 DEF H
    <3> HIDE DEF h
    <3> QED BY <3>5, <2>2
  <2> QED BY <2>3, <2>4
<1>4. Below(n + 1) = SigsOf(w)
  BY <1>1
<1>5. \E f : f = F(f)
  <2>1. PICK f : Shared(f, n + 1)
    <3>1. n + 1 \in Nat /\ n + 1 \notin bad
      <4> HIDE DEF bad
      <4> QED BY <1>3
    <3> HIDE DEF Shared
    <3> QED BY <3>1
  <2> QED BY <2>1, <1>4
<1>6. SubtreeLower(w, sc, ex) = CHOOSE f : f = F(f)
  BY Zenon DEF SubtreeLower, Share
<1>7. SubtreeLower(w, sc, ex) = F(SubtreeLower(w, sc, ex))
  BY <1>5, <1>6, Zenon
<1>8. ASSUME NEW f, NEW g, f = F(f), g = F(g) PROVE f = g
  <2>1. DOMAIN f = SigsOf(w) /\ DOMAIN g = SigsOf(w)
          /\ f = [s \in SigsOf(w) |-> f[s]] /\ g = [s \in SigsOf(w) |-> g[s]]
    BY <1>8
  <2> DEFINE apart == {height[s] : s \in {t \in SigsOf(w) : f[t] # g[t]}}
  <2>2. apart = {}
    <3>1. SUFFICES ASSUME apart # {} PROVE FALSE
      OBVIOUS
    <3>2. apart \in SUBSET Nat
      BY <1>1
    <3>3. PICK m \in apart : \A i \in apart : m <= i
      BY <3>1, <3>2, LeastNumber
    <3>4. PICK s \in SigsOf(w) : m = height[s] /\ f[s] # g[s]
      BY <3>3
    <3>5. \A k \in Children(w, s) : f[k] = g[k]
      <4> SUFFICES ASSUME NEW k \in Children(w, s), f[k] # g[k] PROVE FALSE
        OBVIOUS
      <4>1. k \in SigsOf(w) /\ height[k] < height[s]
        BY <1>2
      <4>2. height[k] \in apart
        BY <4>1
      <4>3. height[s] <= height[k] /\ height[s] \in Nat /\ height[k] \in Nat
        BY <4>1, <4>2, <3>3, <3>4, <1>1
      <4> QED BY <4>1, <4>3
    <3>6. Share(w, sc, ex, f, s) = Share(w, sc, ex, g, s)
      BY <3>5, SharesOfChildren
    <3>7. f[s] = Share(w, sc, ex, f, s) /\ g[s] = Share(w, sc, ex, g, s)
      BY <1>8, Zenon
    <3> QED BY <3>4, <3>6, <3>7
  <2>3. \A s \in SigsOf(w) : f[s] = g[s]
    BY <2>2
  <2> QED BY <2>1, <2>3
<1>9. \A f : f = F(f) => f = SubtreeLower(w, sc, ex)
  BY <1>7, <1>8
<1> QED BY <1>7, <1>9

\* The shares are naturals when the scopes are.
LEMMA SharesAreNaturals ==
  ASSUME NEW w, NEW sc, NEW ex, Len(w.parent) \in Nat, Univ \notin Nat, IsForest(w),
         \A s \in SigsOf(w) : sc[s] \in Nat
  PROVE  /\ SubtreeLower(w, sc, ex) \in [SigsOf(w) -> Nat]
         /\ \A s \in SigsOf(w) : KidsLower(w, SubtreeLower(w, sc, ex), s) \in Nat
<1> DEFINE n == Len(w.parent)
           f == SubtreeLower(w, sc, ex)
<1>1. f = [s \in SigsOf(w) |-> Share(w, sc, ex, f, s)]
  BY SubtreeIsDefined
<1>2. PICK height \in [SigsOf(w) -> 0..n] :
        \A s \in SigsOf(w) : w.parent[s] # Univ => height[s] < height[w.parent[s]]
  BY Zenon DEF IsForest
<1> HIDE DEF f
<1>3. ASSUME NEW s \in SigsOf(w), \A k \in Children(w, s) : f[k] \in Nat
      PROVE  KidsLower(w, f, s) \in Nat /\ f[s] \in Nat
  <2> DEFINE g == [k \in SigsOf(w) |-> IF k \in Children(w, s) THEN f[k] ELSE 0]
  <2>1. g \in [SigsOf(w) -> Nat]
    <3>1. \A k \in SigsOf(w) : (IF k \in Children(w, s) THEN f[k] ELSE 0) \in Nat
      BY <1>3
    <3> QED BY <3>1, Zenon
  <2>2. SumOf(w, g) \in Nat
    <3> HIDE DEF g
    <3> QED BY <2>1, SumIsNatural
  <2>3. KidsLower(w, f, s) \in Nat
    BY <2>2 DEF KidsLower
  <2>4. f[s] = Share(w, sc, ex, f, s)
    BY <1>1, Zenon
  <2> QED BY <2>3, <2>4 DEF Share
<1> DEFINE off == {height[s] : s \in {t \in SigsOf(w) : f[t] \notin Nat}}
<1>4. off = {}
  <2>1. SUFFICES ASSUME off # {} PROVE FALSE
    OBVIOUS
  <2>2. off \in SUBSET Nat
    BY <1>2
  <2>3. PICK m \in off : \A i \in off : m <= i
    BY <2>1, <2>2, LeastNumber
  <2>4. PICK s \in SigsOf(w) : m = height[s] /\ f[s] \notin Nat
    BY <2>3
  <2>5. \A k \in Children(w, s) : f[k] \in Nat
    <3> SUFFICES ASSUME NEW k \in Children(w, s), f[k] \notin Nat PROVE FALSE
      OBVIOUS
    <3>1. k \in SigsOf(w) /\ w.parent[k] = s /\ w.parent[k] # Univ
      BY DEF Children, SigsOf
    <3>2. height[k] < height[s] /\ height[k] \in off
      BY <3>1, <1>2
    <3>3. height[s] <= height[k] /\ height[s] \in Nat /\ height[k] \in Nat
      BY <3>1, <3>2, <2>3, <2>4, <1>2
    <3> QED BY <3>2, <3>3
  <2> QED BY <2>4, <2>5, <1>3
<1>5. \A s \in SigsOf(w) : f[s] \in Nat
  BY <1>4
<1>6. \A s \in SigsOf(w) : \A k \in Children(w, s) : f[k] \in Nat
  BY <1>5 DEF Children
<1>7. f \in [SigsOf(w) -> Nat]
  BY <1>1, <1>5, Zenon
<1> QED BY <1>3, <1>6, <1>7 DEF f

\* Raising the scopes to what the children are sure to have changes no share.
LEMMA RaisingKeepsShares ==
  ASSUME NEW w, NEW sc, NEW ex, Len(w.parent) \in Nat, Univ \notin Nat, IsForest(w),
         \A s \in SigsOf(w) : sc[s] \in Nat
  PROVE  SubtreeLower(w, [s \in SigsOf(w) |->
                            Max({sc[s], KidsLower(w, SubtreeLower(w, sc, ex), s)})], ex)
           = SubtreeLower(w, sc, ex)
<1> DEFINE f == SubtreeLower(w, sc, ex)
           raised == [s \in SigsOf(w) |-> Max({sc[s], KidsLower(w, f, s)})]
<1>1. f = [s \in SigsOf(w) |-> Share(w, sc, ex, f, s)]
  BY SubtreeIsDefined
<1>2. \A s \in SigsOf(w) : KidsLower(w, f, s) \in Nat
  BY SharesAreNaturals
<1> HIDE DEF f
<1>3. ASSUME NEW s \in SigsOf(w) PROVE Share(w, raised, ex, f, s) = Share(w, sc, ex, f, s)
  <2>1. raised[s] = IF sc[s] >= KidsLower(w, f, s) THEN sc[s] ELSE KidsLower(w, f, s)
    BY <1>2, GreatestOfTwo
  <2> HIDE DEF raised
  <2> QED BY <2>1, <1>2 DEF Share
<1>4. f = [s \in SigsOf(w) |-> Share(w, raised, ex, f, s)]
  BY <1>1, <1>3
<1>5. f = SubtreeLower(w, raised, ex)
  <2> HIDE DEF raised
  <2> QED BY <1>4, SubtreeIsDefined
<1> QED BY <1>5 DEF f

-----------------------------------------------------------------------------
(* The passes.                                                             *)

ScopesOf(w) == [SigsOf(w) -> Nat \cup {None}]
Parented(w) == \A s \in SigsOf(w) : w.parent[s] \in SigsOf(w) \cup {Univ}

\* A visit only ever fills in a scope.
LEMMA VisitFills ==
  ASSUME NEW rule \in {"abstract", "parent"}, NEW w, Len(w.parent) \in Nat, Parented(w),
         NEW sc \in ScopesOf(w), NEW s \in SigsOf(w)
  PROVE  /\ Visit(rule, w, sc, s) \in ScopesOf(w)
         /\ \A x \in SigsOf(w) : sc[x] # None => Visit(rule, w, sc, s)[x] = sc[x]
<1>1. CASE rule = "parent"
  <2>1. Visit(rule, w, sc, s) = ParentAt(w, sc, s)
    BY <1>1 DEF Visit
  <2>2. CASE ~(sc[s] = None /\ s \notin TopLevel(w))
    <3>1. ParentAt(w, sc, s) = sc
      BY <2>2 DEF ParentAt
    <3> QED BY <2>1, <3>1
  <2>3. CASE sc[s] = None /\ s \notin TopLevel(w)
    <3>1. ParentAt(w, sc, s) = [sc EXCEPT ![s] = sc[w.parent[s]]]
      BY <2>3 DEF ParentAt
    <3>2. w.parent[s] \in SigsOf(w)
      BY <2>3 DEF Parented, TopLevel
    <3>3. sc[w.parent[s]] \in Nat \cup {None}
      BY <3>2 DEF ScopesOf
    <3> QED BY <2>1, <2>3, <3>1, <3>3 DEF ScopesOf
  <2> QED BY <2>2, <2>3
<1>2. CASE rule = "abstract"
  <2> DEFINE kids == Children(w, s)
             missing == {k \in kids : sc[k] = None}
             sum == SumScopes(w, sc, kids)
  <2>1. Visit(rule, w, sc, s) = AbstractAt(w, sc, s)
    BY <1>2 DEF Visit
  <2>2. sum \in Nat
    <3> DEFINE g == [k \in SigsOf(w) |-> IF k \in kids /\ sc[k] # None THEN sc[k] ELSE 0]
    <3>1. \A k \in SigsOf(w) : (IF k \in kids /\ sc[k] # None THEN sc[k] ELSE 0) \in Nat
      BY DEF ScopesOf
    <3>2. g \in [SigsOf(w) -> Nat]
      BY <3>1, Zenon
    <3>3. SumOf(w, g) \in Nat
      <4> HIDE DEF g
      <4> QED BY <3>2, SumIsNatural
    <3> QED BY <3>3 DEF SumScopes
  <2> HIDE DEF sum
  <2>4. CASE s \in w.abstract /\ kids # {} /\ sc[s] = None /\ missing = {}
    <3>1. AbstractAt(w, sc, s) = [sc EXCEPT ![s] = sum]
      BY <2>4 DEF AbstractAt, sum
    <3> QED BY <2>1, <2>2, <2>4, <3>1 DEF ScopesOf
  <2>5. CASE s \in w.abstract /\ sc[s] # None /\ \E k \in kids : missing = {k}
    <3>1. AbstractAt(w, sc, s)
            = [k \in SigsOf(w) |-> IF k \in missing THEN Max({0, sc[s] - sum}) ELSE sc[k]]
      BY <2>5 DEF AbstractAt, sum
    <3>2. sc[s] \in Nat
      BY <2>5 DEF ScopesOf
    <3>3. Max({0, sc[s] - sum}) \in Nat
      BY <3>2, <2>2, GreatestOfTwo
    <3>4. \A k \in SigsOf(w) : (IF k \in missing THEN Max({0, sc[s] - sum}) ELSE sc[k])
                                 \in Nat \cup {None}
      BY <3>3 DEF ScopesOf
    <3>5. AbstractAt(w, sc, s) \in ScopesOf(w)
      BY <3>1, <3>4, Zenon DEF ScopesOf
    <3>6. \A x \in SigsOf(w) : sc[x] # None => AbstractAt(w, sc, s)[x] = sc[x]
      BY <3>1
    <3> QED BY <2>1, <3>5, <3>6
  <2>6. CASE /\ ~(s \in w.abstract /\ kids # {} /\ sc[s] = None /\ missing = {})
             /\ ~(s \in w.abstract /\ sc[s] # None /\ \E k \in kids : missing = {k})
    <3>1. AbstractAt(w, sc, s) = sc
      BY <2>6 DEF AbstractAt
    <3> QED BY <2>1, <3>1
  <2> QED BY <2>4, <2>5, <2>6
<1> QED BY <1>1, <1>2

\* So a pass keeps the scopes that there are, wherever it has got to.
LEMMA PassKeeps ==
  ASSUME NEW rule \in {"abstract", "parent"}, NEW w, Len(w.parent) \in Nat, Parented(w),
         NEW after, after[0] \in ScopesOf(w),
         \A s \in SigsOf(w) : after[s] = Visit(rule, w, after[s - 1], s)
  PROVE  /\ \A j \in 0 .. Len(w.parent) : after[j] \in ScopesOf(w)
         /\ \A i, j \in 0 .. Len(w.parent) : \A x \in SigsOf(w) :
              i <= j /\ after[i][x] # None => after[j][x] = after[i][x]
<1> DEFINE n == Len(w.parent)
           untyped == {j \in 0..n : after[j] \notin ScopesOf(w)}
<1>1. untyped = {}
  <2>1. SUFFICES ASSUME untyped # {} PROVE FALSE
    OBVIOUS
  <2>2. untyped \in SUBSET Nat
    OBVIOUS
  <2>3. PICK m \in untyped : \A j \in untyped : m <= j
    BY <2>1, <2>2, LeastNumber
  <2>4. m \in SigsOf(w) /\ m - 1 \in 0..n /\ ~(m <= m - 1)
    BY <2>3 DEF SigsOf
  <2>5. m - 1 \notin untyped
    <3> HIDE DEF untyped
    <3> QED BY <2>3, <2>4
  <2>6. after[m] \in ScopesOf(w)
    BY <2>4, <2>5, VisitFills
  <2> QED BY <2>3, <2>6
<1>2. \A j \in 0..n : after[j] \in ScopesOf(w)
  BY <1>1
<1>3. ASSUME NEW i \in 0..n, NEW x \in SigsOf(w), after[i][x] # None
      PROVE  \A j \in 0..n : i <= j => after[j][x] = after[i][x]
  <2> DEFINE lost == {j \in 0..n : i <= j /\ after[j][x] # after[i][x]}
  <2>1. SUFFICES ASSUME lost # {} PROVE FALSE
    OBVIOUS
  <2>2. lost \in SUBSET Nat
    OBVIOUS
  <2>3. PICK m \in lost : \A j \in lost : m <= j
    BY <2>1, <2>2, LeastNumber
  <2>4. m # i /\ i <= m /\ m \in 0..n
    BY <2>3
  <2>5. m \in SigsOf(w) /\ m - 1 \in 0..n /\ ~(m <= m - 1) /\ i <= m - 1
    BY <2>4 DEF SigsOf
  <2>6. m - 1 \notin lost
    <3> HIDE DEF lost
    <3> QED BY <2>3, <2>5
  <2>7. after[m - 1][x] = after[i][x]
    BY <2>5, <2>6
  <2>8. after[m][x] = after[m - 1][x]
    <3>1. after[m - 1][x] # None /\ after[m - 1] \in ScopesOf(w)
      BY <1>2, <1>3, <2>5, <2>7
    <3>2. after[m] = Visit(rule, w, after[m - 1], m)
      BY <2>5
    <3> QED BY <2>5, <3>1, <3>2, VisitFills
  <2> QED BY <2>3, <2>7, <2>8
<1> QED BY <1>2, <1>3

\* Siblings that have no children.
Twins(w, s, t) == s \in Leaves(w) /\ t \in Leaves(w) /\ w.parent[s] = w.parent[t]

\* No visit of the abstract rule tells twins apart: of the two it would have to be the one
\* child that is missing.
LEMMA AbstractSparesTwins ==
  ASSUME NEW w, NEW sc \in ScopesOf(w), NEW x \in SigsOf(w), NEW s, NEW t, Twins(w, s, t),
         sc[s] = sc[t]
  PROVE  AbstractAt(w, sc, x)[s] = AbstractAt(w, sc, x)[t]
<1> DEFINE kids == Children(w, x)
           missing == {k \in kids : sc[k] = None}
           sum == SumScopes(w, sc, kids)
<1>0. s \in SigsOf(w) /\ t \in SigsOf(w) /\ Children(w, s) = {} /\ Children(w, t) = {}
  BY DEF Twins, Leaves
<1>1. s \in missing <=> t \in missing
  BY <1>0 DEF Twins, Children
<1>3. CASE x \in w.abstract /\ kids # {} /\ sc[x] = None /\ missing = {}
  <2>1. AbstractAt(w, sc, x) = [sc EXCEPT ![x] = sum]
    BY <1>3 DEF AbstractAt
  <2>2. x # s /\ x # t
    BY <1>0, <1>3
  <2> QED BY <2>1, <2>2, <1>0 DEF ScopesOf
<1>4. CASE x \in w.abstract /\ sc[x] # None /\ \E k \in kids : missing = {k}
  <2>1. AbstractAt(w, sc, x)
          = [k \in SigsOf(w) |-> IF k \in missing THEN Max({0, sc[x] - sum}) ELSE sc[k]]
    BY <1>4 DEF AbstractAt
  <2> HIDE DEF missing, sum
  <2> QED BY <2>1, <1>0, <1>1
<1>5. CASE /\ ~(x \in w.abstract /\ kids # {} /\ sc[x] = None /\ missing = {})
           /\ ~(x \in w.abstract /\ sc[x] # None /\ \E k \in kids : missing = {k})
  BY <1>5 DEF AbstractAt
<1> QED BY <1>3, <1>4, <1>5

\* In the middle of a pass of the parent rule one twin may have its parent's scope when
\* the other has none yet.
Inheriting(w, sc, s, t) ==
  LET p == w.parent[s]
  IN  p \in SigsOf(w) /\ sc[p] # None /\ sc[s] \in {None, sc[p]} /\ sc[t] \in {None, sc[p]}
Nearly(w, sc, s, t) == sc[s] = sc[t] \/ Inheriting(w, sc, s, t)

LEMMA ParentSparesTwins ==
  ASSUME NEW w, Parented(w), Univ \notin Nat,
         NEW sc \in ScopesOf(w), NEW x \in SigsOf(w), NEW s, NEW t, Twins(w, s, t),
         Nearly(w, sc, s, t)
  PROVE  Nearly(w, ParentAt(w, sc, x), s, t)
<1> DEFINE p == w.parent[s]
<1>0. /\ s \in SigsOf(w) /\ t \in SigsOf(w)
      /\ p = w.parent[t] /\ p \in SigsOf(w) \cup {Univ}
      /\ p # s /\ p # t
  <2>1. s \in SigsOf(w) /\ t \in SigsOf(w) /\ Children(w, s) = {} /\ Children(w, t) = {} /\ p = w.parent[t]
    BY DEF Twins, Leaves
  <2>2. p # s
    BY <2>1 DEF Children
  <2>3. p # t
    BY <2>1 DEF Children
  <2> QED BY <2>1, <2>2, <2>3 DEF Parented
<1>1. CASE ~(sc[x] = None /\ x \notin TopLevel(w))
  BY <1>1 DEF ParentAt
<1>2. CASE sc[x] = None /\ x \notin TopLevel(w)
  <2>1. PICK q : q = w.parent[x] /\ q \in SigsOf(w)
    BY <1>2 DEF TopLevel, Parented
  <2>2. PICK new : new = [sc EXCEPT ![x] = sc[q]]
    OBVIOUS
  <2>3. ParentAt(w, sc, x) = new
    BY <1>2, <2>1, <2>2 DEF ParentAt
  <2>4. new[x] = sc[q] /\ \A y \in SigsOf(w) : y # x => new[y] = sc[y]
    BY <2>2 DEF ScopesOf
  <2>5. CASE x = s \/ x = t
    <3>1. q = p
      BY <2>1, <2>5, <1>0
    <3>2. new[p] = sc[p]
      BY <1>0, <2>1, <2>4, <2>5, <3>1
    <3>3. CASE sc[p] = None
      <4>1. new[s] = sc[s] /\ new[t] = sc[t] /\ sc[s] = sc[t]
        BY <1>0, <1>2, <2>4, <2>5, <3>1, <3>3 DEF Nearly, Inheriting
      <4> QED BY <4>1, <2>3 DEF Nearly
    <3>4. CASE sc[p] # None
      <4>1. sc[s] \in {None, sc[p]} /\ sc[t] \in {None, sc[p]}
        BY <1>2, <2>5 DEF Nearly, Inheriting
      <4>2. new[s] \in {None, sc[p]} /\ new[t] \in {None, sc[p]}
        BY <4>1, <1>0, <2>4, <2>5, <3>1
      <4>3. Inheriting(w, new, s, t)
        BY <4>2, <3>1, <3>2, <3>4, <2>1 DEF Inheriting
      <4> QED BY <4>3, <2>3 DEF Nearly
    <3> QED BY <3>3, <3>4
  <2>6. CASE x # s /\ x # t /\ x = p
    <3>1. new[s] = sc[s] /\ new[t] = sc[t] /\ sc[s] = sc[t]
      BY <1>0, <1>2, <2>4, <2>6 DEF Nearly, Inheriting
    <3> QED BY <3>1, <2>3 DEF Nearly
  <2>7. CASE x # s /\ x # t /\ x # p
    <3>1. new[s] = sc[s] /\ new[t] = sc[t]
      BY <1>0, <2>4, <2>7
    <3>2. p \in SigsOf(w) => new[p] = sc[p]
      BY <2>4, <2>7
    <3>3. Nearly(w, new, s, t)
      BY <3>1, <3>2 DEF Nearly, Inheriting
    <3> QED BY <3>3, <2>3
  <2> QED BY <2>5, <2>6, <2>7
<1> QED BY <1>1, <1>2

\* A world with everything the lemmas ask of one.
LEMMA WorldsAreSound ==
  ASSUME NEW w \in Worlds
  PROVE  Len(w.parent) \in Nat /\ Parented(w) /\ IsForest(w) /\ Univ \notin Nat
<1>1. w.parent \in Seq(1 .. Len(w.parent) \cup {Univ}) /\ IsForest(w) /\ Univ \notin Nat
  BY WorldsAssumption, NamesAssumption
<1>2. Len(w.parent) \in Nat
  BY <1>1
<1>3. \A s \in 1 .. Len(w.parent) : w.parent[s] \in 1 .. Len(w.parent) \cup {Univ}
  BY <1>1
<1> QED BY <1>1, <1>2, <1>3 DEF Parented, SigsOf

LEMMA AbstractPass ==
  ASSUME NEW w \in Worlds, NEW sc \in ScopesOf(w)
  PROVE  /\ FullPass("abstract", w, sc) \in ScopesOf(w)
         /\ \A x \in SigsOf(w) : sc[x] # None => FullPass("abstract", w, sc)[x] = sc[x]
         /\ \A s, t : Twins(w, s, t) /\ sc[s] = sc[t]
              => FullPass("abstract", w, sc)[s] = FullPass("abstract", w, sc)[t]
<1> DEFINE n == Len(w.parent)
<1>0. n \in Nat /\ Parented(w)
  BY WorldsAreSound
<1>1. PICK after : /\ after[0] = sc
                   /\ \A s \in SigsOf(w) : after[s] = Visit("abstract", w, after[s - 1], s)
                   /\ FullPass("abstract", w, sc) = after[n]
  BY <1>0, PassIsStepwise
<1>2. /\ \A j \in 0..n : after[j] \in ScopesOf(w)
      /\ \A i, j \in 0..n : \A x \in SigsOf(w) :
           i <= j /\ after[i][x] # None => after[j][x] = after[i][x]
  BY <1>0, <1>1, PassKeeps
<1>3. ASSUME NEW s, NEW t, Twins(w, s, t), sc[s] = sc[t]
      PROVE  after[n][s] = after[n][t]
  <2> DEFINE apart == {j \in 0..n : after[j][s] # after[j][t]}
  <2>1. SUFFICES ASSUME apart # {} PROVE FALSE
    BY <1>0
  <2>2. apart \in SUBSET Nat
    OBVIOUS
  <2>3. PICK m \in apart : \A j \in apart : m <= j
    BY <2>1, <2>2, LeastNumber
  <2>4. m # 0
    BY <2>3, <1>1, <1>3
  <2>5. m \in SigsOf(w) /\ m - 1 \in 0..n /\ ~(m <= m - 1)
    BY <2>3, <2>4, <1>0 DEF SigsOf
  <2>6. m - 1 \notin apart
    <3> HIDE DEF apart
    <3> QED BY <2>3, <2>5
  <2>7. after[m - 1][s] = after[m - 1][t] /\ after[m - 1] \in ScopesOf(w)
    BY <1>2, <2>5, <2>6
  <2>8. after[m] = AbstractAt(w, after[m - 1], m)
    BY <1>1, <2>5 DEF Visit
  <2>9. after[m][s] = after[m][t]
    BY <1>3, <2>5, <2>7, <2>8, AbstractSparesTwins
  <2> QED BY <2>3, <2>9
<1>4. 0 \in 0..n /\ n \in 0..n /\ 0 <= n
  BY <1>0
<1> QED BY <1>1, <1>2, <1>3, <1>4

LEMMA ParentPass ==
  ASSUME NEW w \in Worlds, NEW sc \in ScopesOf(w)
  PROVE  /\ FullPass("parent", w, sc) \in ScopesOf(w)
         /\ \A x \in SigsOf(w) : sc[x] # None => FullPass("parent", w, sc)[x] = sc[x]
         /\ \A s, t : Twins(w, s, t) /\ Nearly(w, sc, s, t)
              => /\ Nearly(w, FullPass("parent", w, sc), s, t)
                 /\ FullPass("parent", w, sc) = sc => sc[s] = sc[t]
<1> DEFINE n == Len(w.parent)
<1>0. n \in Nat /\ Parented(w) /\ Univ \notin Nat
  BY WorldsAreSound
<1>1. PICK after : /\ after[0] = sc
                   /\ \A s \in SigsOf(w) : after[s] = Visit("parent", w, after[s - 1], s)
                   /\ FullPass("parent", w, sc) = after[n]
  BY <1>0, PassIsStepwise
<1>2. /\ \A j \in 0..n : after[j] \in ScopesOf(w)
      /\ \A i, j \in 0..n : \A x \in SigsOf(w) :
           i <= j /\ after[i][x] # None => after[j][x] = after[i][x]
  BY <1>0, <1>1, PassKeeps
<1>3. \A s \in SigsOf(w) : after[s] = ParentAt(w, after[s - 1], s)
  BY <1>1 DEF Visit
<1>4. ASSUME NEW s, NEW t, Twins(w, s, t), Nearly(w, sc, s, t)
      PROVE  Nearly(w, after[n], s, t)
  <2> DEFINE apart == {j \in 0..n : ~Nearly(w, after[j], s, t)}
  <2>1. SUFFICES ASSUME apart # {} PROVE FALSE
    BY <1>0
  <2>2. apart \in SUBSET Nat
    OBVIOUS
  <2>3. PICK m \in apart : \A j \in apart : m <= j
    BY <2>1, <2>2, LeastNumber
  <2>4. m # 0
    BY <2>3, <1>1, <1>4
  <2>5. m \in SigsOf(w) /\ m - 1 \in 0..n /\ ~(m <= m - 1)
    BY <2>3, <2>4, <1>0 DEF SigsOf
  <2>6. m - 1 \notin apart
    <3> HIDE DEF apart
    <3> QED BY <2>3, <2>5
  <2>7. Nearly(w, after[m - 1], s, t) /\ after[m - 1] \in ScopesOf(w)
    BY <1>2, <2>5, <2>6
  <2>8. Nearly(w, after[m], s, t)
    BY <1>0, <1>3, <1>4, <2>5, <2>7, ParentSparesTwins
  <2> QED BY <2>3, <2>8
<1>5. 0 \in 0..n /\ n \in 0..n /\ 0 <= n
  BY <1>0
\* A pass that changed nothing found no signature without a scope below one with a scope.
<1>6. ASSUME after[n] = sc, NEW s \in SigsOf(w), w.parent[s] \in SigsOf(w), sc[w.parent[s]] # None
      PROVE  sc[s] # None
  <2>1. s \in 0..n /\ s - 1 \in 0..n /\ 0 <= s - 1 /\ s <= n
    BY <1>0 DEF SigsOf
  <2>2. after[s - 1][w.parent[s]] = sc[w.parent[s]]
    BY <1>1, <1>2, <1>5, <1>6, <2>1
  <2>3. s \notin TopLevel(w)
    BY <1>0, <1>6 DEF TopLevel, SigsOf
  <2>4. after[s - 1] \in ScopesOf(w)
    BY <1>2, <2>1
  <2>5. after[s][s] # None
    <3>1. CASE after[s - 1][s] = None
      <4>1. after[s] = [after[s - 1] EXCEPT ![s] = after[s - 1][w.parent[s]]]
        BY <3>1, <1>3, <2>3 DEF ParentAt
      <4> QED BY <4>1, <1>6, <2>2, <2>4 DEF ScopesOf
    <3>2. CASE after[s - 1][s] # None
      <4>1. after[s] = after[s - 1]
        BY <3>2, <1>3 DEF ParentAt
      <4> QED BY <4>1, <3>2
    <3> QED BY <3>1, <3>2
  <2>6. after[n][s] = after[s][s]
    BY <1>2, <1>5, <2>1, <2>5
  <2> QED BY <1>6, <2>5, <2>6
<1>7. ASSUME NEW s, NEW t, Twins(w, s, t), Nearly(w, sc, s, t), after[n] = sc
      PROVE  sc[s] = sc[t]
  <2>1. s \in SigsOf(w) /\ t \in SigsOf(w) /\ w.parent[s] = w.parent[t]
    BY <1>7 DEF Twins, Leaves
  <2>2. CASE sc[s] = sc[t]
    BY <2>2
  <2>3. CASE Inheriting(w, sc, s, t)
    <3>1. sc[s] # None /\ sc[t] # None
      BY <1>6, <1>7, <2>1, <2>3 DEF Inheriting
    <3> QED BY <3>1, <2>3 DEF Inheriting
  <2> QED BY <1>7, <2>2, <2>3 DEF Nearly
<1> QED BY <1>1, <1>2, <1>4, <1>5, <1>7

-----------------------------------------------------------------------------
(* Entries and strings.                                                    *)

LEMMA EntriesAreSound ==
  ASSUME NEW w \in Worlds, NEW c \in Commands(w), SeedError(w, c) = None,
         NEW i \in DOMAIN c.scopes
  PROVE  /\ c.scopes[i].sig \in SigsOf(w)
         /\ c.scopes[i].scope \in Nat
         /\ c.scopes[i].sig \notin w.var
              => ~MultConflict(w.mult[c.scopes[i].sig], c.scopes[i].scope)
<1> DEFINE entry == c.scopes[i]
           bad == {j \in DOMAIN c.scopes : EntryError(w, c.scopes[j]) # None}
<1>1. c.scopes \in Seq(ScopeEntry(w))
  BY CommandsAssumption
<1>2. bad \in SUBSET Nat
  BY <1>1
<1>3. bad = {}
  <2>1. SUFFICES ASSUME bad # {} PROVE FALSE
    OBVIOUS
  <2>2. Min(bad) \in bad
    BY <1>2, <2>1, LeastNumber
  <2>3. SeedError(w, c) # None
    BY <2>1, <2>2, NamesAssumption DEF SeedError, SeedErrors
  <2> QED BY <2>3
<1>4. EntryError(w, entry) = None
  BY <1>3
<1>5. entry \in ScopeEntry(w)
  BY <1>1
<1>6. SigsOf(w) \cap DOMAIN w.subsets = {} /\ w.enum \subseteq SigsOf(w)
  BY WorldsAssumption
<1>7. entry.sig \in SigsOf(w) \cup DOMAIN w.subsets /\ entry.scope \in Nat
  BY <1>5 DEF ScopeEntry
<1> HIDE DEF entry
<1>8. entry.sig \notin DOMAIN w.subsets
  BY <1>4, <1>6, NamesAssumption DEF EntryError, SeedErrors
<1>9. entry.sig \notin w.enum
  BY <1>4, <1>6, <1>8, NamesAssumption DEF EntryError, SeedErrors
<1>10. entry.sig \notin w.var => ~MultConflict(w.mult[entry.sig], entry.scope)
  BY <1>4, <1>7, <1>8, <1>9, NamesAssumption DEF EntryError, SeedErrors
<1> QED BY <1>7, <1>8, <1>10 DEF entry

\* The padding: names are added one by one until there are as many as the scope says.
LEMMA StringsAreAsMany ==
  ASSUME NEW c, c.literals \subseteq Int, IsFiniteSet(c.literals), c.maxstring \in Nat,
         c.maxstring # None
  PROVE  Cardinality(Strings(c)) = Max({c.maxstring, Cardinality(c.literals)})
<1> DEFINE lits == c.literals
           size == c.maxstring
           Upto(k) == lits \cup 0..k-1
           free == 0 .. (size + Cardinality(lits))
           Padded(names) == /\ lits \subseteq names
                            /\ Cardinality(names) = size
                            /\ \A x \in names \ lits : 0..x \subseteq names
<1>1. Cardinality(lits) \in Nat
  BY FS_CardinalityType
<1>2. CASE size - Cardinality(lits) <= 0
  <2>1. Strings(c) = lits
    BY <1>2 DEF Strings
  <2> QED BY <2>1, <1>1, <1>2, GreatestOfTwo
<1>3. CASE ~(size - Cardinality(lits) <= 0)
  <2>1. \A k \in Nat : IsFiniteSet(Upto(k)) /\ Cardinality(Upto(k)) \in Nat
    <3> SUFFICES ASSUME NEW k \in Nat
                 PROVE  IsFiniteSet(Upto(k)) /\ Cardinality(Upto(k)) \in Nat
      OBVIOUS
    <3>1. IsFiniteSet(0..k-1)
      BY FS_Interval
    <3>2. IsFiniteSet(Upto(k))
      BY <3>1, FS_Union
    <3> QED BY <3>2, FS_CardinalityType
  <2> DEFINE enough == {k \in Nat : Cardinality(Upto(k)) >= size}
  <2>2. size \in enough
    <3>1. IsFiniteSet(0..size-1) /\ Cardinality(0..size-1) = size
      <4>1. size \in Nat /\ 0 \in Int /\ size - 1 \in Int /\ (0 > size - 1 => size = 0)
        OBVIOUS
      <4>2. IsFiniteSet(0..size-1)
              /\ Cardinality(0..size-1) = IF 0 > size - 1 THEN 0 ELSE (size - 1) - 0 + 1
        BY <4>1, FS_Interval, Zenon
      <4> HIDE DEF size
      <4> QED BY <4>1, <4>2
    <3>2. 0..size-1 \in SUBSET Upto(size)
      OBVIOUS
    <3>3. Cardinality(0..size-1) <= Cardinality(Upto(size))
      BY <3>2, <2>1, FS_Subset
    <3> QED BY <3>1, <3>3, <2>1
  <2>3. PICK k \in enough : \A j \in enough : k <= j
    BY <2>2, LeastNumber
  <2>4. k \in Nat /\ k <= size /\ Cardinality(Upto(k)) >= size
    BY <2>2, <2>3
  <2>5. k # 0
    <3>1. Upto(0) = lits
      OBVIOUS
    <3> QED BY <3>1, <2>4, <1>1, <1>3
  <2>6. k - 1 \in Nat /\ ~(k <= k - 1)
    BY <2>4, <2>5
  <2>7. k - 1 \notin enough
    <3> HIDE DEF enough
    <3> QED BY <2>3, <2>6
  <2>8. Cardinality(Upto(k - 1)) < size
    <3> HIDE DEF Upto
    <3> QED BY <2>1, <2>6, <2>7
  <2>9. Upto(k) = Upto(k - 1) \cup {k - 1}
    BY <2>6
  <2>10. Cardinality(Upto(k)) = size
    <3>1. Cardinality(Upto(k - 1) \cup {k - 1}) <= Cardinality(Upto(k - 1)) + 1
      <4> HIDE DEF Upto
      <4>1. IsFiniteSet(Upto(k - 1)) /\ Cardinality(Upto(k - 1)) \in Nat
        BY <2>1, <2>6
      <4>2. Cardinality(Upto(k - 1) \cup {k - 1})
              = IF k - 1 \in Upto(k - 1) THEN Cardinality(Upto(k - 1)) ELSE Cardinality(Upto(k - 1)) + 1
        BY <4>1, FS_AddElement
      <4> QED BY <4>1, <4>2
    <3> HIDE DEF Upto
    <3>2. Cardinality(Upto(k)) <= Cardinality(Upto(k - 1)) + 1
      BY <3>1, <2>9
    <3>3. Cardinality(Upto(k)) \in Nat /\ Cardinality(Upto(k - 1)) \in Nat
      BY <2>1, <2>4, <2>6
    <3> QED BY <3>2, <3>3, <2>4, <2>8
  <2>11. Upto(k) \in SUBSET (lits \cup free)
    BY <2>4, <1>1
  <2>12. Padded(Upto(k))
    <3>1. ASSUME NEW x \in Upto(k) \ lits PROVE 0..x \subseteq Upto(k)
      <4>1. x \in 0..k-1
        OBVIOUS
      <4> QED BY <4>1, <2>4
    <3> QED BY <3>1, <2>10
  <2>13. Strings(c) = CHOOSE names \in SUBSET (lits \cup free) : Padded(names)
    BY <1>3 DEF Strings
  <2> HIDE DEF Upto, Padded, free, lits
  <2>14. Padded(Strings(c))
    BY <2>11, <2>12, <2>13, Zenon
  <2>15. Cardinality(Strings(c)) = size
    BY <2>14 DEF Padded
  <2> QED BY <2>15, <1>1, <1>3, GreatestOfTwo DEF lits
<1> QED BY <1>2, <1>3

-----------------------------------------------------------------------------
(* The invariant.                                                          *)

Settling == {"force", "abstract", "overall", "parent", "some", "finish"}

\* Until the walk, every entry that no later one overrides has the scope it wrote.
AsWritten ==
  \A i \in DOMAIN command.scopes :
    (\A j \in DOMAIN command.scopes : j > i => command.scopes[j].sig # command.scopes[i].sig)
      => /\ scope[command.scopes[i].sig] = command.scopes[i].scope
         /\ command.scopes[i].exact => command.scopes[i].sig \in exact

AlikeAgree == \A s, t \in Leaves(world) : Alike(s, t) => scope[s] = scope[t]
AlikeNearly == \A s, t \in Leaves(world) : Alike(s, t) => Nearly(world, scope, s, t)

ScopesInv ==
  /\ world \in Worlds /\ command \in Commands(world)
  /\ scope \in ScopesOf(world)
  /\ phase = "seed" => scope = [s \in SigsOf(world) |-> None]
  /\ phase \in Settling => SeedError(world, command) = None /\ AsWritten
  /\ phase \in Settling \ {"parent"} => AlikeAgree
  /\ phase = "parent" => AlikeNearly
  /\ SiblingsAlike
  /\ ScopesHonoured

\* A step that only fills in scopes keeps those that were written.
LEMMA FillingKeepsEntries ==
  ASSUME world \in Worlds, command \in Commands(world), SeedError(world, command) = None,
         AsWritten, world' = world, command' = command, exact \subseteq exact',
         \A x \in SigsOf(world) : scope[x] # None => scope'[x] = scope[x]
  PROVE  AsWritten'
<1>1. \A i \in DOMAIN command.scopes :
        /\ command.scopes[i].sig \in SigsOf(world)
        /\ command.scopes[i].scope \in Nat
  BY EntriesAreSound
<1>2. None \notin Nat
  BY NamesAssumption
<1> QED BY <1>1, <1>2 DEF AsWritten

LEMMA SeedStep == ScopesInv /\ SeedExplicit => ScopesInv'
<1> SUFFICES ASSUME ScopesInv, SeedExplicit PROVE ScopesInv'
  OBVIOUS
<1>1. /\ world \in Worlds /\ command \in Commands(world) /\ scope \in ScopesOf(world)
      /\ phase = "seed" /\ scope = [s \in SigsOf(world) |-> None]
      /\ world' = world /\ command' = command /\ universe' = universe
  BY DEF ScopesInv, SeedExplicit
<1>2. CASE SeedError(world, command) # None
  <2>1. phase' = "failed" /\ scope' = scope
    BY <1>2 DEF SeedExplicit, Fail
  <2> QED BY <1>1, <2>1 DEF ScopesInv, Settling, SiblingsAlike, ScopesHonoured, ScopesKnown
<1>3. CASE SeedError(world, command) = None
  <2>1. /\ scope' = [s \in SigsOf(world) |->
                       IF Entries(command, s) = {} THEN scope[s]
                       ELSE command.scopes[Max(Entries(command, s))].scope]
        /\ exact' = {entry.sig : entry \in {e \in Range(command.scopes) : e.exact}}
                       \cup command.additionalExact
        /\ phase' \in {"failed", "force"}
    BY <1>3 DEF SeedExplicit, Fail
  <2>2. command.scopes \in Seq(ScopeEntry(world))
    BY <1>1, CommandsAssumption
  <2>3. \A s \in SigsOf(world) : Entries(command, s) # {} =>
          /\ Max(Entries(command, s)) \in Entries(command, s)
          /\ \A i \in Entries(command, s) : Max(Entries(command, s)) >= i
    <3> SUFFICES ASSUME NEW s \in SigsOf(world), Entries(command, s) # {}
                 PROVE  /\ Max(Entries(command, s)) \in Entries(command, s)
                        /\ \A i \in Entries(command, s) : Max(Entries(command, s)) >= i
      OBVIOUS
    <3>1. Len(command.scopes) \in Nat /\ Entries(command, s) \in SUBSET (1 .. Len(command.scopes))
      BY <2>2 DEF Entries
    <3> QED BY <3>1, LastPlace
  <2>4. scope' \in ScopesOf(world)
    <3>1. \A s \in SigsOf(world) :
            (IF Entries(command, s) = {} THEN scope[s]
             ELSE command.scopes[Max(Entries(command, s))].scope) \in Nat \cup {None}
      <4> SUFFICES ASSUME NEW s \in SigsOf(world), Entries(command, s) # {}
                   PROVE  command.scopes[Max(Entries(command, s))].scope \in Nat
        BY <1>1 DEF ScopesOf
      <4>1. Max(Entries(command, s)) \in DOMAIN command.scopes
        BY <2>3 DEF Entries
      <4> QED BY <4>1, <1>1, <1>3, EntriesAreSound
    <3> QED BY <2>1, <3>1, Zenon DEF ScopesOf
  <2>5. AsWritten'
    <3> SUFFICES ASSUME NEW i \in DOMAIN command.scopes,
                        \A j \in DOMAIN command.scopes :
                          j > i => command.scopes[j].sig # command.scopes[i].sig
                 PROVE  /\ scope'[command.scopes[i].sig] = command.scopes[i].scope
                        /\ command.scopes[i].exact => command.scopes[i].sig \in exact'
      BY <1>1 DEF AsWritten
    <3> DEFINE s == command.scopes[i].sig
    <3>1. s \in SigsOf(world)
      BY <1>1, <1>3, EntriesAreSound
    <3>2. i \in Entries(command, s)
      BY DEF Entries
    <3>3. Max(Entries(command, s)) \in Entries(command, s) /\ Max(Entries(command, s)) >= i
      BY <2>3, <3>1, <3>2
    <3>4. Max(Entries(command, s)) = i
      <4>1. DOMAIN command.scopes \subseteq Nat
        BY <2>2
      <4>2. Max(Entries(command, s)) \in DOMAIN command.scopes
              /\ command.scopes[Max(Entries(command, s))].sig = command.scopes[i].sig
        BY <3>3 DEF Entries
      <4>3. ~(Max(Entries(command, s)) > i)
        BY <4>2
      <4>4. Max(Entries(command, s)) \in Nat /\ i \in Nat
        BY <4>1, <4>2
      <4> QED BY <3>3, <4>3, <4>4
    <3>5. scope'[s] = command.scopes[i].scope
      BY <2>1, <3>1, <3>2, <3>4
    <3>6. command.scopes[i].exact => s \in exact'
      <4>1. command.scopes[i] \in Range(command.scopes)
        BY DEF Range
      <4> QED BY <2>1, <4>1
    <3> QED BY <3>5, <3>6
  <2>6. AlikeAgree'
    <3> SUFFICES ASSUME NEW s \in Leaves(world), NEW t \in Leaves(world), Alike(s, t)
                 PROVE  scope'[s] = scope'[t]
      BY <1>1 DEF AlikeAgree, Alike
    <3>1. s \in SigsOf(world) /\ t \in SigsOf(world)
            /\ Entries(command, s) = {} /\ Entries(command, t) = {}
      BY DEF Leaves, Alike
    <3> QED BY <1>1, <2>1, <3>1
  <2> QED BY <1>1, <1>3, <2>1, <2>4, <2>5, <2>6
          DEF ScopesInv, Settling, SiblingsAlike, ScopesHonoured, ScopesKnown
<1> QED BY <1>2, <1>3

LEMMA ForceStep == ScopesInv /\ ForceMultiplicities => ScopesInv'
<1> SUFFICES ASSUME ScopesInv, ForceMultiplicities PROVE ScopesInv'
  OBVIOUS
<1> DEFINE one  == {s \in SigsOf(world) \ world.var : world.mult[s] = "one"}
           lone == {s \in SigsOf(world) \ world.var : world.mult[s] = "lone" /\ scope[s] = None}
<1>1. /\ world \in Worlds /\ command \in Commands(world) /\ scope \in ScopesOf(world)
      /\ SeedError(world, command) = None /\ AsWritten /\ AlikeAgree
      /\ world' = world /\ command' = command /\ universe' = universe
      /\ phase' = "abstract"
      /\ scope' = [s \in SigsOf(world) |-> IF s \in one \cup lone THEN 1 ELSE scope[s]]
      /\ exact' = exact \cup one
  BY DEF ScopesInv, ForceMultiplicities, Settling
<1>2. scope' \in ScopesOf(world)
  <2>1. \A s \in SigsOf(world) : (IF s \in one \cup lone THEN 1 ELSE scope[s]) \in Nat \cup {None}
    BY <1>1 DEF ScopesOf
  <2> QED BY <1>1, <2>1, Zenon DEF ScopesOf
<1>3. AsWritten'
  <2> SUFFICES ASSUME NEW i \in DOMAIN command.scopes,
                      \A j \in DOMAIN command.scopes :
                        j > i => command.scopes[j].sig # command.scopes[i].sig
               PROVE  /\ scope'[command.scopes[i].sig] = command.scopes[i].scope
                      /\ command.scopes[i].exact => command.scopes[i].sig \in exact'
    BY <1>1 DEF AsWritten
  <2> DEFINE s == command.scopes[i].sig
             m == command.scopes[i].scope
  <2>1. /\ s \in SigsOf(world) /\ m \in Nat
        /\ s \notin world.var => ~MultConflict(world.mult[s], m)
    BY <1>1, EntriesAreSound
  <2>2. scope[s] = m /\ (command.scopes[i].exact => s \in exact)
    BY <1>1 DEF AsWritten
  <2> HIDE DEF s, m
  <2>3. s \in one => m = 1
    BY <2>1 DEF MultConflict
  <2>4. s \notin lone
    BY <2>1, <2>2, NamesAssumption
  <2>5. scope'[s] = m /\ (command.scopes[i].exact => s \in exact')
    BY <1>1, <2>1, <2>2, <2>3, <2>4
  <2> QED BY <2>5 DEF s, m
<1>4. AlikeAgree'
  <2> SUFFICES ASSUME NEW s \in Leaves(world), NEW t \in Leaves(world), Alike(s, t)
               PROVE  scope'[s] = scope'[t]
    BY <1>1 DEF AlikeAgree, Alike
  <2>1. s \in SigsOf(world) /\ t \in SigsOf(world) /\ scope[s] = scope[t]
    BY <1>1 DEF Leaves, AlikeAgree
  <2>2. s \in one \cup lone <=> t \in one \cup lone
    BY <2>1 DEF Alike
  <2> HIDE DEF one, lone
  <2> QED BY <1>1, <2>1, <2>2
<1> QED BY <1>1, <1>2, <1>3, <1>4 DEF ScopesInv, Settling, SiblingsAlike, ScopesHonoured, ScopesKnown

LEMMA AbstractStep == ScopesInv /\ DeriveAbstract => ScopesInv'
<1> SUFFICES ASSUME ScopesInv, DeriveAbstract PROVE ScopesInv'
  OBVIOUS
<1>1. /\ world \in Worlds /\ command \in Commands(world) /\ scope \in ScopesOf(world)
      /\ SeedError(world, command) = None /\ AsWritten /\ AlikeAgree
      /\ world' = world /\ command' = command /\ exact' = exact
      /\ scope' = FullPass("abstract", world, scope)
      /\ phase' \in {"abstract", "overall"}
  BY DEF ScopesInv, DeriveAbstract, Settling, AfterPass
<1>2. /\ scope' \in ScopesOf(world)
      /\ \A x \in SigsOf(world) : scope[x] # None => scope'[x] = scope[x]
      /\ \A s, t : Twins(world, s, t) /\ scope[s] = scope[t] => scope'[s] = scope'[t]
  BY <1>1, AbstractPass
<1>3. AsWritten'
  BY <1>1, <1>2, FillingKeepsEntries
<1>4. AlikeAgree'
  BY <1>1, <1>2 DEF AlikeAgree, Alike, Twins
<1> QED BY <1>1, <1>2, <1>3, <1>4 DEF ScopesInv, Settling, SiblingsAlike, ScopesHonoured, ScopesKnown

LEMMA OverallStep == ScopesInv /\ DeriveOverall => ScopesInv'
<1> SUFFICES ASSUME ScopesInv, DeriveOverall PROVE ScopesInv'
  OBVIOUS
<1> DEFINE overall == EffectiveOverall(command)
<1>1. /\ world \in Worlds /\ command \in Commands(world) /\ scope \in ScopesOf(world)
      /\ SeedError(world, command) = None /\ AsWritten /\ AlikeAgree
      /\ world' = world /\ command' = command /\ exact' = exact
  BY DEF ScopesInv, DeriveOverall, Settling
<1>2. CASE phase' = "failed" /\ scope' = scope
  BY <1>1, <1>2 DEF ScopesInv, Settling, SiblingsAlike, ScopesHonoured, ScopesKnown
<1>3. CASE ~(phase' = "failed" /\ scope' = scope)
  <2> DEFINE unscoped == {s \in TopLevel(world) : scope[s] = None /\ ~ChildlessEnum(world, s)}
  <2>1. /\ ~(overall = None /\ unscoped # {})
        /\ scope' = [s \in SigsOf(world) |-> OverallAt(world, scope, overall, s)]
        /\ phase' \in {"abstract", "overall", "parent"}
    BY <1>3 DEF DeriveOverall, Fail, AfterPass
  <2>2. overall \in Nat \cup {None}
    BY <1>1, CommandsAssumption DEF EffectiveOverall, DefaultOverall
  <2>3. ASSUME NEW s \in SigsOf(world)
        PROVE  /\ OverallAt(world, scope, overall, s) \in Nat \cup {None}
               /\ scope[s] # None => OverallAt(world, scope, overall, s) = scope[s]
    <3>1. scope[s] \in Nat \cup {None}
      BY <1>1 DEF ScopesOf
    <3> HIDE DEF overall
    <3> QED BY <3>1, <2>2 DEF OverallAt
  <2>4. scope' \in ScopesOf(world)
    BY <2>1, <2>3, Zenon DEF ScopesOf
  <2>5. \A x \in SigsOf(world) : scope[x] # None => scope'[x] = scope[x]
    BY <2>1, <2>3
  <2>6. AsWritten'
    BY <1>1, <2>5, FillingKeepsEntries
  <2>7. AlikeAgree'
    <3> SUFFICES ASSUME NEW s \in Leaves(world), NEW t \in Leaves(world), Alike(s, t)
                 PROVE  scope'[s] = scope'[t]
      BY <1>1 DEF AlikeAgree, Alike
    <3>1. s \in SigsOf(world) /\ t \in SigsOf(world) /\ scope[s] = scope[t]
      BY <1>1 DEF Leaves, AlikeAgree
    <3>2. s \in TopLevel(world) <=> t \in TopLevel(world)
      BY <3>1 DEF TopLevel, Alike
    <3>3. ChildlessEnum(world, s) <=> ChildlessEnum(world, t)
      BY DEF ChildlessEnum, Alike, Leaves
    <3>4. OverallAt(world, scope, overall, s) = OverallAt(world, scope, overall, t)
      BY <3>1, <3>2, <3>3 DEF OverallAt
    <3> QED BY <2>1, <3>1, <3>4
  <2>8. AlikeNearly'
    BY <2>7 DEF AlikeAgree, AlikeNearly, Nearly
  <2> QED BY <1>1, <2>1, <2>4, <2>6, <2>7, <2>8
          DEF ScopesInv, Settling, SiblingsAlike, ScopesHonoured, ScopesKnown
<1> QED BY <1>2, <1>3

LEMMA ParentStep == ScopesInv /\ DeriveParent => ScopesInv'
<1> SUFFICES ASSUME ScopesInv, DeriveParent PROVE ScopesInv'
  OBVIOUS
<1>1. /\ world \in Worlds /\ command \in Commands(world) /\ scope \in ScopesOf(world)
      /\ SeedError(world, command) = None /\ AsWritten /\ AlikeNearly
      /\ world' = world /\ command' = command /\ exact' = exact
      /\ scope' = FullPass("parent", world, scope)
      /\ scope' # scope => phase' = "parent"
      /\ scope' = scope => phase' \in {"abstract", "some"}
  BY DEF ScopesInv, DeriveParent, Settling, AfterPass
<1>2. /\ scope' \in ScopesOf(world)
      /\ \A x \in SigsOf(world) : scope[x] # None => scope'[x] = scope[x]
      /\ \A s, t : Twins(world, s, t) /\ Nearly(world, scope, s, t)
           => /\ Nearly(world, scope', s, t)
              /\ scope' = scope => scope[s] = scope[t]
  BY <1>1, ParentPass
<1>3. AsWritten'
  BY <1>1, <1>2, FillingKeepsEntries
<1>4. AlikeNearly'
  BY <1>1, <1>2 DEF AlikeNearly, Alike, Twins
<1>5. scope' = scope => AlikeAgree'
  BY <1>1, <1>2 DEF AlikeAgree, AlikeNearly, Alike, Twins
<1> QED BY <1>1, <1>2, <1>3, <1>4, <1>5 DEF ScopesInv, Settling, SiblingsAlike, ScopesHonoured, ScopesKnown

LEMMA SomeStep == ScopesInv /\ RaiseSome => ScopesInv'
<1> SUFFICES ASSUME ScopesInv, RaiseSome PROVE ScopesInv'
  OBVIOUS
<1> DEFINE raised(s) == Max({1} \cup ({scope[s]} \ {None}))
           some == {s \in SigsOf(world) \ world.var : world.mult[s] = "some"}
<1>1. /\ world \in Worlds /\ command \in Commands(world) /\ scope \in ScopesOf(world)
      /\ SeedError(world, command) = None /\ AsWritten /\ AlikeAgree
      /\ world' = world /\ command' = command /\ exact' = exact
      /\ scope' = [s \in SigsOf(world) |-> IF s \in some THEN raised(s) ELSE scope[s]]
      /\ phase' = "finish"
  BY DEF ScopesInv, RaiseSome, Settling
<1>2. ASSUME NEW s \in SigsOf(world)
      PROVE  /\ raised(s) \in Nat
             /\ scope[s] # None => raised(s) = IF 1 >= scope[s] THEN 1 ELSE scope[s]
  <2>1. scope[s] \in Nat \cup {None}
    BY <1>1 DEF ScopesOf
  <2>2. CASE scope[s] = None
    <3>1. {1} \cup ({scope[s]} \ {None}) = {1, 1}
      BY <2>2
    <3>2. Max({1, 1}) = 1
      BY GreatestOfTwo
    <3> QED BY <2>2, <3>1, <3>2
  <2>3. CASE scope[s] # None
    <3>1. {1} \cup ({scope[s]} \ {None}) = {1, scope[s]}
      BY <2>3
    <3>2. Max({1, scope[s]}) = IF 1 >= scope[s] THEN 1 ELSE scope[s]
      BY <2>1, <2>3, GreatestOfTwo
    <3> QED BY <2>1, <2>3, <3>1, <3>2
  <2> QED BY <2>2, <2>3
<1> HIDE DEF raised
<1>3. scope' \in ScopesOf(world)
  <2>1. \A s \in SigsOf(world) : (IF s \in some THEN raised(s) ELSE scope[s]) \in Nat \cup {None}
    BY <1>1, <1>2 DEF ScopesOf
  <2> QED BY <1>1, <2>1, Zenon DEF ScopesOf
<1>4. AsWritten'
  <2> SUFFICES ASSUME NEW i \in DOMAIN command.scopes,
                      \A j \in DOMAIN command.scopes :
                        j > i => command.scopes[j].sig # command.scopes[i].sig
               PROVE  /\ scope'[command.scopes[i].sig] = command.scopes[i].scope
                      /\ command.scopes[i].exact => command.scopes[i].sig \in exact'
    BY <1>1 DEF AsWritten
  <2> DEFINE s == command.scopes[i].sig
             m == command.scopes[i].scope
  <2>1. /\ s \in SigsOf(world) /\ m \in Nat
        /\ s \notin world.var => ~MultConflict(world.mult[s], m)
    BY <1>1, EntriesAreSound
  <2>2. scope[s] = m /\ (command.scopes[i].exact => s \in exact)
    BY <1>1 DEF AsWritten
  <2> HIDE DEF s, m
  <2>3. s \in some => m >= 1
    BY <2>1 DEF MultConflict
  <2>4. s \in some => raised(s) = m
    BY <1>2, <2>1, <2>2, <2>3, NamesAssumption
  <2>5. scope'[s] = m /\ (command.scopes[i].exact => s \in exact')
    BY <1>1, <2>1, <2>2, <2>4
  <2> QED BY <2>5 DEF s, m
<1>5. AlikeAgree'
  <2> SUFFICES ASSUME NEW s \in Leaves(world), NEW t \in Leaves(world), Alike(s, t)
               PROVE  scope'[s] = scope'[t]
    BY <1>1 DEF AlikeAgree, Alike
  <2>1. s \in SigsOf(world) /\ t \in SigsOf(world) /\ scope[s] = scope[t]
    BY <1>1 DEF Leaves, AlikeAgree
  <2>2. s \in some <=> t \in some
    BY <2>1 DEF Alike
  <2>3. raised(s) = raised(t)
    BY <2>1 DEF raised
  <2> HIDE DEF some
  <2> QED BY <1>1, <2>1, <2>2, <2>3
<1> QED BY <1>1, <1>3, <1>4, <1>5 DEF ScopesInv, Settling, SiblingsAlike, ScopesHonoured, ScopesKnown

LEMMA FinishStep == ScopesInv /\ Finish => ScopesInv'
<1> SUFFICES ASSUME ScopesInv, Finish PROVE ScopesInv'
  OBVIOUS
<1>1. /\ world \in Worlds /\ command \in Commands(world) /\ scope \in ScopesOf(world)
      /\ SeedError(world, command) = None /\ AsWritten /\ AlikeAgree
      /\ world' = world /\ command' = command /\ exact' = exact
  BY DEF ScopesInv, Finish, Settling
<1>2. CASE phase' = "failed" /\ scope' = scope
  BY <1>1, <1>2 DEF ScopesInv, Settling, SiblingsAlike, ScopesHonoured, ScopesKnown
<1>3. CASE ~(phase' = "failed" /\ scope' = scope)
  <2> DEFINE sure == SubtreeLower(world, scope, exact)
  <2>1. /\ ~\E s \in SigsOf(world) : scope[s] = None
        /\ scope' = [s \in SigsOf(world) |-> Max({scope[s], KidsLower(world, sure, s)})]
        /\ universe'.strings = Strings(command)
        /\ phase' = "bounds"
    <3>1. UNCHANGED <<scope, universe>> => scope' = scope
      OBVIOUS
    <3>2. /\ ~\E s \in SigsOf(world) : scope[s] = None
          /\ ~(Bitwidth(command) > MaxBitwidth)
      BY <1>3, <3>1 DEF Finish, Fail
    <3>3. /\ scope' = [s \in SigsOf(world) |-> Max({scope[s], KidsLower(world, sure, s)})]
          /\ universe' = [minted  |-> Minted(world, scope, exact),
                          strings |-> Strings(command),
                          maxseq  |-> MaxSeq(command)]
          /\ phase' = "bounds"
      BY <3>2, Zenon DEF Finish
    <3> QED BY <3>2, <3>3
  <2>2. \A s \in SigsOf(world) : scope[s] \in Nat
    BY <1>1, <2>1 DEF ScopesOf
  <2>3. Len(world.parent) \in Nat /\ IsForest(world) /\ Univ \notin Nat
    BY <1>1, WorldsAreSound
  <2>4. \A s \in SigsOf(world) : KidsLower(world, sure, s) \in Nat
    BY <2>2, <2>3, SharesAreNaturals
  <2>5. SubtreeLower(world, scope', exact) = sure
    <3>1. SubtreeLower(world, [s \in SigsOf(world) |->
            Max({scope[s], KidsLower(world, SubtreeLower(world, scope, exact), s)})], exact) = sure
      BY <2>2, <2>3, RaisingKeepsShares
    <3> QED BY <2>1, <3>1
  <2> HIDE DEF sure
  <2>6. scope' \in ScopesOf(world)
    <3>1. \A s \in SigsOf(world) : Max({scope[s], KidsLower(world, sure, s)}) \in Nat \cup {None}
      BY <2>2, <2>4, GreatestOfTwo
    <3> QED BY <2>1, <3>1, Zenon DEF ScopesOf
  <2>7. AlikeAgree'
    <3> SUFFICES ASSUME NEW s \in Leaves(world), NEW t \in Leaves(world), Alike(s, t)
                 PROVE  scope'[s] = scope'[t]
      BY <1>1 DEF AlikeAgree, Alike
    <3>1. /\ s \in SigsOf(world) /\ t \in SigsOf(world) /\ scope[s] = scope[t]
          /\ Children(world, s) = Children(world, t)
      BY <1>1 DEF Leaves, AlikeAgree
    <3>2. KidsLower(world, sure, s) = KidsLower(world, sure, t)
      BY <3>1 DEF KidsLower
    <3> QED BY <2>1, <3>1, <3>2
  <2>8. ScopesHonoured'
    <3>1. ASSUME NEW i \in DOMAIN command.scopes,
                 \A j \in DOMAIN command.scopes :
                   j > i => command.scopes[j].sig # command.scopes[i].sig
          PROVE  /\ scope'[command.scopes[i].sig]
                      = Max({command.scopes[i].scope, KidsLower(world, sure, command.scopes[i].sig)})
                 /\ command.scopes[i].exact => command.scopes[i].sig \in exact
      <4>1. command.scopes[i].sig \in SigsOf(world)
        BY <1>1, EntriesAreSound
      <4>2. /\ scope[command.scopes[i].sig] = command.scopes[i].scope
            /\ command.scopes[i].exact => command.scopes[i].sig \in exact
        BY <1>1, <3>1 DEF AsWritten
      <4> QED BY <2>1, <4>1, <4>2
    <3>2. command.maxstring # None =>
            Cardinality(universe'.strings) = Max({command.maxstring, Cardinality(command.literals)})
      <4> SUFFICES ASSUME command.maxstring # None
                   PROVE  Cardinality(Strings(command))
                            = Max({command.maxstring, Cardinality(command.literals)})
        BY <2>1
      <4>1. /\ command.maxstring \in Nat
            /\ command.literals \subseteq Int /\ IsFiniteSet(command.literals)
        BY <1>1, CommandsAssumption
      <4> QED BY <4>1, StringsAreAsMany
    <3> QED BY <1>1, <2>5, <3>1, <3>2 DEF ScopesHonoured
  <2> QED BY <1>1, <2>1, <2>6, <2>7, <2>8 DEF ScopesInv, Settling, SiblingsAlike, AlikeAgree
<1> QED BY <1>2, <1>3

\* What is known of the scopes no later step touches.
LEMMA BoundsStep ==
  ScopesInv /\ (AtomBounds \/ AllocRelations \/ PinOrdering \/ EmitConstraints) => ScopesInv'
<1> SUFFICES ASSUME ScopesInv, AtomBounds \/ AllocRelations \/ PinOrdering \/ EmitConstraints
             PROVE  ScopesInv'
  OBVIOUS
<1>1. /\ world' = world /\ command' = command /\ scope' = scope /\ exact' = exact
      /\ universe' = universe
      /\ phase \in {"bounds", "relations", "pin", "constrain"}
      /\ phase' \in {"relations", "pin", "constrain", "done"}
  BY DEF AtomBounds, AllocRelations, PinOrdering, EmitConstraints
<1>2. ScopesKnown
  BY <1>1 DEF ScopesKnown
<1>3. SiblingsAlike'
  BY <1>1, <1>2 DEF ScopesInv, SiblingsAlike, Alike
<1>4. ScopesHonoured'
  BY <1>1, <1>2 DEF ScopesInv, ScopesHonoured
<1> QED BY <1>1, <1>3, <1>4 DEF ScopesInv, Settling

LEMMA ScopesInvHolds == Spec => []ScopesInv
<1>1. Init => ScopesInv
  <2> SUFFICES ASSUME Init PROVE ScopesInv
    OBVIOUS
  <2>1. /\ world \in Worlds /\ command \in Commands(world) /\ phase = "seed"
        /\ scope = [s \in SigsOf(world) |-> None]
    BY DEF Init, ScopeInit
  <2>2. scope \in ScopesOf(world)
    BY <2>1 DEF ScopesOf
  <2> QED BY <2>1, <2>2 DEF ScopesInv, Settling, SiblingsAlike, ScopesHonoured, ScopesKnown
<1>2. ScopesInv /\ [Next]_vars => ScopesInv'
  <2>1. ScopesInv /\ ScopeNext => ScopesInv'
    BY SeedStep, ForceStep, AbstractStep, OverallStep, ParentStep, SomeStep, FinishStep DEF ScopeNext
  <2>2. ScopesInv /\ UNCHANGED vars => ScopesInv'
    BY DEF ScopesInv, vars, scopeVars, AsWritten, AlikeAgree, AlikeNearly, Alike, SiblingsAlike,
           ScopesHonoured, ScopesKnown
  <2> QED BY <2>1, <2>2, BoundsStep DEF Next
<1> QED BY <1>1, <1>2, PTL DEF Spec

\* Siblings that are declared alike get the same scope, for every world and command: in
\* between one may have its parent's scope before the other, but a pass of the parent
\* rule is left only when it has found nobody still to inherit.
THEOREM SiblingsGetTheSame == Spec => []SiblingsAlike
<1>1. ScopesInv => SiblingsAlike
  BY DEF ScopesInv
<1> QED BY <1>1, ScopesInvHolds, PTL

\* What a command writes is what its signature gets, for every world and command, or what
\* its children are sure to have when that is more; and the strings are padded to their
\* scope exactly.
THEOREM CommandIsHonoured == Spec => []ScopesHonoured
<1>1. ScopesInv => ScopesHonoured
  BY DEF ScopesInv
<1> QED BY <1>1, ScopesInvHolds, PTL
=============================================================================
