--------------------------- MODULE CatalogProofs ---------------------------
(***************************************************************************)
(* Proofs about CatalogSystem.  The first half is about catalogs as trees: *)
(* Below is a recursion on levels, and what it computes is proved with the *)
(* least level at which a claim would fail.                                *)
(***************************************************************************)
EXTENDS CatalogSystem, TLAPS, FiniteSetTheorems, WellFoundedInduction

LEMMA Least ==
    ASSUME NEW T, T \subseteq Nat, T # {}
    PROVE  \E n \in T : \A m \in T : ~(m < n)
<1> DEFINE U == {1 .. n : n \in T}
<1>1. IsWellFoundedOn(StrictSubsetOrdering(Nat), FiniteSubsetsOf(Nat))
  BY FS_StrictSubsetOrderingWellFounded
<1>2. U \subseteq FiniteSubsetsOf(Nat)
  BY FS_Interval DEF FiniteSubsetsOf
<1>3. U # {}
  OBVIOUS
<1>4. PICK x \in U : \A y \in U : ~(<<y, x>> \in StrictSubsetOrdering(Nat))
  <2> HIDE DEF U
  <2> QED BY <1>1, <1>2, <1>3, WFMin
<1>5. PICK n \in T : x = 1 .. n
  OBVIOUS
<1>6. SUFFICES ASSUME NEW m \in T, m < n PROVE FALSE
  OBVIOUS
<1>7. /\ 1 .. m \in SUBSET Nat /\ 1 .. n \in SUBSET Nat
      /\ 1 .. m \subseteq 1 .. n /\ n \in 1 .. n /\ n \notin 1 .. m
  BY <1>6
<1>8. <<1 .. m, 1 .. n>> \in StrictSubsetOrdering(Nat)
  BY <1>7 DEF StrictSubsetOrdering
<1> QED BY <1>4, <1>5, <1>8

-----------------------------------------------------------------------------
(* Levels of a catalog.                                                    *)

DepthNat == Depth \in Nat /\ Depth > 0

LEMMA DepthIsNat == DepthNat
<1>1. Cardinality(Folder) \in Nat
  BY DepthAssumption, FS_CardinalityType
<1> QED BY <1>1, DepthAssumption, CatalogAssumption DEF DepthNat

Beneath(k, s) == {m \in Node : In(k, m) /\ k[m].parent \in s}
NextLevel(k, n, s) == {n} \cup Beneath(k, s)

\* f is the function Below(k, n) defines, up to level d.
Down(k, n, d, f) == f = [i \in 0 .. d |-> IF i = 0 THEN {n} ELSE NextLevel(k, n, f[i - 1])]

LEMMA Level ==
    ASSUME NEW k, NEW n, NEW d \in Nat, NEW f, Down(k, n, d, f)
    PROVE  \A i \in 1 .. d : f[i] = NextLevel(k, n, f[i - 1])
<1>1. \A i \in 1 .. d : i \in 0 .. d /\ i # 0
  OBVIOUS
<1> QED BY <1>1 DEF Down

LEMMA LevelZero ==
    ASSUME NEW k, NEW n, NEW d \in Nat, NEW f, Down(k, n, d, f)
    PROVE  f[0] = {n}
<1>1. 0 \in 0 .. d
  OBVIOUS
<1> QED BY <1>1 DEF Down

LEMMA DownExists ==
    ASSUME NEW k, NEW n, NEW d \in Nat
    PROVE  \E f : Down(k, n, d, f)
<1> DEFINE T == {e \in Nat : ~\E f : Down(k, n, e, f)}
<1>1. SUFFICES ASSUME T # {} PROVE FALSE
  OBVIOUS
<1>2. PICK e \in Nat : (~\E f : Down(k, n, e, f)) /\ \A m \in Nat : m < e => \E f : Down(k, n, m, f)
  <2>1. PICK e \in T : \A m \in T : ~(m < e)
    <3>1. T \subseteq Nat
      OBVIOUS
    <3> HIDE DEF T
    <3> QED BY <1>1, <3>1, Least
  <2> QED BY <2>1
<1> HIDE DEF T
<1>3. e # 0
  <2> DEFINE g == [i \in 0 .. 0 |-> {n}]
  <2>1. g = [i \in 0 .. 0 |-> IF i = 0 THEN {n} ELSE NextLevel(k, n, g[i - 1])]
    <3>1. \A i \in 0 .. 0 : i = 0
      OBVIOUS
    <3>2. \A h : [i \in 0 .. 0 |-> IF i = 0 THEN {n} ELSE NextLevel(k, n, h[i - 1])] = g
      BY <3>1
    <3> QED BY <3>2
  <2>2. Down(k, n, 0, g)
    BY <2>1 DEF Down
  <2> HIDE DEF g
  <2> QED BY <1>2, <2>2
<1>4. PICK c \in Nat : e = c + 1
  <2>1. e - 1 \in Nat /\ e = (e - 1) + 1
    BY <1>3
  <2> QED BY <2>1
<1>5. PICK f : Down(k, n, c, f)
  BY <1>2, <1>4
<1>6. /\ f[0] = {n}
      /\ \A i \in 1 .. c : f[i] = NextLevel(k, n, f[i - 1])
  <2>1. Down(k, n, c, f)
    BY <1>5
  <2>2. f[0] = {n}
    BY <2>1, LevelZero
  <2>3. \A i \in 1 .. c : f[i] = NextLevel(k, n, f[i - 1])
    BY <2>1, Level
  <2> QED BY <2>2, <2>3
<1> DEFINE g == [i \in 0 .. e |-> IF i = 0 THEN {n} ELSE NextLevel(k, n, f[i - 1])]
<1>7. \A i \in 0 .. c : g[i] = f[i]
  <2>1. \A i \in 0 .. c : i \in 0 .. e /\ (i # 0 => i \in 1 .. c)
    BY <1>4
  <2> QED BY <1>6, <2>1
<1>8. \A i \in 0 .. e : i # 0 => g[i - 1] = f[i - 1]
  <2> HIDE DEF g
  <2>1. \A i \in 0 .. e : i # 0 => i - 1 \in 0 .. c
    BY <1>4
  <2> QED BY <1>7, <2>1
<1>9. g = [i \in 0 .. e |-> IF i = 0 THEN {n} ELSE NextLevel(k, n, g[i - 1])]
  <2>1. g = [i \in 0 .. e |-> IF i = 0 THEN {n} ELSE NextLevel(k, n, f[i - 1])]
    OBVIOUS
  <2> HIDE DEF g
  <2> QED BY <1>8, <2>1
<1>10. Down(k, n, e, g)
  BY <1>9 DEF Down
<1> HIDE DEF g
<1> QED BY <1>2, <1>10

LEMMA BelowIs ==
    ASSUME NEW k, NEW n
    PROVE  \E f : Down(k, n, Depth, f) /\ Below(k, n) = f[Depth]
<1>1. PICK f : Down(k, n, Depth, f)
  BY DownExists, DepthIsNat DEF DepthNat
<1> DEFINE g == CHOOSE g : Down(k, n, Depth, g)
<1>2. Down(k, n, Depth, g)
  BY <1>1
<1>3. Below(k, n) = g[Depth]
  BY DEF Below, Down, NextLevel, Beneath
<1> QED BY <1>2, <1>3

\* What one level has, the next one has too.
LEMMA Monotone ==
    ASSUME NEW k, NEW n, NEW d \in Nat, NEW f, Down(k, n, d, f)
    PROVE  /\ \A i \in 0 .. d : n \in f[i] /\ f[i] \subseteq {n} \cup Node
           /\ \A i \in 1 .. d : f[i - 1] \subseteq f[i]
<1>1. \A i \in 0 .. d : n \in f[i] /\ f[i] \subseteq {n} \cup Node
  BY DEF Down, NextLevel, Beneath
<1>2. \A i \in 1 .. d : f[i] = NextLevel(k, n, f[i - 1])
  BY Level
<1> DEFINE T == {i \in 1 .. d : ~(f[i - 1] \subseteq f[i])}
<1>3. SUFFICES ASSUME T # {} PROVE FALSE
  BY <1>1
<1>4. PICK i \in 1 .. d : /\ ~(f[i - 1] \subseteq f[i])
                          /\ \A j \in 1 .. d : j < i => f[j - 1] \subseteq f[j]
  <2>1. PICK i \in T : \A m \in T : ~(m < i)
    <3>1. T \subseteq Nat
      OBVIOUS
    <3> HIDE DEF T
    <3> QED BY <1>3, <3>1, Least
  <2> QED BY <2>1
<1> HIDE DEF T
<1>5. CASE i = 1
  <2>1. f[0] = {n}
    BY LevelZero
  <2>2. n \in f[1]
    BY <1>1, <1>5
  <2> QED BY <1>4, <1>5, <2>1, <2>2
<1>6. CASE i # 1
  <2>1. PICK j \in 1 .. d : i = j + 1
    <3>1. i - 1 \in 1 .. d /\ i = (i - 1) + 1
      BY <1>6
    <3> QED BY <3>1
  <2>2. i - 1 = j /\ j < i
    BY <2>1
  <2>3. f[i] = NextLevel(k, n, f[i - 1])
    BY <1>2
  <2>4. f[j] = NextLevel(k, n, f[j - 1])
    BY <1>2
  <2>5. f[j - 1] \subseteq f[j]
    BY <1>4, <2>2
  <2>6. NextLevel(k, n, f[j - 1]) \subseteq NextLevel(k, n, f[j])
    BY <2>5 DEF NextLevel, Beneath
  <2> QED BY <1>4, <2>2, <2>3, <2>4, <2>6
<1> QED BY <1>5, <1>6

-----------------------------------------------------------------------------
(* Trees.                                                                  *)

Shelf == [Node -> Entry \cup {NoEntry}]

\* Directories are folders, and every node there has one above it, or the root.
Kinds(k)  == \A n \in Node : In(k, n) => (k[n].type = "TITLE" <=> n \in Folder)
Housed(k) == \A n \in Node : In(k, n) => IsDir(k, k[n].parent)

\* No set of nodes is its own ground.
Grounded(k) ==
    \A S \in SUBSET Node : S # {} /\ (\A n \in S : In(k, n)) => \E n \in S : k[n].parent \notin S

Tree(k) == Housed(k) /\ Grounded(k)

LEMMA RootIsNoNode == Root \notin Node /\ Folder \subseteq Node /\ Nobody \notin Node
BY NamesAssumption DEF Node

\* As there are more levels than folders, Below(k, n) has all that is under n.
LEMMA Closure ==
    ASSUME NEW k, Housed(k), Kinds(k), NEW n \in Folder \cup {Root},
           NEW m \in Node, In(k, m), k[m].parent \in Below(k, n)
    PROVE  m \in Below(k, n)
<1>d. Depth \in Nat
  BY DepthIsNat DEF DepthNat
<1>1. PICK f : Down(k, n, Depth, f) /\ Below(k, n) = f[Depth]
  BY BelowIs
<1>2. /\ f[0] = {n}
      /\ \A i \in 1 .. Depth : f[i] = NextLevel(k, n, f[i - 1])
  <2>1. Down(k, n, Depth, f)
    BY <1>1
  <2>2. f[0] = {n}
    BY <2>1, <1>d, LevelZero
  <2>3. \A i \in 1 .. Depth : f[i] = NextLevel(k, n, f[i - 1])
    BY <2>1, <1>d, Level
  <2> QED BY <2>2, <2>3
<1>3. /\ \A i \in 0 .. Depth : n \in f[i] /\ f[i] \subseteq {n} \cup Node
      /\ \A i \in 1 .. Depth : f[i - 1] \subseteq f[i]
  BY <1>1, <1>d, Monotone
<1>4. SUFFICES ASSUME m \notin f[Depth] PROVE FALSE
  BY <1>1
<1>5. \A x \in Node : In(k, x) => k[x].parent \in Folder \cup {Root}
  BY DEF Housed, Kinds, IsDir
<1>6. ASSUME NEW i \in 1 .. Depth, f[i] \cap Folder \subseteq f[i - 1] PROVE FALSE
  <2>i. i \in Nat /\ i - 1 \in 0 .. Depth /\ i \in 0 .. Depth
    BY <1>d
  <2>1. Beneath(k, f[i]) \subseteq f[i]
    <3>1. SUFFICES ASSUME NEW x \in Node, In(k, x), k[x].parent \in f[i] PROVE x \in f[i]
      BY DEF Beneath
    <3>2. CASE k[x].parent \in Folder
      <4>1. k[x].parent \in f[i - 1]
        BY <1>6, <3>1, <3>2
      <4> QED BY <1>2, <3>1, <4>1 DEF Beneath, NextLevel
    <3>3. CASE k[x].parent = Root
      <4>1. n = Root
        BY <1>3, <2>i, <3>1, <3>3, RootIsNoNode
      <4>2. k[x].parent \in f[i - 1]
        BY <1>3, <2>i, <3>3, <4>1
      <4> QED BY <1>2, <3>1, <4>2 DEF Beneath, NextLevel
    <3> QED BY <1>5, <3>1, <3>2, <3>3
  <2> DEFINE T == {j \in i .. Depth : f[j] # f[i]}
  <2>2. T = {}
    <3>1. SUFFICES ASSUME T # {} PROVE FALSE
      OBVIOUS
    <3>2. PICK j \in i .. Depth : f[j] # f[i] /\ \A l \in i .. Depth : l < j => f[l] = f[i]
      <4>1. PICK j \in T : \A l \in T : ~(l < j)
        <5>1. T \subseteq Nat
          BY <2>i
        <5> HIDE DEF T
        <5> QED BY <3>1, <5>1, Least
      <4> QED BY <4>1
    <3> HIDE DEF T
    <3>3. j # i /\ j \in 1 .. Depth /\ j - 1 \in i .. Depth /\ j - 1 < j
      BY <2>i, <3>2, <1>d
    <3>4. f[j - 1] = f[i]
      BY <3>2, <3>3
    <3>5. f[j] = NextLevel(k, n, f[i])
      BY <1>2, <3>3, <3>4
    <3>6. f[i] \subseteq f[j]
      BY <1>3, <3>3, <3>4
    <3> QED BY <1>3, <2>i, <2>1, <3>2, <3>5, <3>6 DEF NextLevel
  <2>3. f[Depth] = f[i]
    <3>1. Depth \in i .. Depth
      BY <1>d
    <3> QED BY <2>2, <3>1
  <2> QED BY <1>1, <1>4, <2>1, <2>3 DEF Beneath
<1>7. IsFiniteSet(Folder) /\ Cardinality(Folder) \in Nat /\ Depth > Cardinality(Folder)
  BY DepthAssumption, FS_CardinalityType
<1> DEFINE F(i) == f[i] \cap Folder
<1>8. \A i \in 0 .. Depth : IsFiniteSet(F(i)) /\ Cardinality(F(i)) \in Nat
  BY <1>7, FS_Intersection, FS_CardinalityType
<1> DEFINE T == {i \in 0 .. Depth : ~(Cardinality(F(i)) >= i)}
<1>9. T = {}
  <2>1. SUFFICES ASSUME T # {} PROVE FALSE
    OBVIOUS
  <2>2. PICK i \in 0 .. Depth : /\ ~(Cardinality(F(i)) >= i)
                                /\ \A j \in 0 .. Depth : j < i => Cardinality(F(j)) >= j
    <3>1. PICK i \in T : \A j \in T : ~(j < i)
      <4>1. T \subseteq Nat
        BY <1>d
      <4> HIDE DEF T
      <4> QED BY <2>1, <4>1, Least
    <3> QED BY <3>1
  <2> HIDE DEF T
  <2>3. i # 0
    BY <1>8, <2>2
  <2>4. PICK j \in 0 .. Depth : i = j + 1
    <3>1. i - 1 \in 0 .. Depth /\ i = (i - 1) + 1
      BY <2>3, <1>d
    <3> QED BY <3>1
  <2>5. i \in 1 .. Depth /\ i - 1 = j /\ j < i
    BY <2>4, <1>d
  <2>6. PICK x : x \in F(i) /\ x \notin f[j]
    BY <1>6, <2>5
  <2>7. F(j) \subseteq F(i)
    BY <1>3, <2>5
  <2> DEFINE G == F(j) \cup {x}
  <2>8. IsFiniteSet(G) /\ Cardinality(G) = Cardinality(F(j)) + 1
    BY <1>8, <2>6, FS_AddElement
  <2>9. Cardinality(G) <= Cardinality(F(i))
    <3>1. G \in SUBSET F(i)
      BY <2>6, <2>7
    <3> HIDE DEF G, F
    <3> QED BY <1>8, <3>1, FS_Subset
  <2>10. Cardinality(F(j)) >= j
    BY <2>2, <2>5
  <2> HIDE DEF G, F
  <2> QED BY <1>8, <2>2, <2>4, <2>8, <2>9, <2>10
<1>10. Cardinality(F(Depth)) >= Depth
  <2>1. Depth \in 0 .. Depth
    BY <1>d
  <2> QED BY <1>9, <2>1
<1>11. Cardinality(F(Depth)) <= Cardinality(Folder)
  BY <1>7, FS_Subset
<1>12. Cardinality(F(Depth)) \in Nat
  BY <1>8, <1>d
<1> HIDE DEF F
<1> QED BY <1>7, <1>d, <1>10, <1>11, <1>12

LEMMA ChildlessBelow ==
    ASSUME NEW k, NEW n \in Node, Children(k, n) = {}
    PROVE  Below(k, n) = {n}
<1>d. Depth \in Nat
  BY DepthIsNat DEF DepthNat
<1>1. PICK f : Down(k, n, Depth, f) /\ Below(k, n) = f[Depth]
  BY BelowIs
<1>2. /\ f[0] = {n}
      /\ \A i \in 1 .. Depth : f[i] = NextLevel(k, n, f[i - 1])
  <2>1. Down(k, n, Depth, f)
    BY <1>1
  <2>2. f[0] = {n}
    BY <2>1, <1>d, LevelZero
  <2>3. \A i \in 1 .. Depth : f[i] = NextLevel(k, n, f[i - 1])
    BY <2>1, <1>d, Level
  <2> QED BY <2>2, <2>3
<1>3. Beneath(k, {n}) = {}
  BY DEF Beneath, Children
<1> DEFINE T == {i \in 0 .. Depth : f[i] # {n}}
<1>4. T = {}
  <2>1. SUFFICES ASSUME T # {} PROVE FALSE
    OBVIOUS
  <2>2. PICK i \in 0 .. Depth : f[i] # {n} /\ \A j \in 0 .. Depth : j < i => f[j] = {n}
    <3>1. PICK i \in T : \A j \in T : ~(j < i)
      <4>1. T \subseteq Nat
        BY <1>d
      <4> HIDE DEF T
      <4> QED BY <2>1, <4>1, Least
    <3> QED BY <3>1
  <2> HIDE DEF T
  <2>3. i # 0
    BY <1>2, <2>2
  <2>4. i \in 1 .. Depth /\ i - 1 \in 0 .. Depth /\ i - 1 < i
    BY <2>3, <1>d
  <2> QED BY <1>2, <1>3, <2>2, <2>4 DEF NextLevel
<1>5. Depth \in 0 .. Depth
  BY <1>d
<1> QED BY <1>1, <1>4, <1>5

\* What catalogPath insists on is a tree, whose loops and orphans are gone.
LEMMA RootedTree ==
    ASSUME NEW k, Kinds(k), Rooted(k)
    PROVE  Tree(k)
<1>1. Housed(k)
  BY DEF Rooted, Housed
<1>d. Depth \in Nat
  BY DepthIsNat DEF DepthNat
<1>2. PICK f : Down(k, Root, Depth, f) /\ Below(k, Root) = f[Depth]
  BY BelowIs
<1>3. /\ f[0] = {Root}
      /\ \A i \in 1 .. Depth : f[i] = NextLevel(k, Root, f[i - 1])
  <2>1. Down(k, Root, Depth, f)
    BY <1>2
  <2>2. f[0] = {Root}
    BY <2>1, <1>d, LevelZero
  <2>3. \A i \in 1 .. Depth : f[i] = NextLevel(k, Root, f[i - 1])
    BY <2>1, <1>d, Level
  <2> QED BY <2>2, <2>3
<1>4. ASSUME NEW S \in SUBSET Node, S # {}, \A n \in S : In(k, n) /\ k[n].parent \in S
      PROVE  FALSE
  <2> DEFINE T == {i \in 0 .. Depth : f[i] \cap S # {}}
  <2>1. T # {}
    <3>1. PICK n : n \in S
      BY <1>4
    <3>2. n \in f[Depth] /\ Depth \in 0 .. Depth
      BY <1>2, <1>4, <1>d, <3>1 DEF Rooted
    <3> QED BY <3>1, <3>2
  <2>2. PICK i \in 0 .. Depth : f[i] \cap S # {} /\ \A j \in 0 .. Depth : j < i => f[j] \cap S = {}
    <3>1. PICK i \in T : \A j \in T : ~(j < i)
      <4>1. T \subseteq Nat
        BY <1>d
      <4> HIDE DEF T
      <4> QED BY <2>1, <4>1, Least
    <3> QED BY <3>1
  <2> HIDE DEF T
  <2>3. PICK n : n \in f[i] /\ n \in S
    BY <2>2
  <2>4. n # Root
    BY <2>3, RootIsNoNode
  <2>5. i # 0
    BY <1>3, <2>3, <2>4
  <2>6. i \in 1 .. Depth /\ i - 1 \in 0 .. Depth /\ i - 1 < i
    BY <2>5, <1>d
  <2>7. k[n].parent \in f[i - 1]
    BY <1>3, <2>3, <2>4, <2>6 DEF Beneath, NextLevel
  <2> QED BY <1>4, <2>2, <2>3, <2>6, <2>7
<1>5. Grounded(k)
  BY <1>4 DEF Grounded
<1> QED BY <1>1, <1>5 DEF Tree

LEMMA TreeRooted ==
    ASSUME NEW k, Kinds(k), Tree(k)
    PROVE  Rooted(k)
<1> DEFINE S == {n \in Node : In(k, n) /\ n \notin Below(k, Root)}
<1>1. ASSUME S # {} PROVE FALSE
  <2>1. PICK n \in S : k[n].parent \notin S
    BY <1>1 DEF Tree, Grounded
  <2>2. IsDir(k, k[n].parent)
    BY <2>1 DEF Tree, Housed
  <2>3. Root \in Below(k, Root)
    <3>d. Depth \in Nat /\ Depth \in 0 .. Depth
      BY DepthIsNat DEF DepthNat
    <3>1. PICK f : Down(k, Root, Depth, f) /\ Below(k, Root) = f[Depth]
      BY BelowIs
    <3>2. \A i \in 0 .. Depth : Root \in f[i]
      BY <3>d, <3>1, Monotone
    <3> QED BY <3>d, <3>1, <3>2
  <2>4. k[n].parent \in Below(k, Root)
    BY <2>1, <2>2, <2>3 DEF IsDir
  <2>5. Housed(k)
    BY DEF Tree
  <2> QED BY <2>1, <2>4, <2>5, Closure
<1> QED BY <1>1 DEF Rooted, Tree, Housed

-----------------------------------------------------------------------------
(* What a request does to a tree.                                          *)

\* An entry is put where no folder is.
LEMMA PutTree ==
    ASSUME NEW k \in Shelf, Tree(k), NEW n \in Node, ~IsDir(k, n), NEW e \in Entry, IsDir(k, e.parent)
    PROVE  Tree([k EXCEPT ![n] = e])
<1> DEFINE l == [k EXCEPT ![n] = e]
<1>1. /\ l[n] = e /\ In(l, n)
      /\ \A m \in Node \ {n} : l[m] = k[m] /\ (In(l, m) <=> In(k, m))
  BY DEF Shelf, In, Entry
<1> HIDE DEF l
<1>2. \A q : IsDir(k, q) => q # n /\ IsDir(l, q)
  BY <1>1 DEF IsDir
<1>3. \A m \in Node : In(k, m) => k[m].parent # n
  BY DEF Tree, Housed
<1>4. Housed(l)
  BY <1>1, <1>2 DEF Tree, Housed
<1>5. ASSUME NEW S \in SUBSET Node, S # {}, \A m \in S : In(l, m)
      PROVE  \E m \in S : l[m].parent \notin S
  <2>1. CASE S = {n}
    BY <1>1, <1>2, <2>1
  <2>2. CASE S # {n}
    <3> DEFINE R == S \ {n}
    <3>1. R \in SUBSET Node /\ R # {} /\ \A m \in R : In(k, m)
      BY <1>1, <1>5, <2>2
    <3> HIDE DEF R
    <3>2. PICK m \in R : k[m].parent \notin R
      BY <3>1 DEF Tree, Grounded
    <3>3. k[m].parent # n
      BY <1>3, <3>1
    <3> QED BY <1>1, <3>2, <3>3 DEF R
  <2> QED BY <2>1, <2>2
<1>6. Grounded(l)
  BY <1>5 DEF Grounded
<1> QED BY <1>4, <1>6 DEF Tree, l

\* A node with nothing under it is taken out.
LEMMA DropTree ==
    ASSUME NEW k \in Shelf, Tree(k), NEW n \in Node, \A m \in Node : In(k, m) => k[m].parent # n
    PROVE  Tree([k EXCEPT ![n] = NoEntry])
<1> DEFINE l == [k EXCEPT ![n] = NoEntry]
<1>1. /\ ~In(l, n)
      /\ \A m \in Node \ {n} : l[m] = k[m] /\ (In(l, m) <=> In(k, m))
  BY DEF Shelf, In, NoEntry
<1> HIDE DEF l
<1>2. \A q : IsDir(k, q) /\ q # n => IsDir(l, q)
  BY <1>1 DEF IsDir
<1>3. Housed(l)
  BY <1>1, <1>2 DEF Tree, Housed
<1>4. ASSUME NEW S \in SUBSET Node, S # {}, \A m \in S : In(l, m)
      PROVE  \E m \in S : l[m].parent \notin S
  <2>1. n \notin S /\ \A m \in S : In(k, m) /\ l[m] = k[m]
    BY <1>1, <1>4
  <2>2. PICK m \in S : k[m].parent \notin S
    BY <1>4, <2>1 DEF Tree, Grounded
  <2> QED BY <2>1, <2>2
<1>5. Grounded(l)
  BY <1>4 DEF Grounded
<1> QED BY <1>3, <1>5 DEF Tree, l

\* Titles are nothing to a tree.
LEMMA SameTree ==
    ASSUME NEW k, NEW l, Tree(k),
           \A n \in Node : k[n].type = l[n].type /\ k[n].parent = l[n].parent
    PROVE  Tree(l)
<1>1. \A n \in Node : In(l, n) <=> In(k, n)
  BY DEF In
<1>2. \A q : IsDir(k, q) => IsDir(l, q)
  BY <1>1 DEF IsDir
<1>3. Housed(l)
  BY <1>1, <1>2 DEF Tree, Housed
<1>4. ASSUME NEW S \in SUBSET Node, S # {}, \A m \in S : In(l, m)
      PROVE  \E m \in S : l[m].parent \notin S
  <2>1. PICK m \in S : k[m].parent \notin S
    BY <1>1, <1>4 DEF Tree, Grounded
  <2> QED BY <2>1
<1>5. Grounded(l)
  BY <1>4 DEF Grounded
<1> QED BY <1>3, <1>5 DEF Tree

\* D has all that is under what it has.
Closed(k, D) == \A m \in Node : In(k, m) /\ k[m].parent \in D => m \in D
Placed(k, n, p) == [k EXCEPT ![n].parent = p]

\* A node goes under a folder that is not among all that is under it.
LEMMA MoveTree ==
    ASSUME NEW k \in Shelf, Tree(k), NEW n \in Node, In(k, n), NEW p, IsDir(k, p),
           NEW D, n \in D, p \notin D, Closed(k, D)
    PROVE  Tree(Placed(k, n, p))
<1>c. \A m \in Node : In(k, m) /\ k[m].parent \in D => m \in D
  BY DEF Closed
<1> DEFINE l == [k EXCEPT ![n].parent = p]
<1>1. /\ l[n].parent = p /\ l[n].type = k[n].type
      /\ \A m \in Node \ {n} : l[m] = k[m]
      /\ \A m \in Node : In(l, m) <=> In(k, m)
  BY DEF Shelf, In, Entry, NoEntry
<1> HIDE DEF l
<1>2. \A q : IsDir(k, q) => IsDir(l, q)
  BY <1>1 DEF IsDir
<1>3. Housed(l)
  BY <1>1, <1>2 DEF Tree, Housed
<1>4. ASSUME NEW S \in SUBSET Node, S # {}, \A m \in S : In(l, m) /\ l[m].parent \in S
      PROVE  FALSE
  <2> DEFINE R == S \ D
  <2>1. CASE R = {}
    <3>1. n \notin S
      BY <1>1, <1>4, <2>1
    <3>2. \A m \in S : In(k, m) /\ k[m].parent \in S
      BY <1>1, <1>4, <3>1
    <3> QED BY <1>4, <3>2 DEF Tree, Grounded
  <2>2. CASE R # {}
    <3>1. \A m \in R : m # n /\ In(k, m) /\ k[m].parent \in S
      BY <1>1, <1>4
    <3>2. \A m \in R : k[m].parent \in R
      BY <1>c, <1>4, <3>1
    <3>3. R \in SUBSET Node
      BY <1>4
    <3> HIDE DEF R
    <3> QED BY <2>2, <3>1, <3>2, <3>3 DEF Tree, Grounded
  <2> QED BY <2>1, <2>2
<1>5. Grounded(l)
  BY <1>4 DEF Grounded
<1> QED BY <1>3, <1>5 DEF Tree, Placed, l

-----------------------------------------------------------------------------
(* The invariant.                                                          *)

CatOK == cat \in [Book -> Shelf] /\ \A b \in Book : Kinds(cat[b])

ChangeSteps == {"new", "previewed", "rechecking", "preparing", "inserting", "finding", "renaming",
                "checking", "writing", "verifying", "done"}
Actions  == {"create", "rename", "move", "delete"}
Verdicts == {"none", "succeeded", "partial", "failed", "conflict", "unknown"}
Op == [action : Actions \cup {"none"}, book : Book \cup {Nobody}, node : Node \cup {Root},
       target : Node \cup {Root}, title : Title \cup {Unnamed}, position : {"none", "into", "after"}]

TransferSteps == {"new", "previewed", "preparing", "sending", "locating", "matching", "comparing",
                  "done"}
Phases == {"prepared", "transmitting", "acknowledged", "completed"}
Plan == [action : {"none", "copy", "move"}, table : Table \cup {Nobody}, from : Book \cup {Nobody},
         to : Book \cup {Nobody}, parent : Dir \cup {Root},
         sourceCatalog : Shelf, targetCatalog : Shelf, content : Contents]

ChangeTyped ==
    /\ op \in [Change -> Op] /\ base \in [Change -> Shelf] /\ pc \in [Change -> ChangeSteps]
    /\ inserted \in [Change -> Node \cup {Root}] /\ verdict \in [Change -> Verdicts]

TransferTyped ==
    /\ plan \in [Transfer -> Plan] /\ at \in [Transfer -> TransferSteps]
    /\ phase \in [Transfer -> [phase : Phases, doc : Node \cup {Nobody}]]
    /\ journal \in [Transfer -> [phase : Phases, doc : Node \cup {Nobody}]]
    /\ source \in [Transfer -> Shelf] /\ state \in [Transfer -> Verdicts]
    /\ exact \in SUBSET Transfer

TypeOK == CatalogsSound /\ CatOK /\ ChangeTyped /\ TransferTyped

\* Nobody writes but the confirms, and every request was answered.
Clean == edits = 0 /\ unanswered = {}

Requesting == {"inserting", "writing"}
ChangeBusy == ChangeSteps \ {"new", "previewed", "done"}

\* Where a change of a catalog stands.  Its book is its own; the catalog is the
\* preview's while nobody else wrote; it reports what it knows of its request.
ChangeOK(c) ==
    /\ pc[c] # "new" => op[c] \in Ops(c) /\ Possible(op[c], base[c])
    /\ pc[c] \in ChangeBusy => holder[op[c].book] = c
    /\ pc[c] \in Requesting /\ c \in calm => cat[op[c].book] = base[c]
    /\ pc[c] \in Requesting /\ Clean => c \in calm
    /\ pc[c] \in {"new", "previewed", "rechecking", "preparing", "inserting", "writing"} =>
          c \notin sent
    /\ pc[c] = "done" /\ verdict[c] = "conflict" => c \notin sent
    /\ pc[c] \in {"inserting", "finding", "renaming", "checking"} => op[c].action = "create"
    /\ pc[c] \in {"finding", "renaming", "checking"} => c \in hit \cup unanswered
    /\ pc[c] = "renaming" => inserted[c] \in Node
    /\ pc[c] = "verifying" => c \in hit
    /\ pc[c] = "done" /\ verdict[c] = "succeeded" =>
          c \in hit \/ (c \in unanswered /\ op[c].action = "create")

TransferBusy == TransferSteps \ {"new", "previewed", "done"}
Answered3 == {"locating", "matching", "comparing"}

\* What the process and the row know of a request.
PhaseOK(t) ==
    /\ at[t] \in {"new", "previewed", "preparing"} => phase[t] = Prepared /\ journal[t] = Prepared
    /\ at[t] = "sending" =>
          phase[t] = [phase |-> "transmitting", doc |-> Nobody] /\ journal[t] = phase[t]
    /\ at[t] \in Answered3 =>
          phase[t] = [phase |-> "acknowledged", doc |-> Copied(t)] /\ journal[t] = phase[t]
    /\ journal[t].doc \in {Nobody, Copied(t)}

RequestOK(t) ==
    /\ t \in hit \cup late => t \in sent
    /\ t \in late => t \notin hit /\ at[t] = "done"
    /\ t \in sent => at[t] \in Answered3 \cup {"done"} /\ journal[t].phase # "prepared"
    /\ at[t] \in Answered3 => t \in hit
    /\ at[t] = "done" /\ state[t] = "conflict" => t \notin sent
    /\ at[t] = "done" /\ state[t] = "succeeded" => t \in hit /\ t \in exact

\* What it read is still so while nobody else wrote: before its request, from the
\* source's catalog to the target's, and since.
ReadOK(t) ==
    /\ at[t] = "sending" /\ t \in calm => SamePlan(t)
    /\ at[t] = "sending" /\ Clean => t \in calm
    /\ at[t] = "matching" /\ t \in calm => source[t] = cat[plan[t].from]
    /\ at[t] = "comparing" /\ t \in calm =>
          /\ Apart(cat[plan[t].from], plan[t].table) = Apart(plan[t].sourceCatalog, plan[t].table)
          /\ Apart(cat[plan[t].to], Copied(t)) = plan[t].targetCatalog

\* The target's catalog, while nobody else wrote since the preview.
TargetOK(t) ==
    at[t] # "new" /\ t \notin disturbed =>
        IF t \in hit
        THEN /\ cat[plan[t].to][Copied(t)].type = "DOC"
             /\ plan[t].action = "copy" => plan[t].targetCatalog[t].type # "DOC"
        ELSE cat[plan[t].to] = plan[t].targetCatalog

TransferOK(t) ==
    /\ at[t] # "new" => /\ plan[t].action \in {"copy", "move"} /\ plan[t].table \in Table
                        /\ plan[t].from \in Book /\ plan[t].to \in Book
                        /\ CanTransfer(plan[t], plan[t].sourceCatalog, plan[t].targetCatalog)
    /\ at[t] \in TransferBusy => holder[plan[t].from] = t /\ holder[plan[t].to] = t
    /\ PhaseOK(t) /\ RequestOK(t) /\ ReadOK(t) /\ TargetOK(t)

TreesOK ==
    Clean => /\ \A b \in Book : Tree(cat[b])
             /\ \A t \in Table : \E b \in Book : In(cat[b], t)

IInv ==
    /\ TypeOK
    /\ \A c \in Change : ChangeOK(c)
    /\ \A t \in Transfer : TransferOK(t)
    /\ late \subseteq unanswered \cap sent /\ lost = {} /\ TreesOK

-----------------------------------------------------------------------------
(* What a step of one confirm, x, leaves to the others.                    *)

By(x) ==
    /\ edits' = edits /\ unanswered \subseteq unanswered'
    /\ \A d \in Change \ {x} :
          /\ op'[d] = op[d] /\ base'[d] = base[d] /\ pc'[d] = pc[d] /\ verdict'[d] = verdict[d]
          /\ inserted'[d] = inserted[d]
    /\ \A t \in Transfer \ {x} :
          /\ plan'[t] = plan[t] /\ at'[t] = at[t] /\ state'[t] = state[t] /\ source'[t] = source[t]
          /\ phase'[t] = phase[t] /\ journal'[t] = journal[t] /\ (t \in exact' <=> t \in exact)
    /\ \A y \in Confirms \ {x} :
          /\ y \in late' <=> y \in late
          /\ y \in sent' <=> y \in sent
          /\ y \in hit' <=> y \in hit
          /\ y \in unanswered' <=> y \in unanswered
          /\ y \in calm' <=> y \in calm
          /\ y \in disturbed => y \in disturbed'
          /\ cat' # cat => y \in disturbed'
          /\ \A b \in Book : holder[b] = y => holder'[b] = y
    /\ \A b \in Book : holder[b] # x => cat'[b] = cat[b]
    /\ \A n \in Table : rows'[n] = rows[n]

LEMMA Different ==
    /\ Change \cap Transfer = {} /\ Confirms \subseteq Node /\ Nobody \notin Confirms
    /\ Confirms = Change \cup Transfer
BY NamesAssumption DEF Node, Folder, Confirms

LEMMA OpsAre ==
    ASSUME NEW c \in Change, NEW o \in Ops(c)
    PROVE  /\ o \in Op /\ o.action \in Actions /\ o.book \in Book
           /\ o.action = "create" => o.node = c /\ o.target \in Dir \cup {Root} /\ o.title \in Title
           /\ o.action = "rename" => o.node \in Dir /\ o.title \in Title
           /\ o.action = "move" => o.node \in Dir \cup Table /\ o.target \in Dir \cup Table
           /\ o.action = "delete" => o.node \in Dir
<1> DEFINE R(action, b, n, p, title, pos) ==
              [action |-> action, book |-> b, node |-> n, target |-> p, title |-> title,
               position |-> pos]
<1>1. \/ \E b \in Book, p \in Dir \cup {Root}, title \in Title : o = R("create", b, c, p, title, "none")
      \/ \E b \in Book, n \in Dir, title \in Title : o = R("rename", b, n, Root, title, "none")
      \/ \E b \in Book, n \in Dir \cup Table, m \in Dir \cup Table, pos \in {"into", "after"} :
            o = R("move", b, n, m, Unnamed, pos)
      \/ \E b \in Book, n \in Dir : o = R("delete", b, n, Root, Unnamed, "none")
  BY DEF Ops
<1>2. Dir \subseteq Node /\ Table \subseteq Node /\ Change \subseteq Node
  BY DEF Node, Folder
<1> QED BY <1>1, <1>2 DEF Op, Actions

LEMMA CleanBefore == ASSUME NEW x, By(x), Clean' PROVE Clean
BY DEF By, Clean

LEMMA OtherChange ==
    ASSUME IInv, NEW x \in Confirms, By(x), NEW d \in Change, d # x
    PROVE  ChangeOK(d)'
<1>1. ChangeOK(d) /\ d \in Confirms \ {x}
  BY DEF IInv, Confirms
<1>2. /\ op'[d] = op[d] /\ base'[d] = base[d] /\ pc'[d] = pc[d] /\ verdict'[d] = verdict[d]
      /\ inserted'[d] = inserted[d]
      /\ d \in sent' <=> d \in sent
      /\ d \in hit' <=> d \in hit
      /\ d \in unanswered' <=> d \in unanswered
      /\ d \in calm' <=> d \in calm
  BY <1>1 DEF By
<1>3. pc[d] # "new" => op[d].book \in Book
  BY <1>1, OpsAre DEF ChangeOK
<1>4. pc[d] \in ChangeBusy => holder'[op[d].book] = d
  BY <1>1, <1>3 DEF ChangeOK, ChangeBusy, By
<1>5. pc[d] \in ChangeBusy => cat'[op[d].book] = cat[op[d].book]
  BY <1>1, <1>3 DEF ChangeOK, ChangeBusy, By
<1>6. pc[d] \in Requesting => pc[d] \in ChangeBusy
  BY DEF Requesting, ChangeBusy, ChangeSteps
<1> QED BY <1>1, <1>2, <1>4, <1>5, <1>6, CleanBefore DEF ChangeOK

LEMMA OtherTransfer ==
    ASSUME IInv, NEW x \in Confirms, By(x), NEW t \in Transfer, t # x
    PROVE  TransferOK(t)'
<1>1. TransferOK(t) /\ t \in Confirms \ {x} /\ t \in Transfer \ {x}
  BY DEF IInv, Confirms
<1>2. /\ plan'[t] = plan[t] /\ at'[t] = at[t] /\ state'[t] = state[t] /\ source'[t] = source[t]
      /\ phase'[t] = phase[t] /\ journal'[t] = journal[t] /\ (t \in exact' <=> t \in exact)
  BY <1>1 DEF By
<1>3. /\ t \in late' <=> t \in late
      /\ t \in sent' <=> t \in sent
      /\ t \in hit' <=> t \in hit
      /\ t \in calm' <=> t \in calm
      /\ t \in disturbed => t \in disturbed'
      /\ cat' # cat => t \in disturbed'
  BY <1>1 DEF By
<1>4. at[t] # "new" => plan[t].from \in Book /\ plan[t].to \in Book /\ plan[t].table \in Table
  BY <1>1 DEF TransferOK
<1>5. at[t] \in TransferBusy =>
        /\ holder'[plan[t].from] = t /\ holder'[plan[t].to] = t
        /\ cat'[plan[t].from] = cat[plan[t].from] /\ cat'[plan[t].to] = cat[plan[t].to]
        /\ rows'[plan[t].table] = rows[plan[t].table]
  BY <1>1, <1>4 DEF TransferOK, TransferBusy, By
<1>6. at[t] \in {"sending", "matching", "comparing"} => at[t] \in TransferBusy
  BY DEF TransferBusy, TransferSteps
<1>7. Copied(t)' = Copied(t)
  BY <1>2 DEF Copied
<1>8. PhaseOK(t)'
  BY <1>1, <1>2, <1>7 DEF TransferOK, PhaseOK
<1>9. RequestOK(t)'
  BY <1>1, <1>2, <1>3 DEF TransferOK, RequestOK
<1>10. ReadOK(t)'
  <2>1. at[t] \in TransferBusy => (SamePlan(t)' <=> SamePlan(t))
    BY <1>2, <1>5 DEF SamePlan, Content
  <2> QED BY <1>1, <1>2, <1>3, <1>5, <1>6, <1>7, <2>1, CleanBefore DEF TransferOK, ReadOK
<1>11. TargetOK(t)'
  BY <1>1, <1>2, <1>3, <1>7 DEF TransferOK, TargetOK
<1> QED BY <1>1, <1>2, <1>5, <1>8, <1>9, <1>10, <1>11 DEF TransferOK

-----------------------------------------------------------------------------
(* What Yuque does with a request.                                         *)

NewDir(p) == [[NoEntry EXCEPT !.type = "TITLE"] EXCEPT !.parent = p]

LEMMA NewDirIs ==
    ASSUME NEW p \in Node \cup {Root}
    PROVE  NewDir(p) \in Entry /\ NewDir(p).type = "TITLE" /\ NewDir(p).parent = p
BY DEF NewDir, NoEntry, Entry

\* One entry of a shelf is replaced by one of its kind.
LEMMA PutShelf ==
    ASSUME NEW k \in Shelf, Kinds(k), NEW n \in Node, NEW e \in Entry \cup {NoEntry},
           e \in Entry => (e.type = "TITLE" <=> n \in Folder)
    PROVE  [k EXCEPT ![n] = e] \in Shelf /\ Kinds([k EXCEPT ![n] = e])
<1> DEFINE l == [k EXCEPT ![n] = e]
<1>1. l \in Shelf /\ l[n] = e /\ \A m \in Node \ {n} : l[m] = k[m]
  BY DEF Shelf
<1> HIDE DEF l
<1>2. Kinds(l)
  BY <1>1 DEF Kinds, In, NoEntry
<1> QED BY <1>1, <1>2 DEF l

LEMMA EntryThere ==
    ASSUME NEW k \in Shelf, NEW n \in Node
    PROVE  /\ k[n] \in Entry \cup {NoEntry} /\ k[n].parent \in Node \cup {Root}
           /\ In(k, n) => k[n] \in Entry
           /\ ~In(k, n) => k[n] = NoEntry
BY DEF Shelf, In, Entry, NoEntry

\* The catalogs after one of them was replaced.
LEMMA CatEdited ==
    ASSUME CatOK, NEW b \in Book, NEW l \in Shelf, Kinds(l)
    PROVE  LET K == [cat EXCEPT ![b] = l]
           IN  /\ K \in [Book -> Shelf] /\ \A x \in Book : Kinds(K[x])
               /\ K[b] = l /\ \A x \in Book \ {b} : K[x] = cat[x]
BY DEF CatOK

\* The catalog k after the operation o.
Edit(o, c, k) ==
    IF o.action = "create" THEN [k EXCEPT ![c] = NewDir(o.target)]
    ELSE IF o.action = "rename" THEN [k EXCEPT ![o.node].title = o.title]
    ELSE IF o.action = "move" THEN [k EXCEPT ![o.node].parent = NewParent(o, k)]
    ELSE [m \in Node |-> IF m \in Below(k, o.node) THEN NoEntry ELSE k[m]]

LEMMA AppliedIs ==
    ASSUME CatOK, NEW c \in Change, op[c] \in Ops(c)
    PROVE  Applied(c) = [cat EXCEPT ![op[c].book] = Edit(op[c], c, Catalog(c))]
<1>1. op[c].action \in Actions /\ op[c].book \in Book
  BY OpsAre
<1>2. op[c].action = "create" => op[c].node = c
  BY OpsAre
<1>3. cat \in [Book -> Shelf]
  BY DEF CatOK
<1>4. CASE op[c].action = "create"
  BY <1>1, <1>3, <1>4 DEF Applied, Edit, Insert, Catalog, NewDir
<1>5. CASE op[c].action = "rename"
  BY <1>1, <1>3, <1>5 DEF Applied, Edit, Retitle, Catalog
<1>6. CASE op[c].action = "move"
  BY <1>1, <1>3, <1>6 DEF Applied, Edit, Reparent, Catalog
<1>7. CASE op[c].action = "delete"
  BY <1>1, <1>3, <1>7 DEF Applied, Edit, Destroy, Catalog
<1> QED BY <1>1, <1>4, <1>5, <1>6, <1>7 DEF Actions

\* A directory's title, a node's place.
LEMMA TitleShelf ==
    ASSUME NEW k \in Shelf, Kinds(k), NEW n \in Node, In(k, n), NEW v \in Title
    PROVE  [k EXCEPT ![n].title = v] \in Shelf /\ Kinds([k EXCEPT ![n].title = v])
<1>1. k[n] \in Entry
  BY EntryThere
<1>2. [k[n] EXCEPT !.title = v] \in Entry /\ [k[n] EXCEPT !.title = v].type = k[n].type
  BY <1>1 DEF Entry
<1>3. k[n].type = "TITLE" <=> n \in Folder
  BY DEF Kinds
<1> QED BY <1>2, <1>3, PutShelf

LEMMA PlaceShelf ==
    ASSUME NEW k \in Shelf, Kinds(k), NEW n \in Node, In(k, n), NEW q \in Node \cup {Root}
    PROVE  [k EXCEPT ![n].parent = q] \in Shelf /\ Kinds([k EXCEPT ![n].parent = q])
<1>1. k[n] \in Entry
  BY EntryThere
<1>2. [k[n] EXCEPT !.parent = q] \in Entry /\ [k[n] EXCEPT !.parent = q].type = k[n].type
  BY <1>1 DEF Entry
<1>3. k[n].type = "TITLE" <=> n \in Folder
  BY DEF Kinds
<1> QED BY <1>2, <1>3, PutShelf

LEMMA EraseShelf ==
    ASSUME NEW k \in Shelf, Kinds(k), NEW D
    PROVE  LET l == [m \in Node |-> IF m \in D THEN NoEntry ELSE k[m]]
           IN  l \in Shelf /\ Kinds(l)
BY DEF Shelf, Kinds, In, NoEntry

LEMMA EditShelf ==
    ASSUME CatOK, NEW c \in Change, op[c] \in Ops(c), Applies(c)
    PROVE  Edit(op[c], c, Catalog(c)) \in Shelf /\ Kinds(Edit(op[c], c, Catalog(c)))
<1> DEFINE o == op[c]
<1>1. /\ o.action \in Actions /\ o.book \in Book
      /\ o.action = "create" => o.node = c /\ o.target \in Dir \cup {Root}
      /\ o.action = "rename" => o.node \in Dir /\ o.title \in Title
      /\ o.action = "move" => o.node \in Dir \cup Table /\ o.target \in Dir \cup Table
      /\ o.action = "delete" => o.node \in Dir
  BY OpsAre
<1>2. PICK k : k = Catalog(c)
  OBVIOUS
<1>3. k \in Shelf /\ Kinds(k)
  BY <1>1, <1>2 DEF CatOK, Catalog
<1>4. Dir \subseteq Node /\ Table \subseteq Node /\ c \in Node /\ c \in Folder
  BY DEF Node, Folder
<1> HIDE DEF o
<1>5. o.action # "create" => In(k, o.node) /\ (o.action = "move" => In(k, o.target))
  BY <1>2 DEF Applies, o
<1>6. CASE o.action = "create"
  <2>1. o.target \in Node \cup {Root}
    BY <1>1, <1>4, <1>6
  <2> QED BY <1>3, <1>4, <1>6, <2>1, NewDirIs, PutShelf, <1>2 DEF Edit, o
<1>7. CASE o.action = "rename"
  BY <1>1, <1>2, <1>3, <1>4, <1>5, <1>7, TitleShelf DEF Edit, o
<1>8. CASE o.action = "move"
  <2>1. NewParent(o, k) \in Node \cup {Root}
    BY <1>1, <1>3, <1>4, <1>8, EntryThere DEF NewParent
  <2>2. Edit(o, c, k) = [k EXCEPT ![o.node].parent = NewParent(o, k)]
    BY <1>8 DEF Edit
  <2>3. o.node \in Node /\ In(k, o.node)
    BY <1>1, <1>4, <1>5, <1>8
  <2> QED BY <1>2, <1>3, <2>1, <2>2, <2>3, PlaceShelf DEF o
<1>9. CASE o.action = "delete"
  <2>1. Edit(o, c, k) = [m \in Node |-> IF m \in Below(k, o.node) THEN NoEntry ELSE k[m]]
    BY <1>9 DEF Edit
  <2> QED BY <1>2, <1>3, <2>1, EraseShelf DEF o
<1> QED BY <1>1, <1>6, <1>7, <1>8, <1>9 DEF Actions

LEMMA AppliedOK ==
    ASSUME CatOK, NEW c \in Change, op[c] \in Ops(c), Applies(c)
    PROVE  /\ Applied(c) \in [Book -> Shelf] /\ \A b \in Book : Kinds(Applied(c)[b])
           /\ \A b \in Book : b # op[c].book => Applied(c)[b] = cat[b]
           /\ Applied(c)[op[c].book] = Edit(op[c], c, Catalog(c))
<1>1. op[c].book \in Book
  BY OpsAre
<1> QED BY <1>1, AppliedIs, EditShelf, CatEdited

\* An operation that makes sense in a tree leaves a tree, and every Table in it.
LEMMA EditTree ==
    ASSUME NEW k \in Shelf, Kinds(k), Tree(k), NEW c \in Change, NEW o \in Ops(c), Possible(o, k),
           o.action = "create" => ~In(k, c)
    PROVE  /\ Tree(Edit(o, c, k))
           /\ \A t \in Table : In(k, t) => In(Edit(o, c, k), t)
<1>1. /\ o.action \in Actions /\ o.book \in Book
      /\ o.action = "create" => o.node = c /\ o.target \in Dir \cup {Root}
      /\ o.action = "rename" => o.node \in Dir /\ o.title \in Title
      /\ o.action = "move" => o.node \in Dir \cup Table /\ o.target \in Dir \cup Table
      /\ o.action = "delete" => o.node \in Dir
  BY OpsAre
<1>2. /\ Dir \subseteq Node /\ Table \subseteq Node /\ c \in Node /\ c \in Folder
      /\ Folder \cap Table = {} /\ Dir \subseteq Folder
  BY NamesAssumption DEF Node, Folder
<1>3. \A n \in Node : In(k, n) => k[n] \in Entry
  BY EntryThere
<1>4. CASE o.action = "create"
  <2>1. IsDir(k, o.target) /\ ~In(k, c)
    BY <1>4 DEF Possible, CanCreate
  <2>2. o.target \in Node \cup {Root}
    BY <1>1, <1>2, <1>4
  <2>3. NewDir(o.target) \in Entry /\ NewDir(o.target).parent = o.target
    BY <2>2, NewDirIs
  <2>4. ~IsDir(k, c)
    BY <1>2, <2>1, RootIsNoNode DEF IsDir
  <2>5. Edit(o, c, k) = [k EXCEPT ![c] = NewDir(o.target)]
    BY <1>4 DEF Edit
  <2>6. Tree(Edit(o, c, k))
    BY <1>2, <2>1, <2>3, <2>4, <2>5, PutTree
  <2>7. \A t \in Table : Edit(o, c, k)[t] = k[t]
    BY <1>2, <2>5 DEF Shelf
  <2> QED BY <2>6, <2>7 DEF In
<1>5. CASE o.action = "rename"
  <2>1. Edit(o, c, k) = [k EXCEPT ![o.node].title = o.title]
    BY <1>5 DEF Edit
  <2>2. In(k, o.node) /\ o.node \in Node
    BY <1>1, <1>2, <1>5 DEF Possible, CanRename
  <2>3. \A n \in Node : Edit(o, c, k)[n].type = k[n].type /\ Edit(o, c, k)[n].parent = k[n].parent
    BY <1>3, <2>1, <2>2 DEF Shelf, Entry
  <2>4. Tree(Edit(o, c, k))
    BY <2>3, SameTree
  <2> QED BY <1>2, <2>3, <2>4 DEF In
<1>6. CASE o.action = "move"
  <2>1. Edit(o, c, k) = [k EXCEPT ![o.node].parent = NewParent(o, k)]
    BY <1>6 DEF Edit
  <2>2. /\ In(k, o.node) /\ o.node \in Node /\ In(k, o.target) /\ o.target \in Node
        /\ o.target # o.node
        /\ o.position = "into" => k[o.target].type = "TITLE"
        /\ k[o.node].type = "TITLE" => o.target \notin Below(k, o.node)
    BY <1>1, <1>2, <1>6 DEF Possible, CanMove, Descendant
  <2>3. IsDir(k, NewParent(o, k))
    BY <2>2 DEF NewParent, IsDir, Tree, Housed
  <2>n. PICK n \in Node : n = o.node /\ In(k, n)
    BY <2>2
  <2>p. PICK p : p = NewParent(o, k) /\ IsDir(k, p)
    BY <2>3
  <2>4. ASSUME k[o.node].type = "TITLE" PROVE Tree(Edit(o, c, k))
    <3>1. o.node \in Folder
      BY <2>2, <2>4 DEF Kinds
    <3>2. \A m \in Node : In(k, m) /\ k[m].parent \in Below(k, o.node) => m \in Below(k, o.node)
      BY <3>1, Closure DEF Tree
    <3>3. NewParent(o, k) \notin Below(k, o.node)
      BY <2>2, <2>4, <3>2 DEF NewParent
    <3>4. o.node \in Below(k, o.node)
      <4>1. Depth \in Nat /\ Depth \in 0 .. Depth
        BY DepthIsNat DEF DepthNat
      <4>2. PICK f : Down(k, o.node, Depth, f) /\ Below(k, o.node) = f[Depth]
        BY BelowIs
      <4>3. \A i \in 0 .. Depth : o.node \in f[i]
        BY <4>1, <4>2, Monotone
      <4> QED BY <4>1, <4>2, <4>3
    <3>5. PICK D : D = Below(k, o.node)
      OBVIOUS
    <3>6. n \in D /\ p \notin D /\ Closed(k, D)
      BY <2>n, <2>p, <3>2, <3>3, <3>4, <3>5 DEF Closed
    <3>7. Tree(Placed(k, n, p))
      BY <2>n, <2>p, <3>6, MoveTree
    <3>8. Edit(o, c, k) = Placed(k, o.node, NewParent(o, k))
      BY <2>1 DEF Placed
    <3> QED BY <2>n, <2>p, <3>7, <3>8
  <2>5. ASSUME k[o.node].type # "TITLE" PROVE Tree(Edit(o, c, k))
    <3>1. ~IsDir(k, o.node)
      BY <2>2, <2>5, RootIsNoNode DEF IsDir
    <3>2. \A m \in Node : In(k, m) /\ k[m].parent \in {o.node} => m \in {o.node}
      BY <3>1 DEF Tree, Housed
    <3>3. NewParent(o, k) \notin {o.node}
      BY <2>3, <3>1
    <3>4. o.node \in {o.node}
      OBVIOUS
    <3>5. PICK D : D = {o.node}
      OBVIOUS
    <3>6. n \in D /\ p \notin D /\ Closed(k, D)
      BY <2>n, <2>p, <3>2, <3>3, <3>4, <3>5 DEF Closed
    <3>7. Tree(Placed(k, n, p))
      BY <2>n, <2>p, <3>6, MoveTree
    <3>8. Edit(o, c, k) = Placed(k, o.node, NewParent(o, k))
      BY <2>1 DEF Placed
    <3> QED BY <2>n, <2>p, <3>7, <3>8
  <2>6. \A m \in Node : Edit(o, c, k)[m].type = k[m].type
    BY <1>3, <2>1, <2>2 DEF Shelf, Entry
  <2> QED BY <1>2, <2>4, <2>5, <2>6 DEF In
<1>7. CASE o.action = "delete"
  <2>1. Edit(o, c, k) = [m \in Node |-> IF m \in Below(k, o.node) THEN NoEntry ELSE k[m]]
    BY <1>7 DEF Edit
  <2>2. o.node \in Node /\ o.node \in Dir /\ Children(k, o.node) = {}
    BY <1>1, <1>2, <1>7 DEF Possible, CanDelete
  <2>3. Below(k, o.node) = {o.node}
    BY <2>2, ChildlessBelow
  <2>4. Edit(o, c, k) = [k EXCEPT ![o.node] = NoEntry]
    BY <2>1, <2>2, <2>3 DEF Shelf
  <2>5. \A m \in Node : In(k, m) => k[m].parent # o.node
    BY <2>2 DEF Children
  <2>6. Tree(Edit(o, c, k))
    BY <2>2, <2>4, <2>5, DropTree
  <2>7. \A t \in Table : Edit(o, c, k)[t] = k[t]
    BY <1>2, <2>2, <2>4 DEF Shelf
  <2> QED BY <2>6, <2>7 DEF In
<1> QED BY <1>1, <1>4, <1>5, <1>6, <1>7 DEF Actions

-----------------------------------------------------------------------------
(* What Yuque does with a transfer.                                        *)

Planned(t) ==
    /\ plan[t].action \in {"copy", "move"} /\ plan[t].table \in Table
    /\ plan[t].from \in Book /\ plan[t].to \in Book /\ plan[t].from # plan[t].to
    /\ plan[t].parent \in Dir \cup {Root}

Moved(t) == [cat[plan[t].from][plan[t].table] EXCEPT !.parent = plan[t].parent]

LEMMA CopiedIs ==
    ASSUME NEW t \in Transfer, Planned(t)
    PROVE  /\ Copied(t) \in Node /\ Copied(t) \notin Folder /\ Copied(t) \in Table \cup Transfer
           /\ plan[t].action = "copy" => Copied(t) = t /\ t \notin Table
           /\ plan[t].action = "move" => Copied(t) = plan[t].table
           /\ plan[t].table \in Node /\ plan[t].table \notin Folder
BY NamesAssumption DEF Planned, Copied, Node

LEMMA MovedIs ==
    ASSUME CatOK, NEW t \in Transfer, Planned(t), TransferApplies(t)
    PROVE  Moved(t) \in Entry /\ Moved(t).type = "DOC" /\ Moved(t).parent = plan[t].parent
<1>1. cat[plan[t].from] \in Shelf /\ Kinds(cat[plan[t].from]) /\ plan[t].table \in Node
      /\ plan[t].table \notin Folder
  BY CopiedIs DEF CatOK, Planned
<1>2. In(cat[plan[t].from], plan[t].table)
  BY DEF TransferApplies
<1>3. cat[plan[t].from][plan[t].table] \in Entry /\ cat[plan[t].from][plan[t].table].type # "TITLE"
  BY <1>1, <1>2, EntryThere DEF Kinds
<1>4. plan[t].parent \in Node \cup {Root}
  BY DEF Planned, Node, Folder
<1> QED BY <1>3, <1>4 DEF Moved, Entry

LEMMA TransferredIs ==
    ASSUME CatOK, NEW t \in Transfer, Planned(t)
    PROVE  LET K == Transferred(t)
               from == plan[t].from
               to == plan[t].to
           IN  /\ K[to] = [cat[to] EXCEPT ![Copied(t)] = Moved(t)]
               /\ plan[t].action = "copy" => K[from] = cat[from]
               /\ plan[t].action = "move" => K[from] = [cat[from] EXCEPT ![plan[t].table] = NoEntry]
               /\ \A b \in Book \ {from, to} : K[b] = cat[b]
               /\ DOMAIN K = Book
<1>1. cat \in [Book -> Shelf] /\ cat[plan[t].from] \in Shelf
  BY DEF CatOK, Planned
<1>2. plan[t].table \in Node
  BY CopiedIs
<1>3. CASE plan[t].action = "copy"
  <2>1. [cat[plan[t].from] EXCEPT ![plan[t].table] = @] = cat[plan[t].from]
    BY <1>1, <1>2 DEF Shelf
  <2> QED BY <1>1, <1>3, <2>1 DEF Transferred, Planned, Moved
<1>4. CASE plan[t].action = "move"
  BY <1>1, <1>4 DEF Transferred, Planned, Moved
<1> QED BY <1>3, <1>4 DEF Planned

LEMMA TransferredOK ==
    ASSUME CatOK, NEW t \in Transfer, Planned(t), TransferApplies(t)
    PROVE  Transferred(t) \in [Book -> Shelf] /\ \A b \in Book : Kinds(Transferred(t)[b])
<1> DEFINE K == Transferred(t)
           from == plan[t].from
           to == plan[t].to
<1>1. /\ K[to] = [cat[to] EXCEPT ![Copied(t)] = Moved(t)]
      /\ plan[t].action = "copy" => K[from] = cat[from]
      /\ plan[t].action = "move" => K[from] = [cat[from] EXCEPT ![plan[t].table] = NoEntry]
      /\ \A b \in Book \ {from, to} : K[b] = cat[b]
      /\ DOMAIN K = Book
  BY TransferredIs
<1>f. K = [b \in Book |-> K[b]]
  BY <1>1 DEF Transferred
<1> HIDE DEF K
<1>2. \A b \in Book : cat[b] \in Shelf /\ Kinds(cat[b])
  BY DEF CatOK
<1>3. from \in Book /\ to \in Book /\ plan[t].action \in {"copy", "move"}
  BY DEF Planned
<1>4. K[to] \in Shelf /\ Kinds(K[to])
  <2>1. Moved(t) \in Entry /\ Moved(t).type # "TITLE"
    BY MovedIs
  <2>2. Copied(t) \in Node /\ Copied(t) \notin Folder
    BY CopiedIs
  <2> QED BY <1>1, <1>2, <1>3, <2>1, <2>2, PutShelf
<1>5. K[from] \in Shelf /\ Kinds(K[from])
  <2>1. plan[t].table \in Node
    BY CopiedIs
  <2>2. NoEntry \notin Entry
    BY DEF NoEntry, Entry
  <2>3. CASE plan[t].action = "copy"
    BY <1>1, <1>2, <1>3, <2>3
  <2>4. CASE plan[t].action = "move"
    <3>1. [cat[from] EXCEPT ![plan[t].table] = NoEntry] \in Shelf
          /\ Kinds([cat[from] EXCEPT ![plan[t].table] = NoEntry])
      BY <1>2, <1>3, <2>1, <2>2, PutShelf
    <3> QED BY <1>1, <2>4, <3>1
  <2> QED BY <1>3, <2>3, <2>4
<1>6. \A b \in Book : K[b] \in Shelf /\ Kinds(K[b])
  BY <1>1, <1>2, <1>4, <1>5
<1> QED BY <1>6, <1>f DEF K

LEMMA TransferredTree ==
    ASSUME CatOK, NEW t \in Transfer, Planned(t), TransferApplies(t),
           \A b \in Book : Tree(cat[b]),
           Children(cat[plan[t].from], plan[t].table) = {}
    PROVE  /\ \A b \in Book : Tree(Transferred(t)[b])
           /\ \A u \in Table : (\E b \in Book : In(cat[b], u)) => \E b \in Book : In(Transferred(t)[b], u)
<1> DEFINE K == Transferred(t)
           from == plan[t].from
           to == plan[t].to
<1>1. /\ K[to] = [cat[to] EXCEPT ![Copied(t)] = Moved(t)]
      /\ plan[t].action = "copy" => K[from] = cat[from]
      /\ plan[t].action = "move" => K[from] = [cat[from] EXCEPT ![plan[t].table] = NoEntry]
      /\ \A b \in Book \ {from, to} : K[b] = cat[b]
  BY TransferredIs
<1> HIDE DEF K
<1>2. \A b \in Book : cat[b] \in Shelf /\ Kinds(cat[b])
  BY DEF CatOK
<1>3. from \in Book /\ to \in Book /\ plan[t].action \in {"copy", "move"} /\ from # to
  BY DEF Planned
<1>4. /\ Copied(t) \in Node /\ Copied(t) \notin Folder
      /\ plan[t].action = "move" => Copied(t) = plan[t].table
      /\ plan[t].table \in Node
  BY CopiedIs
<1>5. Moved(t) \in Entry /\ Moved(t).type = "DOC" /\ Moved(t).parent = plan[t].parent
  BY MovedIs
<1>6. Tree(K[to])
  <2>1. ~IsDir(cat[to], Copied(t))
    BY <1>2, <1>3, <1>4, RootIsNoNode DEF IsDir, Kinds
  <2>2. IsDir(cat[to], Moved(t).parent)
    BY <1>5 DEF TransferApplies
  <2>3. Tree([cat[to] EXCEPT ![Copied(t)] = Moved(t)])
    BY <1>2, <1>3, <1>4, <1>5, <2>1, <2>2, PutTree
  <2> QED BY <1>1, <2>3
<1>7. Tree(K[from])
  <2>1. CASE plan[t].action = "copy"
    BY <1>1, <1>3, <2>1
  <2>2. CASE plan[t].action = "move"
    <3>1. \A m \in Node : In(cat[from], m) => cat[from][m].parent # plan[t].table
      BY DEF Children
    <3>2. Tree([cat[from] EXCEPT ![plan[t].table] = NoEntry])
      BY <1>2, <1>3, <1>4, <3>1, DropTree
    <3> QED BY <1>1, <2>2, <3>2
  <2> QED BY <1>3, <2>1, <2>2
<1>8. \A b \in Book : Tree(K[b])
  BY <1>1, <1>6, <1>7
<1>9. ASSUME NEW u \in Table, NEW b \in Book, In(cat[b], u)
      PROVE  \E x \in Book : In(K[x], u)
  <2>1. u \in Node
    BY DEF Node
  <2>2. K[to][Copied(t)] = Moved(t)
    BY <1>1, <1>2, <1>3, <1>4 DEF Shelf
  <2>3. CASE u = Copied(t)
    BY <1>3, <1>5, <2>2, <2>3 DEF In
  <2>4. CASE u # Copied(t)
    <3>1. K[to][u] = cat[to][u]
      BY <1>1, <1>2, <1>3, <2>1, <2>4 DEF Shelf
    <3>2. K[from][u] = cat[from][u]
      BY <1>1, <1>2, <1>3, <1>4, <2>1, <2>4 DEF Shelf
    <3> QED BY <1>1, <1>9, <3>1, <3>2 DEF In
  <2> QED BY <2>3, <2>4
<1> QED BY <1>8, <1>9 DEF K

-----------------------------------------------------------------------------
(* Steps of a change.                                                      *)

\* One step of a change in its own records, or its end.
Ahead(c) ==
    /\ pc' \in [Change -> ChangeSteps] /\ verdict' \in [Change -> Verdicts]
    /\ holder' \in [Book -> Confirms \cup {Nobody}]
    /\ \A d \in Change \ {c} : pc'[d] = pc[d] /\ verdict'[d] = verdict[d]
    /\ \A y \in Confirms \ {c}, b \in Book : holder[b] = y => holder'[b] = y

LEMMA GoesOn ==
    ASSUME IInv, NEW c \in Change, NEW s \in ChangeSteps, Goto(c, s)
    PROVE  Ahead(c) /\ pc'[c] = s /\ verdict' = verdict /\ holder' = holder
BY DEF IInv, TypeOK, CatalogsSound, ChangeTyped, Goto, Ahead

LEMMA EndsHere ==
    ASSUME IInv, NEW c \in Change, pc[c] \in ChangeBusy, NEW v \in Verdicts, End(c, v)
    PROVE  Ahead(c) /\ pc'[c] = "done" /\ verdict'[c] = v
<1>1. ChangeOK(c)
  BY DEF IInv
<1>2. pc[c] # "new"
  BY DEF ChangeBusy
<1>3. op[c].book \in Book /\ holder[op[c].book] = c
  BY <1>1, <1>2, OpsAre DEF ChangeOK
<1>4. holder \in [Book -> Confirms \cup {Nobody}]
  BY DEF IInv, TypeOK, CatalogsSound
<1>5. holder' \in [Book -> Confirms \cup {Nobody}]
  BY <1>4 DEF End
<1>6. \A y \in Confirms \ {c}, b \in Book : holder[b] = y => holder'[b] = y
  BY <1>3, <1>4 DEF End
<1>7. "done" \in ChangeSteps
  BY DEF ChangeSteps
<1> QED BY <1>5, <1>6, <1>7 DEF IInv, TypeOK, ChangeTyped, End, Ahead

\* What a step that writes nothing must keep.
Silent == UNCHANGED <<cat, rows, edits, late, sent, hit, unanswered, lost>>

Planning(c) ==
    /\ op' \in [Change -> Op] /\ base' \in [Change -> Shelf]
    /\ inserted' \in [Change -> Node \cup {Root}]
    /\ \A d \in Change \ {c} : op'[d] = op[d] /\ base'[d] = base[d] /\ inserted'[d] = inserted[d]

LEMMA ChangeStep ==
    ASSUME IInv, NEW c \in Change, By(c), TypeOK', ChangeOK(c)',
           late' \subseteq unanswered' \cap sent', lost' = {}, TreesOK'
    PROVE  IInv'
<1>1. c \in Confirms /\ \A t \in Transfer : t # c
  BY Different
<1>2. \A d \in Change : ChangeOK(d)'
  BY <1>1, OtherChange
<1>3. \A t \in Transfer : TransferOK(t)'
  BY <1>1, OtherTransfer
<1> QED BY <1>2, <1>3 DEF IInv

LEMMA SilentChange ==
    ASSUME IInv, NEW c \in Change, Silent, UNCHANGED transferVars, Ahead(c), Planning(c),
           calm' \in {calm, calm \cup {c}}, disturbed' \in {disturbed, disturbed \ {c}},
           ChangeOK(c)'
    PROVE  IInv'
<1>1. By(c)
  BY DEF By, Silent, transferVars, Ahead, Planning
<1>2. CatalogsSound'
  BY Different DEF IInv, TypeOK, CatalogsSound, Silent, Ahead
<1>3. CatOK' /\ TransferTyped'
  BY DEF IInv, TypeOK, CatOK, TransferTyped, transferVars, Silent
<1>4. ChangeTyped'
  BY DEF Ahead, Planning, ChangeTyped
<1>5. late' \subseteq unanswered' \cap sent' /\ lost' = {} /\ TreesOK'
  BY DEF IInv, Silent, TreesOK, Clean
<1> QED BY <1>1, <1>2, <1>3, <1>4, <1>5, ChangeStep DEF TypeOK

LEMMA Reading ==
    ASSUME IInv, NEW c \in Change, Reads
    PROVE  /\ Silent /\ UNCHANGED <<op, base, disturbed>>
           /\ inserted' = inserted => Planning(c)
BY DEF Reads, Silent, Planning, IInv, TypeOK, ChangeTyped

LEMMA PreviewCatalogKeeps ==
    ASSUME IInv, NEW c \in Change, PreviewCatalog(c), UNCHANGED transferVars
    PROVE  IInv'
<1>1. PICK o \in Ops(c) : /\ Possible(o, cat[o.book])
                          /\ op' = [op EXCEPT ![c] = o]
                          /\ base' = [base EXCEPT ![c] = cat[o.book]]
  BY DEF PreviewCatalog
<1>2. o \in Op /\ o.book \in Book
  BY OpsAre
<1>3. ChangeTyped /\ CatOK /\ ChangeOK(c)
  BY DEF IInv, TypeOK
<1>4. "previewed" \in ChangeSteps
  BY DEF ChangeSteps
<1>5. Ahead(c) /\ pc'[c] = "previewed"
  BY <1>4, GoesOn DEF PreviewCatalog
<1>6. Planning(c) /\ op'[c] = o /\ base'[c] = cat[o.book]
  BY <1>1, <1>2, <1>3 DEF PreviewCatalog, Planning, ChangeTyped, CatOK
<1>7. Silent /\ calm' = calm /\ disturbed' = disturbed \ {c}
  BY DEF PreviewCatalog, Silent
<1>8. Possible(op'[c], base'[c])
  BY <1>1, <1>6
<1>9. Possible(op[c], base[c])'
  BY <1>8 DEF Possible, CanCreate, CanRename, CanMove, CanDelete, NewParent
<1>10. op'[c] \in Ops(c)'
  BY <1>6 DEF Ops
<1>11. c \notin sent
  BY <1>3 DEF ChangeOK, PreviewCatalog
<1>12. ChangeOK(c)'
  BY <1>5, <1>7, <1>9, <1>10, <1>11 DEF ChangeOK, ChangeBusy, Requesting, Silent
<1> QED BY <1>5, <1>6, <1>7, <1>12, SilentChange

LEMMA ConfirmCatalogKeeps ==
    ASSUME IInv, NEW c \in Change, ConfirmCatalog(c), UNCHANGED transferVars
    PROVE  IInv'
<1>1. ChangeTyped /\ ChangeOK(c) /\ holder \in [Book -> Confirms \cup {Nobody}]
  BY DEF IInv, TypeOK, CatalogsSound
<1>2. op[c].book \in Book
  BY <1>1, OpsAre DEF ChangeOK, ConfirmCatalog
<1>3. Ahead(c)
  BY <1>1, <1>2, Different DEF ConfirmCatalog, Ahead, ChangeTyped, ChangeSteps
<1>4. Silent /\ calm' = calm /\ disturbed' = disturbed /\ UNCHANGED <<op, base, inserted, verdict>>
  BY DEF ConfirmCatalog, Silent
<1>5. pc'[c] = "rechecking" /\ holder'[op[c].book] = c
  BY <1>1, <1>2 DEF ConfirmCatalog, ChangeTyped
<1>6. Planning(c)
  BY <1>1, <1>4 DEF Planning, ChangeTyped
<1>7. ChangeOK(c)'
  BY <1>1, <1>4, <1>5 DEF ChangeOK, ConfirmCatalog, ChangeBusy, Requesting, Silent
<1> QED BY <1>3, <1>4, <1>6, <1>7, SilentChange

\* How the steps after the preview find a change.
LEMMA Busy ==
    ASSUME IInv, NEW c \in Change, pc[c] \in ChangeBusy
    PROVE  /\ op[c] \in Ops(c) /\ Possible(op[c], base[c]) /\ op[c].book \in Book
           /\ op[c].action \in Actions
           /\ holder[op[c].book] = c /\ ChangeOK(c)
<1>1. ChangeOK(c)
  BY DEF IInv
<1> QED BY <1>1, OpsAre DEF ChangeOK, ChangeBusy

\* A failure is no conflict and no success.
LEMMA RecordedIs ==
    ASSUME NEW a \in Errors
    PROVE  Recorded(a) \in {"unknown", "failed"}
BY DEF Recorded

LEMMA FailsHere ==
    ASSUME IInv, NEW c \in Change, pc[c] \in ChangeBusy, Fails(c)
    PROVE  Ahead(c) /\ pc'[c] = "done" /\ verdict'[c] \in {"unknown", "failed"}
<1>1. PICK a \in Errors : End(c, Recorded(a))
  BY DEF Fails
<1>2. Recorded(a) \in {"unknown", "failed"}
  BY RecordedIs
<1>3. Recorded(a) \in Verdicts
  BY <1>2 DEF Verdicts
<1> QED BY <1>1, <1>2, <1>3, EndsHere

\* An end that tells neither a conflict nor a success is always true.
LEMMA EndOK ==
    ASSUME IInv, NEW c \in Change, pc[c] \in ChangeBusy, pc'[c] = "done",
           UNCHANGED <<op, base>>,
           verdict'[c] \in {"unknown", "failed", "partial"}
    PROVE  ChangeOK(c)'
<1>1. op[c] \in Ops(c) /\ Possible(op[c], base[c])
  BY Busy
<1> QED BY <1>1 DEF ChangeOK, ChangeBusy, Requesting, Possible, CanCreate, CanRename, CanMove,
                   CanDelete, NewParent, Ops

LEMMA RecheckCatalogKeeps ==
    ASSUME IInv, NEW c \in Change, RecheckCatalog(c), UNCHANGED transferVars
    PROVE  IInv'
<1>1. pc[c] = "rechecking" /\ pc[c] \in ChangeBusy
  BY DEF RecheckCatalog, ChangeBusy, ChangeSteps
<1>2. ChangeOK(c) /\ c \notin sent /\ op[c] \in Ops(c) /\ Possible(op[c], base[c])
      /\ holder[op[c].book] = c
  BY <1>1, Busy DEF ChangeOK
<1>3. Silent /\ UNCHANGED <<op, base, disturbed>> /\ Planning(c) /\ calm' = calm
  BY Reading DEF RecheckCatalog
<1>4. CASE Goto(c, "preparing")
  <2>1. "preparing" \in ChangeSteps
    BY DEF ChangeSteps
  <2>2. Ahead(c) /\ pc'[c] = "preparing" /\ holder' = holder
    BY <1>4, <2>1, GoesOn
  <2>3. ChangeOK(c)'
    BY <1>2, <1>3, <2>2 DEF ChangeOK, ChangeBusy, Requesting, Silent
  <2> QED BY <1>3, <2>2, <2>3, SilentChange
<1>5. CASE \E v \in {"conflict", "failed"} : End(c, v)
  <2>1. PICK v \in {"conflict", "failed"} : End(c, v)
    BY <1>5
  <2>2. v \in Verdicts
    BY DEF Verdicts
  <2>3. Ahead(c) /\ pc'[c] = "done" /\ verdict'[c] = v
    BY <1>1, <2>1, <2>2, EndsHere
  <2>4. ChangeOK(c)'
    BY <1>2, <1>3, <2>3 DEF ChangeOK, ChangeBusy, Requesting, Silent
  <2> QED BY <1>3, <2>3, <2>4, SilentChange
<1>6. CASE Fails(c)
  <2>1. Ahead(c) /\ pc'[c] = "done" /\ verdict'[c] \in {"unknown", "failed"}
    BY <1>1, <1>6, FailsHere
  <2>2. ChangeOK(c)'
    BY <1>1, <1>3, <2>1, EndOK
  <2> QED BY <1>3, <2>1, <2>2, SilentChange
<1> QED BY <1>4, <1>5, <1>6 DEF RecheckCatalog

LEMMA PrepareCatalogKeeps ==
    ASSUME IInv, NEW c \in Change, PrepareCatalog(c), UNCHANGED transferVars
    PROVE  IInv'
<1>1. pc[c] = "preparing" /\ pc[c] \in ChangeBusy
  BY DEF PrepareCatalog, ChangeBusy, ChangeSteps
<1>2. ChangeOK(c) /\ c \notin sent /\ op[c] \in Ops(c) /\ Possible(op[c], base[c])
      /\ holder[op[c].book] = c
  BY <1>1, Busy DEF ChangeOK
<1>3. Silent /\ UNCHANGED <<op, base, disturbed>> /\ Planning(c) /\ calm' = calm \cup {c}
  BY Reading DEF PrepareCatalog
<1>4. CASE SameCatalog(c) /\ Goto(c, IF op[c].action = "create" THEN "inserting" ELSE "writing")
  <2>1. PICK s \in Requesting : Goto(c, s) /\ (s = "inserting" => op[c].action = "create")
    BY <1>4 DEF Requesting
  <2>2. s \in ChangeSteps
    BY DEF ChangeSteps, Requesting
  <2>3. Ahead(c) /\ pc'[c] = s /\ holder' = holder
    BY <2>1, <2>2, GoesOn
  <2>4. ChangeOK(c)'
    BY <1>2, <1>3, <1>4, <2>1, <2>3 DEF ChangeOK, ChangeBusy, Requesting, Silent, SameCatalog, Catalog
  <2> QED BY <1>3, <2>3, <2>4, SilentChange
<1>5. CASE End(c, "failed")
  <2>1. "failed" \in Verdicts
    BY DEF Verdicts
  <2>2. Ahead(c) /\ pc'[c] = "done" /\ verdict'[c] = "failed"
    BY <1>1, <1>5, <2>1, EndsHere
  <2>3. ChangeOK(c)'
    BY <1>1, <1>3, <2>2, EndOK
  <2> QED BY <1>3, <2>2, <2>3, SilentChange
<1>6. CASE Fails(c)
  <2>1. Ahead(c) /\ pc'[c] = "done" /\ verdict'[c] \in {"unknown", "failed"}
    BY <1>1, <1>6, FailsHere
  <2>2. ChangeOK(c)'
    BY <1>1, <1>3, <2>1, EndOK
  <2> QED BY <1>3, <2>1, <2>2, SilentChange
<1> QED BY <1>4, <1>5, <1>6 DEF PrepareCatalog

\* The inserted directory is one of the catalog's, or nothing is known.
LEMMA IdentifiedKeeps ==
    ASSUME IInv, NEW c \in Change, pc[c] \in ChangeBusy, NEW new \in SUBSET Node, Identified(c, new)
    PROVE  /\ Ahead(c) /\ inserted' \in [Change -> Node \cup {Root}]
           /\ \A d \in Change \ {c} : inserted'[d] = inserted[d]
           /\ \/ pc'[c] = "renaming" /\ inserted'[c] \in Node /\ holder' = holder
              \/ pc'[c] = "done" /\ verdict'[c] = "unknown"
<1>1. inserted \in [Change -> Node \cup {Root}]
  BY DEF IInv, TypeOK, ChangeTyped
<1>2. CASE Cardinality(new) = 1
  <2>1. PICK n \in new : inserted' = [inserted EXCEPT ![c] = n]
    BY <1>2 DEF Identified
  <2>2. n \in Node
    OBVIOUS
  <2>3. "renaming" \in ChangeSteps
    BY DEF ChangeSteps
  <2>4. Goto(c, "renaming")
    BY <1>2 DEF Identified
  <2>5. Ahead(c) /\ pc'[c] = "renaming" /\ holder' = holder
    BY <2>3, <2>4, GoesOn
  <2> QED BY <1>1, <2>1, <2>2, <2>5
<1>3. CASE Cardinality(new) # 1
  <2>1. End(c, "unknown") /\ inserted' = inserted
    BY <1>3 DEF Identified
  <2>2. "unknown" \in Verdicts
    BY DEF Verdicts
  <2>3. Ahead(c) /\ pc'[c] = "done" /\ verdict'[c] = "unknown"
    BY <2>1, <2>2, EndsHere
  <2> QED BY <1>1, <2>1, <2>3
<1> QED BY <1>2, <1>3

LEMMA FindInsertedKeeps ==
    ASSUME IInv, NEW c \in Change, FindInserted(c), UNCHANGED transferVars
    PROVE  IInv'
<1>1. pc[c] = "finding" /\ pc[c] \in ChangeBusy
  BY DEF FindInserted, ChangeBusy, ChangeSteps
<1>2. ChangeOK(c) /\ op[c] \in Ops(c) /\ Possible(op[c], base[c]) /\ holder[op[c].book] = c
  BY <1>1, Busy
<1>3. Silent /\ UNCHANGED <<op, base, disturbed>> /\ calm' = calm
  BY Reading DEF FindInserted
<1>4. CASE Identified(c, Candidates(c, Catalog(c)))
  <2>1. Candidates(c, Catalog(c)) \in SUBSET Node
    BY DEF Candidates, Children
  <2>2. /\ Ahead(c) /\ inserted' \in [Change -> Node \cup {Root}]
        /\ \A d \in Change \ {c} : inserted'[d] = inserted[d]
        /\ \/ pc'[c] = "renaming" /\ inserted'[c] \in Node /\ holder' = holder
           \/ pc'[c] = "done" /\ verdict'[c] = "unknown"
    BY <1>1, <1>4, <2>1, IdentifiedKeeps
  <2>3. Planning(c)
    BY <1>3, <2>2 DEF Planning, IInv, TypeOK, ChangeTyped
  <2>4. ChangeOK(c)'
    <3>1. CASE pc'[c] = "done" /\ verdict'[c] = "unknown"
      BY <1>1, <1>3, <3>1, EndOK
    <3>2. CASE pc'[c] = "renaming" /\ inserted'[c] \in Node /\ holder' = holder
      BY <1>1, <1>2, <1>3, <3>2 DEF ChangeOK, ChangeBusy, Requesting, Silent
    <3> QED BY <2>2, <3>1, <3>2
  <2> QED BY <1>3, <2>2, <2>3, <2>4, SilentChange
<1>5. CASE Fails(c) /\ UNCHANGED inserted
  <2>1. Ahead(c) /\ pc'[c] = "done" /\ verdict'[c] \in {"unknown", "failed"}
    BY <1>1, <1>5, FailsHere
  <2>2. ChangeOK(c)'
    BY <1>1, <1>3, <2>1, EndOK
  <2>3. Planning(c)
    BY <1>5, Reading DEF FindInserted
  <2> QED BY <1>3, <2>1, <2>2, <2>3, SilentChange
<1> QED BY <1>4, <1>5 DEF FindInserted

\* A success told by a read: the request was applied, or is the creation's.
LEMMA ToldKeeps ==
    ASSUME IInv, NEW c \in Change, pc[c] \in {"checking", "verifying"}, Reads, UNCHANGED transferVars,
           UNCHANGED <<inserted, calm>>,
           (\E v \in {"succeeded", "partial", "failed"} : End(c, v)) \/ Fails(c)
    PROVE  IInv'
<1>1. pc[c] \in ChangeBusy
  BY DEF ChangeBusy, ChangeSteps
<1>2. ChangeOK(c) /\ op[c] \in Ops(c) /\ Possible(op[c], base[c])
  BY <1>1, Busy
<1>3. Silent /\ UNCHANGED <<op, base, disturbed>> /\ Planning(c) /\ calm' = calm
  BY Reading
<1>4. CASE \E v \in {"succeeded", "partial", "failed"} : End(c, v)
  <2>1. PICK v \in {"succeeded", "partial", "failed"} : End(c, v)
    BY <1>4
  <2>2. v \in Verdicts
    BY DEF Verdicts
  <2>3. Ahead(c) /\ pc'[c] = "done" /\ verdict'[c] = v
    BY <1>1, <2>1, <2>2, EndsHere
  <2>4. ChangeOK(c)'
    BY <1>2, <1>3, <2>3 DEF ChangeOK, ChangeBusy, Requesting, Silent
  <2> QED BY <1>3, <2>3, <2>4, SilentChange
<1>5. CASE Fails(c)
  <2>1. Ahead(c) /\ pc'[c] = "done" /\ verdict'[c] \in {"unknown", "failed"}
    BY <1>1, <1>5, FailsHere
  <2>2. ChangeOK(c)'
    BY <1>1, <1>3, <2>1, EndOK
  <2> QED BY <1>3, <2>1, <2>2, SilentChange
<1> QED BY <1>4, <1>5

LEMMA CheckRenamedKeeps ==
    ASSUME IInv, NEW c \in Change, CheckRenamed(c), UNCHANGED transferVars
    PROVE  IInv'
<1>1. (\E v \in {"succeeded", "partial", "failed"} : End(c, v)) \/ Fails(c)
  BY DEF CheckRenamed
<1> QED BY <1>1, ToldKeeps DEF CheckRenamed

LEMMA VerifyNodeKeeps ==
    ASSUME IInv, NEW c \in Change, VerifyNode(c), UNCHANGED transferVars
    PROVE  IInv'
<1>1. (\E v \in {"succeeded", "partial", "failed"} : End(c, v)) \/ Fails(c)
  BY DEF VerifyNode, Verified
<1> QED BY <1>1, ToldKeeps DEF VerifyNode

\* The catalogs after a change, once Yuque has applied its request.
LEMMA AppliedTree ==
    ASSUME IInv, NEW c \in Change, pc[c] \in Requesting, Applies(c), Clean
    PROVE  /\ \A b \in Book : Tree(Applied(c)[b])
           /\ \A t \in Table : \E b \in Book : In(Applied(c)[b], t)
<1>1. pc[c] \in ChangeBusy
  BY DEF Requesting, ChangeBusy, ChangeSteps
<1>2. op[c] \in Ops(c) /\ Possible(op[c], base[c]) /\ op[c].book \in Book /\ ChangeOK(c)
  BY <1>1, Busy
<1>3. CatOK
  BY DEF IInv, TypeOK
<1>4. Catalog(c) = base[c]
  BY <1>2 DEF ChangeOK, Catalog
<1>5. Catalog(c) \in Shelf /\ Kinds(Catalog(c))
  BY <1>2, <1>3 DEF CatOK, Catalog
<1>6. Tree(Catalog(c)) /\ \A b \in Book : Tree(cat[b])
  BY <1>2 DEF IInv, TreesOK, Catalog
<1>7. op[c].action = "create" => ~In(Catalog(c), c)
  BY DEF Applies
<1>8. /\ \A b \in Book : b # op[c].book => Applied(c)[b] = cat[b]
      /\ Applied(c)[op[c].book] = Edit(op[c], c, Catalog(c))
  BY <1>2, <1>3, AppliedOK
<1>9. /\ Tree(Edit(op[c], c, Catalog(c)))
      /\ \A t \in Table : In(Catalog(c), t) => In(Edit(op[c], c, Catalog(c)), t)
  BY <1>2, <1>4, <1>5, <1>6, <1>7, EditTree
<1>10. \A b \in Book : Tree(Applied(c)[b])
  BY <1>2, <1>6, <1>8, <1>9
<1>11. ASSUME NEW t \in Table PROVE \E b \in Book : In(Applied(c)[b], t)
  <2>1. PICK b \in Book : In(cat[b], t)
    BY DEF IInv, TreesOK
  <2>2. CASE b = op[c].book
    BY <1>2, <1>8, <1>9, <2>1, <2>2 DEF Catalog
  <2>3. CASE b # op[c].book
    BY <1>8, <2>1, <2>3 DEF In
  <2> QED BY <2>2, <2>3
<1> QED BY <1>10, <1>11

\* What a change's request leaves, answered by a.
Sent(c, a) ==
    /\ CatOK' /\ \A b \in Book : b # op[c].book => cat'[b] = cat[b]
    /\ sent' = sent \cup {c} /\ hit' \in {hit, hit \cup {c}}
    /\ late' \in {late, late \cup {c}} /\ unanswered' \in {unanswered, unanswered \cup {c}}
    /\ cat' # cat => disturbed' = disturbed \cup (Confirms \ {c})
    /\ disturbed' \in {disturbed, disturbed \cup (Confirms \ {c})}
    /\ late' \subseteq unanswered' \cap sent' /\ lost' = {} /\ TreesOK'
    /\ a = "ok" => c \in hit'
    /\ a = "uncertain" => c \in unanswered'
    /\ UNCHANGED <<op, base, rows, edits, calm>>

LEMMA RequestedIs ==
    ASSUME IInv, NEW c \in Change, pc[c] \in Requesting, NEW a \in Answer, Requested(c, a)
    PROVE  Sent(c, a)
<1>1. pc[c] \in ChangeBusy
  BY DEF Requesting, ChangeBusy, ChangeSteps
<1>2. op[c] \in Ops(c) /\ op[c].book \in Book /\ ChangeOK(c)
  BY <1>1, Busy
<1>3. CatOK /\ late \subseteq unanswered \cap sent /\ lost = {} /\ TreesOK
  BY DEF IInv, TypeOK
<1>4. PICK reached \in BOOLEAN, delayed \in BOOLEAN :
        /\ a = "ok" => reached
        /\ reached => Applies(c)
        /\ delayed => a = "uncertain" /\ ~reached
        /\ cat' = IF reached THEN Applied(c) ELSE cat
        /\ hit' = IF reached THEN hit \cup {c} ELSE hit
        /\ late' = IF delayed THEN late \cup {c} ELSE late
        /\ disturbed' = IF reached THEN disturbed \cup (Confirms \ {c}) ELSE disturbed
        /\ lost' = IF reached /\ c \in calm /\ Catalog(c) # base[c] THEN lost \cup {c} ELSE lost
  BY DEF Requested
<1>5. /\ sent' = sent \cup {c} /\ UNCHANGED <<op, base, rows, edits, calm>>
      /\ unanswered' = IF a = "uncertain" THEN unanswered \cup {c} ELSE unanswered
  BY DEF Requested
<1>6. lost' = {}
  BY <1>2, <1>3, <1>4 DEF ChangeOK, Catalog
<1>7. late' \subseteq unanswered' \cap sent'
  BY <1>3, <1>4, <1>5
<1>8. Clean' => Clean /\ unanswered' = unanswered
  BY <1>5 DEF Clean
<1>9. CASE reached
  <2>1. Applies(c) /\ cat' = Applied(c)
    BY <1>4, <1>9
  <2>2. /\ Applied(c) \in [Book -> Shelf] /\ \A b \in Book : Kinds(Applied(c)[b])
        /\ \A b \in Book : b # op[c].book => Applied(c)[b] = cat[b]
    BY <1>2, <1>3, <2>1, AppliedOK
  <2>3. CatOK' /\ \A b \in Book : b # op[c].book => cat'[b] = cat[b]
    BY <2>1, <2>2 DEF CatOK
  <2>4. Clean => /\ \A b \in Book : Tree(cat'[b])
                 /\ \A t \in Table : \E b \in Book : In(cat'[b], t)
    BY <2>1, AppliedTree
  <2>5. TreesOK'
    BY <1>8, <2>4 DEF TreesOK
  <2> QED BY <1>4, <1>5, <1>6, <1>7, <1>9, <2>3, <2>5 DEF Sent
<1>10. CASE ~reached
  <2>1. cat' = cat
    BY <1>4, <1>10
  <2>2. CatOK' /\ TreesOK'
    BY <1>3, <1>8, <2>1 DEF CatOK, TreesOK
  <2> QED BY <1>4, <1>5, <1>6, <1>7, <1>10, <2>1, <2>2 DEF Sent
<1> QED BY <1>9, <1>10

LEMMA SentChange ==
    ASSUME IInv, NEW c \in Change, pc[c] \in Requesting, NEW a \in Answer, Sent(c, a), Ahead(c),
           UNCHANGED transferVars, inserted' \in [Change -> Node \cup {Root}],
           \A d \in Change \ {c} : inserted'[d] = inserted[d], ChangeOK(c)'
    PROVE  IInv'
<1>1. op[c].book \in Book /\ holder[op[c].book] = c
  BY Busy DEF Requesting, ChangeBusy, ChangeSteps
<1>2. By(c)
  BY <1>1 DEF By, Sent, transferVars, Ahead
<1>3. CatalogsSound'
  <2>1. c \in Confirms
    BY Different
  <2>2. cat' \in [Book -> [Node -> Entry \cup {NoEntry}]]
    BY DEF Sent, CatOK, Shelf
  <2>3. late' \cup sent' \cup hit' \cup unanswered' \cup calm' \cup lost' \cup disturbed' \subseteq Confirms
    BY <2>1 DEF IInv, TypeOK, CatalogsSound, Sent
  <2> QED BY <2>2, <2>3 DEF IInv, TypeOK, CatalogsSound, Sent, Ahead
<1>4. CatOK' /\ TransferTyped'
  BY DEF IInv, TypeOK, TransferTyped, transferVars, Sent
<1>5. ChangeTyped'
  BY DEF IInv, TypeOK, ChangeTyped, Ahead, Sent
<1> QED BY <1>2, <1>3, <1>4, <1>5, ChangeStep DEF TypeOK, Sent

LEMMA InsertGroupKeeps ==
    ASSUME IInv, NEW c \in Change, InsertGroup(c), UNCHANGED transferVars
    PROVE  IInv'
<1>1. pc[c] = "inserting" /\ pc[c] \in ChangeBusy /\ pc[c] \in Requesting
  BY DEF InsertGroup, ChangeBusy, ChangeSteps, Requesting
<1>2. ChangeOK(c) /\ op[c] \in Ops(c) /\ Possible(op[c], base[c]) /\ holder[op[c].book] = c
  BY <1>1, Busy
<1>3. PICK a \in Answer :
        /\ Requested(c, a)
        /\ \/ a = "uncertain" /\ Goto(c, "finding") /\ UNCHANGED inserted
           \/ a = "refused" /\ End(c, "failed") /\ UNCHANGED inserted
           \/ a = "ok" /\ Identified(c, Candidates(c, cat'[op[c].book]))
  BY DEF InsertGroup
<1>4. Sent(c, a)
  BY <1>1, <1>3, RequestedIs
<1>t. inserted \in [Change -> Node \cup {Root}]
  BY DEF IInv, TypeOK, ChangeTyped
<1>5. CASE a = "uncertain" /\ Goto(c, "finding") /\ UNCHANGED inserted
  <2>1. "finding" \in ChangeSteps
    BY DEF ChangeSteps
  <2>2. Ahead(c) /\ pc'[c] = "finding" /\ holder' = holder
    BY <1>5, <2>1, GoesOn
  <2>3. ChangeOK(c)'
    BY <1>1, <1>2, <1>4, <1>5, <2>2 DEF ChangeOK, ChangeBusy, Requesting, Sent
  <2> QED BY <1>1, <1>t, <1>4, <1>5, <2>2, <2>3, SentChange
<1>6. CASE a = "refused" /\ End(c, "failed") /\ UNCHANGED inserted
  <2>1. "failed" \in Verdicts
    BY DEF Verdicts
  <2>2. Ahead(c) /\ pc'[c] = "done" /\ verdict'[c] = "failed"
    BY <1>1, <1>6, <2>1, EndsHere
  <2>3. ChangeOK(c)'
    BY <1>1, <1>4, <2>2, EndOK DEF Sent
  <2> QED BY <1>1, <1>t, <1>4, <1>6, <2>2, <2>3, SentChange
<1>7. CASE a = "ok" /\ Identified(c, Candidates(c, cat'[op[c].book]))
  <2>1. Candidates(c, cat'[op[c].book]) \in SUBSET Node
    BY DEF Candidates, Children
  <2>2. /\ Ahead(c) /\ inserted' \in [Change -> Node \cup {Root}]
        /\ \A d \in Change \ {c} : inserted'[d] = inserted[d]
        /\ \/ pc'[c] = "renaming" /\ inserted'[c] \in Node /\ holder' = holder
           \/ pc'[c] = "done" /\ verdict'[c] = "unknown"
    BY <1>1, <1>7, <2>1, IdentifiedKeeps
  <2>3. ChangeOK(c)'
    <3>1. CASE pc'[c] = "done" /\ verdict'[c] = "unknown"
      BY <1>1, <1>4, <3>1, EndOK DEF Sent
    <3>2. CASE pc'[c] = "renaming" /\ inserted'[c] \in Node /\ holder' = holder
      BY <1>1, <1>2, <1>4, <1>7, <3>2 DEF ChangeOK, ChangeBusy, Requesting, Sent
    <3> QED BY <2>2, <3>1, <3>2
  <2> QED BY <1>1, <1>4, <2>2, <2>3, SentChange
<1> QED BY <1>3, <1>5, <1>6, <1>7

LEMMA WriteNodeKeeps ==
    ASSUME IInv, NEW c \in Change, WriteNode(c), UNCHANGED transferVars
    PROVE  IInv'
<1>1. pc[c] = "writing" /\ pc[c] \in ChangeBusy /\ pc[c] \in Requesting
  BY DEF WriteNode, ChangeBusy, ChangeSteps, Requesting
<1>2. ChangeOK(c) /\ op[c] \in Ops(c) /\ Possible(op[c], base[c]) /\ holder[op[c].book] = c
  BY <1>1, Busy
<1>3. PICK a \in Answer :
        /\ Requested(c, a)
        /\ IF Answered(a) THEN Goto(c, "verifying") ELSE End(c, Recorded(a))
  BY DEF WriteNode
<1>4. Sent(c, a)
  BY <1>1, <1>3, RequestedIs
<1>t. inserted' = inserted /\ inserted \in [Change -> Node \cup {Root}]
  BY DEF IInv, TypeOK, ChangeTyped, WriteNode
<1>5. CASE a = "ok"
  <2>1. "verifying" \in ChangeSteps
    BY DEF ChangeSteps
  <2>2. Ahead(c) /\ pc'[c] = "verifying" /\ holder' = holder
    BY <1>3, <1>5, <2>1, GoesOn DEF Answered
  <2>3. ChangeOK(c)'
    BY <1>1, <1>2, <1>4, <1>5, <2>2 DEF ChangeOK, ChangeBusy, Requesting, Sent
  <2> QED BY <1>1, <1>t, <1>4, <2>2, <2>3, SentChange
<1>6. CASE a # "ok"
  <2>1. a \in Errors /\ End(c, Recorded(a))
    BY <1>3, <1>6 DEF Answered, Errors
  <2>2. Ahead(c) /\ pc'[c] = "done" /\ verdict'[c] \in {"unknown", "failed"}
    BY <1>1, <2>1, FailsHere DEF Fails
  <2>3. ChangeOK(c)'
    BY <1>1, <1>4, <2>2, EndOK DEF Sent
  <2> QED BY <1>1, <1>t, <1>4, <2>2, <2>3, SentChange
<1> QED BY <1>5, <1>6

LEMMA RenameInsertedKeeps ==
    ASSUME IInv, NEW c \in Change, RenameInserted(c), UNCHANGED transferVars
    PROVE  IInv'
<1>1. pc[c] = "renaming" /\ pc[c] \in ChangeBusy
  BY DEF RenameInserted, ChangeBusy, ChangeSteps
<1>2. /\ ChangeOK(c) /\ op[c] \in Ops(c) /\ Possible(op[c], base[c]) /\ holder[op[c].book] = c
      /\ op[c].book \in Book
  BY <1>1, Busy
<1>3. inserted[c] \in Node /\ op[c].action = "create" /\ op[c].title \in Title
  <2>1. inserted[c] \in Node /\ op[c].action = "create"
    BY <1>1, <1>2 DEF ChangeOK
  <2> QED BY <1>2, <2>1, OpsAre
<1>4. PICK reached \in BOOLEAN :
        /\ reached => In(Catalog(c), inserted[c])
        /\ cat' = IF reached THEN Retitle(op[c].book, inserted[c], op[c].title) ELSE cat
        /\ disturbed' = IF reached THEN disturbed \cup (Confirms \ {c}) ELSE disturbed
  BY DEF RenameInserted
<1>5. "checking" \in ChangeSteps
  BY DEF ChangeSteps
<1>6. Ahead(c) /\ pc'[c] = "checking" /\ holder' = holder
  BY <1>5, GoesOn DEF RenameInserted
<1>7. UNCHANGED <<inserted, op, base, rows, edits, late, sent, hit, unanswered, calm, lost>>
  BY DEF RenameInserted
<1>c. CatOK /\ TreesOK
  BY DEF IInv, TypeOK
<1>8. CatOK' /\ (\A b \in Book : b # op[c].book => cat'[b] = cat[b]) /\ TreesOK'
  <2>1. CASE ~reached
    BY <1>c, <1>4, <1>7, <2>1 DEF CatOK, TreesOK, Clean
  <2>2. CASE reached
    <3> DEFINE k == cat[op[c].book]
               l == [k EXCEPT ![inserted[c]].title = op[c].title]
    <3>1. k \in Shelf /\ Kinds(k) /\ In(k, inserted[c])
      BY <1>2, <1>c, <1>4, <2>2 DEF CatOK, Catalog
    <3>2. cat' = [cat EXCEPT ![op[c].book] = l]
      BY <1>2, <1>c, <1>4, <2>2 DEF Retitle, CatOK
    <3>3. l \in Shelf /\ Kinds(l)
      BY <1>3, <3>1, TitleShelf
    <3>4. \A n \in Node : l[n].type = k[n].type /\ l[n].parent = k[n].parent
      BY <1>3, <3>1, EntryThere DEF Shelf, Entry
    <3>5. Tree(k) => Tree(l)
      <4> HIDE DEF k, l
      <4> QED BY <3>4, SameTree
    <3> HIDE DEF l
    <3>6. /\ CatOK' /\ cat'[op[c].book] = l
          /\ \A b \in Book \ {op[c].book} : cat'[b] = cat[b]
      BY <1>2, <1>c, <3>2, <3>3, CatEdited DEF CatOK
    <3>7. \A t \in Table, b \in Book : In(cat[b], t) => In(cat'[b], t)
      BY <3>4, <3>6 DEF In, Node
    <3>8. TreesOK'
      BY <1>2, <1>c, <1>7, <3>5, <3>6, <3>7 DEF TreesOK, Clean
    <3> QED BY <3>6, <3>8
  <2> QED BY <2>1, <2>2
<1>9. By(c)
  BY <1>2, <1>4, <1>6, <1>7, <1>8 DEF By, transferVars, Ahead
<1>10. CatalogsSound'
  <2>1. cat' \in [Book -> [Node -> Entry \cup {NoEntry}]]
    BY <1>8 DEF CatOK, Shelf
  <2> QED BY <1>4, <1>6, <1>7, <2>1 DEF IInv, TypeOK, CatalogsSound, Ahead
<1>11. TransferTyped' /\ ChangeTyped'
  BY <1>6, <1>7 DEF IInv, TypeOK, TransferTyped, transferVars, ChangeTyped, Ahead
<1>12. late' \subseteq unanswered' \cap sent' /\ lost' = {}
  BY <1>7 DEF IInv
<1>13. ChangeOK(c)'
  BY <1>1, <1>2, <1>6, <1>7 DEF ChangeOK, ChangeBusy, Requesting
<1> QED BY <1>8, <1>9, <1>10, <1>11, <1>12, <1>13, ChangeStep DEF TypeOK

-----------------------------------------------------------------------------
(* Steps beside the confirms: a late request, or the colleague's.          *)

\* x is the confirm whose request is late, or nobody.
Outside(x) ==
    /\ UNCHANGED <<catVars, transferVars, holder, sent, unanswered, lost>>
    /\ calm' = {} /\ ~Clean'
    /\ hit \subseteq hit' /\ hit' \subseteq hit \cup {x}
    /\ late' \subseteq late /\ x \notin late'
    /\ \A y \in Confirms \ {x} : y \in disturbed' \/ (cat' = cat /\ y \notin disturbed)

LEMMA OutsideKeeps ==
    ASSUME IInv, NEW x, Outside(x), CatalogsSound', CatOK',
           x \in Transfer => x \in late /\ TargetOK(x)'
    PROVE  IInv'
<1>1. /\ UNCHANGED <<op, base, pc, verdict, inserted, plan, at, phase, journal, source, state, exact>>
      /\ UNCHANGED <<holder, sent, unanswered, lost>>
  BY DEF Outside, catVars, transferVars
<1>2. TypeOK'
  BY <1>1 DEF IInv, TypeOK, ChangeTyped, TransferTyped
<1>3. ASSUME NEW d \in Change PROVE ChangeOK(d)'
  <2>1. ChangeOK(d)
    BY DEF IInv
  <2>2. d \notin calm' /\ ~Clean' /\ (d \in hit => d \in hit')
    BY DEF Outside
  <2> QED BY <1>1, <2>1, <2>2 DEF ChangeOK, Possible, CanCreate, CanRename, CanMove, CanDelete,
                                  NewParent, Ops, Requesting
<1>4. ASSUME NEW t \in Transfer PROVE TransferOK(t)'
  <2>1. TransferOK(t) /\ t \in Confirms
    BY Different DEF IInv
  <2>2. Copied(t)' = Copied(t)
    BY <1>1 DEF Copied
  <2>3. PhaseOK(t)'
    BY <1>1, <2>1, <2>2 DEF TransferOK, PhaseOK
  <2>4. /\ t \in hit => t \in hit'
        /\ t \in late' => t \in late /\ t # x
        /\ t \in hit' => t \in hit \/ (t = x /\ t \in late)
        /\ t \in hit' /\ t # x => t \in hit
    BY DEF Outside
  <2>5. RequestOK(t)'
    BY <1>1, <2>1, <2>4 DEF TransferOK, RequestOK
  <2>6. ReadOK(t)'
    BY DEF ReadOK, Outside
  <2>7. TargetOK(t)'
    <3>1. CASE t = x
      BY <3>1
    <3>2. CASE t # x
      <4>1. t \in disturbed' \/ (cat' = cat /\ t \notin disturbed)
        BY <2>1, <3>2 DEF Outside
      <4> QED BY <1>1, <2>1, <2>2, <2>4, <3>2, <4>1 DEF TransferOK, TargetOK
    <3> QED BY <3>1, <3>2
  <2> QED BY <1>1, <2>1, <2>3, <2>5, <2>6, <2>7 DEF TransferOK, CanTransfer, IsDir, Unique, Children, In
<1>5. late' \subseteq unanswered' \cap sent' /\ lost' = {}
  BY <1>1 DEF IInv, Outside
<1>6. TreesOK'
  BY DEF TreesOK, Outside
<1> QED BY <1>2, <1>3, <1>4, <1>5, <1>6 DEF IInv

LEMMA LandChangeKeeps ==
    ASSUME IInv, NEW c \in Change, LandChange(c), UNCHANGED transferVars
    PROVE  IInv'
<1>1. /\ c \in late /\ late' = late \ {c} /\ calm' = {}
      /\ disturbed' = disturbed \cup (Confirms \ {c})
      /\ cat' = IF Applies(c) THEN Applied(c) ELSE cat
      /\ hit' = IF Applies(c) THEN hit \cup {c} ELSE hit
      /\ UNCHANGED <<catVars, rows, edits, holder, sent, unanswered, lost>>
  BY DEF LandChange
<1>2. CatOK /\ CatalogsSound /\ ChangeOK(c) /\ late \subseteq unanswered \cap sent
  BY DEF IInv, TypeOK
<1>3. op[c] \in Ops(c)
  BY <1>1, <1>2 DEF ChangeOK
<1>4. CatOK'
  <2>1. Applies(c) => /\ Applied(c) \in [Book -> Shelf]
                      /\ \A b \in Book : Kinds(Applied(c)[b])
    BY <1>2, <1>3, AppliedOK
  <2> QED BY <1>1, <1>2, <2>1 DEF CatOK
<1>5. CatalogsSound'
  <2>1. cat' \in [Book -> [Node -> Entry \cup {NoEntry}]]
    BY <1>4 DEF CatOK, Shelf
  <2> QED BY <1>1, <1>2, <2>1 DEF CatalogsSound
<1>6. ~Clean'
  BY <1>1, <1>2 DEF Clean
<1>7. Outside(c)
  BY <1>1, <1>6 DEF Outside
<1>8. c \notin Transfer
  BY Different
<1> QED BY <1>4, <1>5, <1>7, <1>8, OutsideKeeps

LEMMA DisturbsKeeps ==
    ASSUME IInv, Disturbs, UNCHANGED <<catVars, transferVars>>, CatOK',
           rows' \in [Table \cup Transfer -> Contents]
    PROVE  IInv'
<1>1. /\ calm' = {} /\ disturbed' = Confirms /\ edits < MaxEdits /\ edits' = edits + 1
      /\ UNCHANGED <<holder, late, sent, hit, unanswered, lost>>
  BY DEF Disturbs
<1>2. CatalogsSound
  BY DEF IInv, TypeOK
<1>3. edits' \in 0 .. MaxEdits /\ edits' # 0
  BY <1>1, <1>2, CatalogAssumption DEF CatalogsSound
<1>4. CatalogsSound'
  <2>1. cat' \in [Book -> [Node -> Entry \cup {NoEntry}]]
    BY DEF CatOK, Shelf
  <2> QED BY <1>1, <1>2, <1>3, <2>1 DEF CatalogsSound
<1>5. Nobody \notin Confirms /\ Nobody \notin Transfer
  BY Different
<1>6. Outside(Nobody)
  BY <1>1, <1>2, <1>3, <1>5 DEF Outside, Clean, CatalogsSound
<1> QED BY <1>4, <1>5, <1>6, OutsideKeeps

LEMMA ColleagueStepKeeps ==
    ASSUME IInv, ColleagueStep, UNCHANGED <<catVars, transferVars>>
    PROVE  IInv'
<1>1. CatOK /\ CatalogsSound
  BY DEF IInv, TypeOK
<1>2. rows \in [Table \cup Transfer -> Contents]
  BY <1>1 DEF CatalogsSound
<1>3. ASSUME NEW b \in Book, NEW l \in Shelf, Kinds(l), cat' = [cat EXCEPT ![b] = l]
      PROVE  CatOK'
  BY <1>1, <1>3, CatEdited DEF CatOK
<1>4. ASSUME NEW b \in Book, NEW n \in Stranger, NEW p \in Node \cup {Root}, AddDir(b, n, p)
      PROVE  IInv'
  <2>1. n \in Node /\ n \in Folder /\ cat[b] \in Shelf /\ Kinds(cat[b])
    BY <1>1 DEF Node, Folder, CatOK
  <2>2. NewDir(p) \in Entry /\ NewDir(p).type = "TITLE"
    BY NewDirIs
  <2>3. [cat[b] EXCEPT ![n] = NewDir(p)] \in Shelf /\ Kinds([cat[b] EXCEPT ![n] = NewDir(p)])
    BY <2>1, <2>2, PutShelf
  <2>4. cat' = [cat EXCEPT ![b] = [cat[b] EXCEPT ![n] = NewDir(p)]]
    BY <1>1, <1>4 DEF AddDir, Insert, NewDir, CatOK
  <2>5. CatOK'
    BY <1>3, <2>3, <2>4
  <2> QED BY <1>2, <1>4, <2>5, DisturbsKeeps DEF AddDir
<1>5. ASSUME NEW b \in Book, NEW n \in Node, RemoveNode(b, n)
      PROVE  IInv'
  <2>1. cat[b] \in Shelf /\ Kinds(cat[b])
    BY <1>1 DEF CatOK
  <2>2. PICK l : l = [m \in Node |-> IF m \in Below(cat[b], n) THEN NoEntry ELSE cat[b][m]]
    OBVIOUS
  <2>3. l \in Shelf /\ Kinds(l)
    BY <2>1, <2>2, EraseShelf
  <2>4. cat' = [cat EXCEPT ![b] = l]
    BY <1>1, <1>5, <2>2 DEF RemoveNode, Destroy, CatOK
  <2>5. CatOK'
    BY <1>3, <2>3, <2>4
  <2> QED BY <1>2, <1>5, <2>5, DisturbsKeeps DEF RemoveNode
<1>6. ASSUME NEW b \in Book, NEW n \in Node, NEW v \in Title, RenameNode(b, n, v)
      PROVE  IInv'
  <2>1. cat[b] \in Shelf /\ Kinds(cat[b]) /\ In(cat[b], n)
    BY <1>1, <1>6 DEF CatOK, RenameNode
  <2>2. PICK l : l = [cat[b] EXCEPT ![n].title = v]
    OBVIOUS
  <2>3. l \in Shelf /\ Kinds(l)
    BY <2>1, <2>2, TitleShelf
  <2>4. cat' = [cat EXCEPT ![b] = l]
    BY <1>1, <1>6, <2>2 DEF RenameNode, Retitle, CatOK
  <2>5. CatOK'
    BY <1>3, <2>3, <2>4
  <2> QED BY <1>2, <1>6, <2>5, DisturbsKeeps DEF RenameNode
<1>7. ASSUME NEW t \in Table, EditTable(t)
      PROVE  IInv'
  <2>1. cat' = cat /\ Disturbs /\ rows' = [rows EXCEPT ![t] = "edited"]
    BY <1>7 DEF EditTable
  <2>2. CatOK'
    BY <1>1, <2>1 DEF CatOK
  <2>3. rows' \in [Table \cup Transfer -> Contents]
    BY <1>2, <2>1 DEF Contents
  <2> QED BY <2>1, <2>2, <2>3, DisturbsKeeps
<1> QED BY <1>4, <1>5, <1>6, <1>7 DEF ColleagueStep

-----------------------------------------------------------------------------
(* Steps of a transfer.                                                    *)

AheadT(t) ==
    /\ at' \in [Transfer -> TransferSteps] /\ state' \in [Transfer -> Verdicts]
    /\ holder' \in [Book -> Confirms \cup {Nobody}]
    /\ \A u \in Transfer \ {t} : at'[u] = at[u] /\ state'[u] = state[u]
    /\ \A y \in Confirms \ {t}, b \in Book : holder[b] = y => holder'[b] = y

LEMMA ProceedsTo ==
    ASSUME IInv, NEW t \in Transfer, NEW s \in TransferSteps, Proceed(t, s)
    PROVE  AheadT(t) /\ at'[t] = s /\ state' = state /\ holder' = holder
BY DEF IInv, TypeOK, CatalogsSound, TransferTyped, Proceed, AheadT

LEMMA FinishesHere ==
    ASSUME IInv, NEW t \in Transfer, NEW v \in Verdicts, Finish(t, v)
    PROVE  AheadT(t) /\ at'[t] = "done" /\ state'[t] = v
<1>1. "done" \in TransferSteps
  BY DEF TransferSteps
<1>2. holder \in [Book -> Confirms \cup {Nobody}]
  BY DEF IInv, TypeOK, CatalogsSound
<1>3. holder' \in [Book -> Confirms \cup {Nobody}]
  BY <1>2 DEF Finish
<1>4. \A y \in Confirms \ {t}, b \in Book : holder[b] = y => holder'[b] = y
  BY <1>2 DEF Finish
<1> QED BY <1>1, <1>3, <1>4 DEF IInv, TypeOK, TransferTyped, Finish, AheadT

LEMMA StopsHere ==
    ASSUME IInv, NEW t \in Transfer, Stops(t)
    PROVE  /\ AheadT(t) /\ at'[t] = "done" /\ state'[t] # "succeeded"
           /\ state'[t] = "conflict" => phase'[t].phase = "prepared"
<1>1. PICK v : v = Outcome(t)
  OBVIOUS
<1>2. v \in {"conflict", "unknown", "partial"} /\ (v = "conflict" => phase'[t].phase = "prepared")
  BY <1>1 DEF Outcome
<1>3. v \in Verdicts
  BY <1>2 DEF Verdicts
<1>4. Finish(t, v)
  BY <1>1 DEF Stops
<1> QED BY <1>2, <1>3, <1>4, FinishesHere

PlanningT(t) ==
    /\ plan' \in [Transfer -> Plan] /\ source' \in [Transfer -> Shelf] /\ exact' \in SUBSET Transfer
    /\ phase' \in [Transfer -> [phase : Phases, doc : Node \cup {Nobody}]]
    /\ journal' \in [Transfer -> [phase : Phases, doc : Node \cup {Nobody}]]
    /\ \A u \in Transfer \ {t} :
          /\ plan'[u] = plan[u] /\ source'[u] = source[u] /\ (u \in exact' <=> u \in exact)
          /\ phase'[u] = phase[u] /\ journal'[u] = journal[u]

LEMMA TransferStep ==
    ASSUME IInv, NEW t \in Transfer, By(t), TypeOK', TransferOK(t)',
           late' \subseteq unanswered' \cap sent', lost' = {}, TreesOK'
    PROVE  IInv'
<1>1. t \in Confirms /\ \A d \in Change : d # t
  BY Different
<1>2. \A d \in Change : ChangeOK(d)'
  BY <1>1, OtherChange
<1>3. \A u \in Transfer : TransferOK(u)'
  BY <1>1, OtherTransfer
<1> QED BY <1>2, <1>3 DEF IInv

LEMMA SilentTransfer ==
    ASSUME IInv, NEW t \in Transfer, Silent, UNCHANGED catVars, AheadT(t), PlanningT(t),
           calm' \in {calm, calm \cup {t}}, disturbed' \in {disturbed, disturbed \ {t}},
           TransferOK(t)'
    PROVE  IInv'
<1>1. By(t)
  BY DEF By, Silent, catVars, AheadT, PlanningT
<1>2. CatalogsSound'
  BY Different DEF IInv, TypeOK, CatalogsSound, Silent, AheadT
<1>3. CatOK' /\ ChangeTyped'
  BY DEF IInv, TypeOK, CatOK, ChangeTyped, catVars, Silent
<1>4. TransferTyped'
  BY DEF AheadT, PlanningT, TransferTyped
<1>5. late' \subseteq unanswered' \cap sent' /\ lost' = {} /\ TreesOK'
  BY DEF IInv, Silent, TreesOK, Clean
<1> QED BY <1>1, <1>2, <1>3, <1>4, <1>5, TransferStep DEF TypeOK

\* What holds of a plan and of its target as long as nothing is written.
LEMMA PlanKept ==
    ASSUME IInv, NEW t \in Transfer, at[t] # "new", Silent, UNCHANGED <<plan, disturbed>>,
           at'[t] \in TransferBusy => holder'[plan[t].from] = t /\ holder'[plan[t].to] = t,
           PhaseOK(t)', RequestOK(t)', ReadOK(t)'
    PROVE  TransferOK(t)'
<1>1. TransferOK(t)
  BY DEF IInv
<1>2. TargetOK(t)'
  BY <1>1 DEF TransferOK, TargetOK, Silent, Copied
<1> QED BY <1>1, <1>2 DEF TransferOK, CanTransfer, IsDir, Unique, Children, In, Silent

LEMMA BusyT ==
    ASSUME IInv, NEW t \in Transfer, at[t] \in TransferBusy
    PROVE  /\ Planned(t) /\ TransferOK(t) /\ at[t] # "new"
           /\ CanTransfer(plan[t], plan[t].sourceCatalog, plan[t].targetCatalog)
           /\ holder[plan[t].from] = t /\ holder[plan[t].to] = t
           /\ PhaseOK(t) /\ RequestOK(t) /\ ReadOK(t) /\ TargetOK(t)
<1>1. TransferOK(t)
  BY DEF IInv
<1>2. at[t] # "new"
  BY DEF TransferBusy
<1>3. plan[t].parent \in Dir \cup {Root}
  BY DEF IInv, TypeOK, TransferTyped, Plan
<1> QED BY <1>1, <1>2, <1>3 DEF TransferOK, Planned, CanTransfer

\* A stop after which nothing is told that is not so.
LEMMA StopOK ==
    ASSUME IInv, NEW t \in Transfer, at[t] \in TransferBusy, Silent, UNCHANGED <<plan, disturbed>>,
           at'[t] = "done", state'[t] # "succeeded", state'[t] = "conflict" => t \notin sent,
           journal'[t].doc \in {Nobody, Copied(t)}, t \in sent => journal'[t].phase # "prepared"
    PROVE  TransferOK(t)'
<1>1. RequestOK(t) /\ at[t] # "new"
  BY BusyT
<1>2. Copied(t)' = Copied(t)
  BY DEF Copied
<1>3. PhaseOK(t)'
  BY <1>2 DEF PhaseOK, Answered3
<1>4. RequestOK(t)'
  BY <1>1 DEF RequestOK, Silent, Answered3
<1>5. ReadOK(t)'
  BY DEF ReadOK
<1>6. at'[t] \notin TransferBusy
  BY DEF TransferBusy
<1> QED BY <1>1, <1>3, <1>4, <1>5, <1>6, PlanKept

LEMMA PreviewTransferKeeps ==
    ASSUME IInv, NEW t \in Transfer, PreviewTransfer(t), UNCHANGED catVars
    PROVE  IInv'
<1>1. PICK action \in {"copy", "move"}, n \in Table, from \in Book, to \in Book,
           p \in Dir \cup {Root} :
        /\ CanTransfer(PlanOf(action, n, from, to, p), cat[from], cat[to])
        /\ plan' = [plan EXCEPT ![t] = PlanOf(action, n, from, to, p)]
  BY DEF PreviewTransfer
<1> DEFINE new == PlanOf(action, n, from, to, p)
<1>2. TransferTyped /\ CatOK /\ TransferOK(t) /\ CatalogsSound
  BY DEF IInv, TypeOK
<1>3. /\ new.action = action /\ new.table = n /\ new.from = from /\ new.to = to
      /\ new.parent = p /\ new.sourceCatalog = cat[from] /\ new.targetCatalog = cat[to]
      /\ new \in Plan
  BY <1>2 DEF PlanOf, Plan, CatOK, CatalogsSound, Content
<1> HIDE DEF new
<1>4. plan'[t] = new /\ plan' \in [Transfer -> Plan] /\ \A u \in Transfer \ {t} : plan'[u] = plan[u]
  BY <1>1, <1>2, <1>3 DEF TransferTyped, new
<1>5. "previewed" \in TransferSteps /\ at[t] = "new"
  BY DEF TransferSteps, PreviewTransfer
<1>6. AheadT(t) /\ at'[t] = "previewed"
  BY <1>5, ProceedsTo DEF PreviewTransfer
<1>7. /\ Silent /\ calm' = calm /\ disturbed' = disturbed \ {t}
      /\ UNCHANGED <<phase, journal, source, exact>>
  BY DEF PreviewTransfer, Silent
<1>8. PlanningT(t)
  BY <1>2, <1>4, <1>7 DEF PlanningT, TransferTyped
<1>9. t \notin sent /\ t \notin hit /\ t \notin late /\ phase[t] = Prepared /\ journal[t] = Prepared
  BY <1>2, <1>5 DEF TransferOK, PhaseOK, RequestOK, Answered3
<1>10. PhaseOK(t)'
  BY <1>6, <1>7, <1>9 DEF PhaseOK, Answered3, Prepared
<1>11. RequestOK(t)' /\ ReadOK(t)'
  BY <1>6, <1>7, <1>9 DEF RequestOK, ReadOK, Answered3, Silent
<1>12. TargetOK(t)'
  BY <1>3, <1>4, <1>7, <1>9 DEF TargetOK, Silent
<1>13. CanTransfer(plan'[t], plan'[t].sourceCatalog, plan'[t].targetCatalog)
  BY <1>1, <1>3, <1>4 DEF new
<1>14. CanTransfer(plan[t], plan[t].sourceCatalog, plan[t].targetCatalog)'
  BY <1>13 DEF CanTransfer, IsDir, Unique, Children, In
<1>15. TransferOK(t)'
  BY <1>3, <1>4, <1>6, <1>10, <1>11, <1>12, <1>14 DEF TransferOK, TransferBusy
<1> QED BY <1>6, <1>7, <1>8, <1>15, SilentTransfer

LEMMA ConfirmTransferKeeps ==
    ASSUME IInv, NEW t \in Transfer, ConfirmTransfer(t), UNCHANGED catVars
    PROVE  IInv'
<1>1. TransferTyped /\ TransferOK(t) /\ holder \in [Book -> Confirms \cup {Nobody}]
  BY DEF IInv, TypeOK, CatalogsSound
<1>2. at[t] = "previewed" /\ plan[t].from \in Book /\ plan[t].to \in Book
  BY <1>1 DEF TransferOK, ConfirmTransfer
<1>3. /\ \A b \in Books(t) : holder[b] = Nobody
      /\ holder' = [b \in Book |-> IF b \in Books(t) THEN t ELSE holder[b]]
      /\ at' = [at EXCEPT ![t] = "preparing"]
  BY DEF ConfirmTransfer
<1>4. Silent /\ UNCHANGED <<plan, phase, journal, source, state, exact, calm, disturbed>>
  BY DEF ConfirmTransfer, Still, Silent
<1>5. AheadT(t)
  BY <1>1, <1>3, <1>4, Different DEF AheadT, TransferTyped, TransferSteps
<1>6. at'[t] = "preparing" /\ holder'[plan[t].from] = t /\ holder'[plan[t].to] = t
  BY <1>1, <1>2, <1>3 DEF TransferTyped, Books
<1>7. PlanningT(t)
  BY <1>1, <1>4 DEF PlanningT, TransferTyped
<1>8. PhaseOK(t)'
  BY <1>1, <1>2, <1>4, <1>6 DEF TransferOK, PhaseOK, Answered3, Prepared
<1>9. RequestOK(t)' /\ ReadOK(t)'
  BY <1>1, <1>2, <1>4, <1>6 DEF TransferOK, RequestOK, ReadOK, Answered3, Silent
<1>10. TransferOK(t)'
  BY <1>2, <1>4, <1>6, <1>8, <1>9, PlanKept
<1> QED BY <1>4, <1>5, <1>7, <1>10, SilentTransfer

LEMMA PrepareTransferKeeps ==
    ASSUME IInv, NEW t \in Transfer, PrepareTransfer(t), UNCHANGED catVars
    PROVE  IInv'
<1>1. at[t] = "preparing" /\ at[t] \in TransferBusy
  BY DEF PrepareTransfer, TransferBusy, TransferSteps
<1>2. /\ PhaseOK(t) /\ RequestOK(t) /\ at[t] # "new"
      /\ holder[plan[t].from] = t /\ holder[plan[t].to] = t
  BY <1>1, BusyT
<1>3. Silent /\ UNCHANGED <<plan, source, exact, disturbed>> /\ calm' = calm \cup {t}
  BY DEF PrepareTransfer, Still, Silent
<1>4. TransferTyped /\ phase[t] = Prepared /\ journal[t] = Prepared /\ t \notin sent
      /\ t \notin hit /\ t \notin late
  BY <1>1, <1>2 DEF IInv, TypeOK, PhaseOK, RequestOK, Answered3
<1>5. CASE /\ SamePlan(t)
           /\ phase' = [phase EXCEPT ![t].phase = "transmitting"]
           /\ Checkpoint(t)
           /\ Proceed(t, "sending")
  <2>1. "sending" \in TransferSteps
    BY DEF TransferSteps
  <2>2. AheadT(t) /\ at'[t] = "sending" /\ holder' = holder
    BY <1>5, <2>1, ProceedsTo
  <2>3. /\ phase'[t] = [phase |-> "transmitting", doc |-> Nobody] /\ journal'[t] = phase'[t]
        /\ \A u \in Transfer \ {t} : phase'[u] = phase[u] /\ journal'[u] = journal[u]
        /\ phase' \in [Transfer -> [phase : Phases, doc : Node \cup {Nobody}]]
        /\ journal' \in [Transfer -> [phase : Phases, doc : Node \cup {Nobody}]]
    BY <1>4, <1>5 DEF TransferTyped, Checkpoint, Prepared, Phases
  <2>4. PlanningT(t)
    BY <1>3, <1>4, <2>3 DEF PlanningT, TransferTyped
  <2>5. PhaseOK(t)'
    BY <2>2, <2>3 DEF PhaseOK, Answered3
  <2>6. RequestOK(t)'
    BY <1>3, <1>4, <2>2 DEF RequestOK, Answered3, Silent
  <2>7. ReadOK(t)'
    BY <1>3, <1>5, <2>2 DEF ReadOK, SamePlan, Content, Silent
  <2>8. TransferOK(t)'
    BY <1>2, <1>3, <2>2, <2>5, <2>6, <2>7, PlanKept
  <2> QED BY <1>3, <2>2, <2>4, <2>8, SilentTransfer
<1>6. CASE UNCHANGED <<phase, journal>> /\ Stops(t)
  <2>1. AheadT(t) /\ at'[t] = "done" /\ state'[t] # "succeeded"
    BY <1>6, StopsHere
  <2>2. PlanningT(t)
    BY <1>3, <1>4, <1>6 DEF PlanningT, TransferTyped
  <2>3. TransferOK(t)'
    BY <1>1, <1>3, <1>4, <1>6, <2>1, StopOK DEF Prepared
  <2> QED BY <1>3, <2>1, <2>2, <2>3, SilentTransfer
<1> QED BY <1>5, <1>6 DEF PrepareTransfer

\* The reads after an answered request: what they start from.
LEMMA AnsweredT ==
    ASSUME IInv, NEW t \in Transfer, at[t] \in Answered3
    PROVE  /\ at[t] \in TransferBusy /\ at[t] # "new" /\ t \in hit /\ t \in sent /\ t \notin late
           /\ phase[t] = [phase |-> "acknowledged", doc |-> Copied(t)] /\ journal[t] = phase[t]
           /\ holder[plan[t].from] = t /\ holder[plan[t].to] = t
           /\ Planned(t) /\ ReadOK(t)
<1>1. at[t] \in TransferBusy /\ at[t] # "new"
  BY DEF Answered3, TransferBusy, TransferSteps
<1>2. PhaseOK(t) /\ RequestOK(t) /\ ReadOK(t) /\ Planned(t)
      /\ holder[plan[t].from] = t /\ holder[plan[t].to] = t
  BY <1>1, BusyT
<1>3. t \in hit
  BY <1>2 DEF RequestOK
<1> QED BY <1>1, <1>2, <1>3 DEF PhaseOK, RequestOK

\* They stop and tell no conflict, or go on.
LEMMA ReadStops ==
    ASSUME IInv, NEW t \in Transfer, at[t] \in Answered3, Silent, UNCHANGED catVars,
           UNCHANGED <<plan, source, exact, disturbed, phase, journal>>,
           calm' \in {calm, calm \cup {t}}, Stops(t)
    PROVE  IInv'
<1>1. /\ at[t] \in TransferBusy /\ phase[t] = [phase |-> "acknowledged", doc |-> Copied(t)]
      /\ journal[t] = phase[t]
  BY AnsweredT
<1>2. /\ AheadT(t) /\ at'[t] = "done" /\ state'[t] # "succeeded"
      /\ state'[t] = "conflict" => phase'[t].phase = "prepared"
  BY StopsHere
<1>3. journal'[t] = phase[t]
  BY <1>1
<1>4. TransferOK(t)'
  BY <1>1, <1>2, <1>3, StopOK
<1>5. PlanningT(t)
  <2>1. TransferTyped
    BY DEF IInv, TypeOK
  <2> QED BY <2>1 DEF PlanningT, TransferTyped
<1> QED BY <1>2, <1>4, <1>5, SilentTransfer

LEMMA LocateSourceKeeps ==
    ASSUME IInv, NEW t \in Transfer, LocateSource(t), UNCHANGED catVars
    PROVE  IInv'
<1>1. at[t] = "locating" /\ at[t] \in Answered3
  BY DEF LocateSource, Answered3
<1>2. /\ at[t] # "new" /\ t \in hit /\ t \in sent /\ t \notin late
      /\ phase[t] = [phase |-> "acknowledged", doc |-> Copied(t)] /\ journal[t] = phase[t]
      /\ holder[plan[t].from] = t /\ holder[plan[t].to] = t /\ Planned(t)
  BY <1>1, AnsweredT
<1>3. /\ Silent /\ UNCHANGED <<plan, exact, disturbed, phase, journal>> /\ calm' = calm \cup {t}
  BY DEF LocateSource, Still, Silent
<1>4. CASE source' = [source EXCEPT ![t] = cat[plan[t].from]] /\ Proceed(t, "matching")
  <2>1. "matching" \in TransferSteps
    BY DEF TransferSteps
  <2>2. AheadT(t) /\ at'[t] = "matching" /\ holder' = holder
    BY <1>4, <2>1, ProceedsTo
  <2>3. TransferTyped /\ cat[plan[t].from] \in Shelf
    BY <1>2 DEF IInv, TypeOK, CatOK, Planned
  <2>4. PlanningT(t) /\ source'[t] = cat[plan[t].from]
    BY <1>3, <1>4, <2>3 DEF PlanningT, TransferTyped
  <2>5. PhaseOK(t)'
    BY <1>2, <1>3, <2>2 DEF PhaseOK, Answered3, Copied
  <2>6. RequestOK(t)'
    BY <1>2, <1>3, <2>2 DEF RequestOK, Answered3, Silent
  <2>7. ReadOK(t)'
    BY <1>3, <2>2, <2>4 DEF ReadOK, Silent
  <2>8. TransferOK(t)'
    BY <1>2, <1>3, <2>2, <2>5, <2>6, <2>7, PlanKept
  <2> QED BY <1>3, <2>2, <2>4, <2>8, SilentTransfer
<1>5. CASE Stops(t) /\ UNCHANGED source
  BY <1>1, <1>3, <1>5, ReadStops
<1> QED BY <1>4, <1>5 DEF LocateSource

\* Two catalogs that agree apart from a document.
LEMMA UnrelatedIs ==
    ASSUME NEW t \in Transfer, Planned(t), Unrelated(t),
           source[t] = cat[plan[t].from], phase[t].doc = Copied(t)
    PROVE  /\ Apart(cat[plan[t].from], plan[t].table) = Apart(plan[t].sourceCatalog, plan[t].table)
           /\ Apart(cat[plan[t].to], Copied(t)) = plan[t].targetCatalog
BY DEF Unrelated, Planned

LEMMA LocateTargetKeeps ==
    ASSUME IInv, NEW t \in Transfer, LocateTarget(t), UNCHANGED catVars
    PROVE  IInv'
<1>1. at[t] = "matching" /\ at[t] \in Answered3
  BY DEF LocateTarget, Answered3
<1>2. /\ at[t] # "new" /\ t \in hit /\ t \in sent /\ t \notin late
      /\ phase[t] = [phase |-> "acknowledged", doc |-> Copied(t)] /\ journal[t] = phase[t]
      /\ holder[plan[t].from] = t /\ holder[plan[t].to] = t /\ Planned(t) /\ ReadOK(t)
  BY <1>1, AnsweredT
<1>3. Silent /\ UNCHANGED <<plan, source, exact, calm, disturbed, phase, journal>>
  <2>1. Silent /\ UNCHANGED <<plan, source, exact, calm, disturbed, phase>>
    BY DEF LocateTarget, Still, Silent
  <2>2. journal \in [Transfer -> [phase : Phases, doc : Node \cup {Nobody}]]
    BY DEF IInv, TypeOK, TransferTyped
  <2>3. journal' = [journal EXCEPT ![t] = phase'[t]]
    BY DEF LocateTarget, Checkpoint
  <2> QED BY <1>2, <2>1, <2>2, <2>3
<1>4. CASE Unrelated(t) /\ Proceed(t, "comparing")
  <2>1. "comparing" \in TransferSteps
    BY DEF TransferSteps
  <2>2. AheadT(t) /\ at'[t] = "comparing" /\ holder' = holder
    BY <1>4, <2>1, ProceedsTo
  <2>3. PlanningT(t)
    <3>1. TransferTyped
      BY DEF IInv, TypeOK
    <3> QED BY <1>3, <3>1 DEF PlanningT, TransferTyped
  <2>4. PhaseOK(t)'
    BY <1>2, <1>3, <2>2 DEF PhaseOK, Answered3, Copied
  <2>5. RequestOK(t)'
    BY <1>2, <1>3, <2>2 DEF RequestOK, Answered3, Silent
  <2>6. ReadOK(t)'
    <3>1. t \in calm => source[t] = cat[plan[t].from]
      BY <1>1, <1>2 DEF ReadOK
    <3>2. t \in calm =>
            /\ Apart(cat[plan[t].from], plan[t].table) = Apart(plan[t].sourceCatalog, plan[t].table)
            /\ Apart(cat[plan[t].to], Copied(t)) = plan[t].targetCatalog
      BY <1>2, <1>4, <3>1, UnrelatedIs
    <3> QED BY <1>3, <2>2, <3>2 DEF ReadOK, Apart, Copied, Silent
  <2>7. TransferOK(t)'
    BY <1>2, <1>3, <2>2, <2>4, <2>5, <2>6, PlanKept
  <2> QED BY <1>3, <2>2, <2>3, <2>7, SilentTransfer
<1>5. CASE Stops(t)
  BY <1>1, <1>3, <1>5, ReadStops
<1> QED BY <1>4, <1>5 DEF LocateTarget

LEMMA CompareContentsKeeps ==
    ASSUME IInv, NEW t \in Transfer, CompareContents(t), UNCHANGED catVars
    PROVE  IInv'
<1>1. at[t] = "comparing" /\ at[t] \in Answered3
  BY DEF CompareContents, Answered3
<1>2. /\ at[t] # "new" /\ t \in hit /\ t \in sent /\ t \notin late
      /\ phase[t] = [phase |-> "acknowledged", doc |-> Copied(t)] /\ journal[t] = phase[t]
      /\ holder[plan[t].from] = t /\ holder[plan[t].to] = t /\ Planned(t) /\ ReadOK(t)
      /\ at[t] \in TransferBusy
  BY <1>1, AnsweredT
<1>3. Silent /\ UNCHANGED <<plan, source, calm, disturbed>>
  BY DEF CompareContents, Still, Silent
<1>t. TransferTyped
  BY DEF IInv, TypeOK
<1>4. CASE /\ Content(phase[t].doc) = plan[t].content
           /\ plan[t].action = "copy" => Content(plan[t].table) = plan[t].content
           /\ phase' = [phase EXCEPT ![t].phase = "completed"]
           /\ Checkpoint(t)
           /\ Finish(t, "succeeded")
           /\ exact' = IF t \in calm => OnlyItsOwn(t) THEN exact \cup {t} ELSE exact
  <2>1. "succeeded" \in Verdicts
    BY DEF Verdicts
  <2>2. AheadT(t) /\ at'[t] = "done" /\ state'[t] = "succeeded"
    BY <1>4, <2>1, FinishesHere
  <2>3. rows[Copied(t)] = plan[t].content /\ rows[plan[t].table] = plan[t].content
    BY <1>2, <1>4 DEF Content, Copied, Planned
  <2>4. t \in calm => OnlyItsOwn(t)
    BY <1>1, <1>2, <2>3 DEF ReadOK, OnlyItsOwn
  <2>5. exact' = exact \cup {t}
    BY <1>4, <2>4
  <2>6. /\ phase'[t] = [phase |-> "completed", doc |-> Copied(t)] /\ journal'[t] = phase'[t]
        /\ \A u \in Transfer \ {t} : phase'[u] = phase[u] /\ journal'[u] = journal[u]
        /\ phase' \in [Transfer -> [phase : Phases, doc : Node \cup {Nobody}]]
        /\ journal' \in [Transfer -> [phase : Phases, doc : Node \cup {Nobody}]]
    <3>1. Copied(t) \in Node
      BY <1>2, CopiedIs
    <3> QED BY <1>2, <1>4, <1>t, <3>1 DEF TransferTyped, Checkpoint, Phases
  <2>7. PlanningT(t)
    BY <1>3, <1>t, <2>5, <2>6 DEF PlanningT, TransferTyped
  <2>8. PhaseOK(t)'
    BY <1>3, <2>2, <2>6 DEF PhaseOK, Answered3, Copied
  <2>9. RequestOK(t)' /\ ReadOK(t)'
    BY <1>2, <1>3, <2>2, <2>5, <2>6 DEF RequestOK, ReadOK, Answered3, Silent
  <2>10. TransferOK(t)'
    BY <1>2, <1>3, <2>2, <2>8, <2>9, PlanKept DEF TransferBusy
  <2> QED BY <1>3, <2>2, <2>7, <2>10, SilentTransfer
<1>5. CASE UNCHANGED <<phase, journal, exact>> /\ Stops(t)
  BY <1>1, <1>3, <1>5, ReadStops
<1> QED BY <1>4, <1>5 DEF CompareContents

\* A transfer that is applied leaves its document in the target's catalog.
LEMMA ReachedTarget ==
    ASSUME CatOK, NEW t \in Transfer, Planned(t), TransferApplies(t), cat' = Transferred(t),
           t \notin hit, t \in hit', UNCHANGED plan, TargetOK(t), at[t] # "new",
           t \in disturbed => t \in disturbed'
    PROVE  TargetOK(t)'
<1>1. SUFFICES ASSUME t \notin disturbed'
               PROVE  /\ cat'[plan[t].to][Copied(t)].type = "DOC"
                      /\ plan[t].action = "copy" => plan[t].targetCatalog[t].type # "DOC"
  BY DEF TargetOK, Copied
<1>2. cat[plan[t].to] = plan[t].targetCatalog
  BY <1>1 DEF TargetOK
<1>3. cat[plan[t].to][t].type = "NONE"
  BY DEF TransferApplies, In
<1>4. cat'[plan[t].to] = [cat[plan[t].to] EXCEPT ![Copied(t)] = Moved(t)]
  BY TransferredIs
<1>5. cat[plan[t].to] \in Shelf /\ Copied(t) \in Node
  BY CopiedIs DEF CatOK, Planned
<1>6. cat'[plan[t].to][Copied(t)] = Moved(t)
  BY <1>4, <1>5 DEF Shelf
<1>7. Moved(t).type = "DOC"
  BY MovedIs
<1> QED BY <1>2, <1>3, <1>6, <1>7

LEMMA RowsMoved ==
    ASSUME CatalogsSound, NEW t \in Transfer, Planned(t)
    PROVE  LET r == [rows EXCEPT ![Copied(t)] = rows[plan[t].table]]
           IN  /\ r \in [Table \cup Transfer -> Contents]
               /\ \A n \in Table : r[n] = rows[n]
<1>1. /\ Copied(t) \in Table \cup Transfer
      /\ Copied(t) \in Table => Copied(t) = plan[t].table
  BY CopiedIs DEF Planned
<1>2. rows \in [Table \cup Transfer -> Contents] /\ rows[plan[t].table] \in Contents
  BY DEF CatalogsSound, Planned
<1> QED BY <1>1, <1>2

LEMMA SendTransferKeeps ==
    ASSUME IInv, NEW t \in Transfer, SendTransfer(t), UNCHANGED catVars
    PROVE  IInv'
<1>1. at[t] = "sending" /\ at[t] \in TransferBusy
  BY DEF SendTransfer, TransferBusy, TransferSteps
<1>2. /\ Planned(t) /\ PhaseOK(t) /\ RequestOK(t) /\ ReadOK(t) /\ TargetOK(t) /\ at[t] # "new"
      /\ holder[plan[t].from] = t /\ holder[plan[t].to] = t /\ TransferOK(t)
      /\ CanTransfer(plan[t], plan[t].sourceCatalog, plan[t].targetCatalog)
  BY <1>1, BusyT
<1>3. /\ CatalogsSound /\ CatOK /\ TransferTyped /\ ChangeTyped /\ TreesOK /\ lost = {}
      /\ late \subseteq unanswered \cap sent
  BY DEF IInv, TypeOK
<1>4. /\ phase[t] = [phase |-> "transmitting", doc |-> Nobody] /\ journal[t] = phase[t]
      /\ t \notin sent /\ t \notin hit /\ t \notin late
  BY <1>1, <1>2 DEF PhaseOK, RequestOK, Answered3
<1>5. PICK ok \in BOOLEAN, reached \in BOOLEAN, delayed \in BOOLEAN :
        /\ ok => reached
        /\ reached => TransferApplies(t)
        /\ delayed => ~reached
        /\ Transmitted(t, reached)
        /\ late' = IF delayed THEN late \cup {t} ELSE late
        /\ unanswered' = IF ok THEN unanswered ELSE unanswered \cup {t}
        /\ lost' = IF reached /\ t \in calm /\ ~SamePlan(t) THEN lost \cup {t} ELSE lost
        /\ IF ok
           THEN /\ phase' = [phase EXCEPT ![t] = [phase |-> "acknowledged", doc |-> Copied(t)]]
                /\ Checkpoint(t) /\ Proceed(t, "locating")
           ELSE UNCHANGED <<phase, journal>> /\ Stops(t)
  BY DEF SendTransfer
<1>6. sent' = sent \cup {t} /\ UNCHANGED <<plan, source, exact, edits, calm>>
  BY DEF SendTransfer
<1>7. lost' = {}
  BY <1>1, <1>2, <1>3, <1>5 DEF ReadOK
<1>8. late' \subseteq unanswered' \cap sent'
  BY <1>3, <1>5, <1>6
<1>9. Clean' => Clean /\ t \in calm
  <2>1. Clean' => Clean
    BY <1>5, <1>6 DEF Clean
  <2> QED BY <1>1, <1>2, <2>1 DEF ReadOK
<1>10. /\ CatOK' /\ TreesOK' /\ rows' \in [Table \cup Transfer -> Contents]
       /\ \A n \in Table : rows'[n] = rows[n]
       /\ \A b \in Book : holder[b] # t => cat'[b] = cat[b]
       /\ hit' = IF reached THEN hit \cup {t} ELSE hit
       /\ disturbed' = IF reached THEN disturbed \cup (Confirms \ {t}) ELSE disturbed
       /\ TargetOK(t)' /\ (~reached => cat' = cat)
  <2>1. CASE ~reached
    <3>1. UNCHANGED <<cat, rows, hit, disturbed>>
      BY <1>5, <2>1 DEF Transmitted
    <3>2. CatOK' /\ TreesOK'
      BY <1>3, <1>9, <3>1 DEF CatOK, TreesOK
    <3>3. TargetOK(t)'
      BY <1>2, <1>6, <3>1 DEF TargetOK, Copied
    <3> QED BY <1>3, <2>1, <3>1, <3>2, <3>3 DEF CatalogsSound
  <2>2. CASE reached
    <3>1. /\ TransferApplies(t) /\ cat' = Transferred(t)
          /\ rows' = [rows EXCEPT ![Copied(t)] = rows[plan[t].table]]
          /\ hit' = hit \cup {t} /\ disturbed' = disturbed \cup (Confirms \ {t})
      BY <1>5, <2>2 DEF Transmitted
    <3>2. CatOK'
      BY <1>2, <1>3, <3>1, TransferredOK DEF CatOK
    <3>3. \A b \in Book : holder[b] # t => cat'[b] = cat[b]
      BY <1>2, <1>3, <3>1, TransferredIs
    <3>4. rows' \in [Table \cup Transfer -> Contents] /\ \A n \in Table : rows'[n] = rows[n]
      BY <1>2, <1>3, <3>1, RowsMoved
    <3>5. TargetOK(t)'
      BY <1>2, <1>3, <1>4, <1>6, <3>1, ReachedTarget
    <3>6. Clean' => /\ \A b \in Book : Tree(cat'[b])
                    /\ \A u \in Table : \E b \in Book : In(cat'[b], u)
      <4>1. SUFFICES ASSUME Clean'
                     PROVE  /\ \A b \in Book : Tree(cat'[b])
                            /\ \A u \in Table : \E b \in Book : In(cat'[b], u)
        OBVIOUS
      <4>2. SamePlan(t)
        BY <1>1, <1>2, <1>9, <4>1 DEF ReadOK
      <4>3. Children(cat[plan[t].from], plan[t].table) = {}
        BY <1>2, <4>2 DEF SamePlan, CanTransfer
      <4>4. /\ \A b \in Book : Tree(cat[b])
            /\ \A u \in Table : \E b \in Book : In(cat[b], u)
        BY <1>3, <1>9, <4>1 DEF TreesOK
      <4>5. /\ \A b \in Book : Tree(Transferred(t)[b])
            /\ \A u \in Table : (\E b \in Book : In(cat[b], u))
                                   => \E b \in Book : In(Transferred(t)[b], u)
        BY <1>2, <1>3, <3>1, <4>3, <4>4, TransferredTree
      <4> QED BY <3>1, <4>4, <4>5
    <3>7. TreesOK'
      BY <3>6 DEF TreesOK
    <3> QED BY <2>2, <3>1, <3>2, <3>3, <3>4, <3>5, <3>7
  <2> QED BY <2>1, <2>2
<1>11. /\ AheadT(t) /\ PlanningT(t) /\ PhaseOK(t)' /\ RequestOK(t)' /\ ReadOK(t)'
       /\ at'[t] # "new"
       /\ at'[t] \in TransferBusy => holder'[plan[t].from] = t /\ holder'[plan[t].to] = t
  <2>1. CASE ok
    <3>1. "locating" \in TransferSteps
      BY DEF TransferSteps
    <3>2. AheadT(t) /\ at'[t] = "locating" /\ holder' = holder
      BY <1>5, <2>1, <3>1, ProceedsTo
    <3>3. /\ phase'[t] = [phase |-> "acknowledged", doc |-> Copied(t)] /\ journal'[t] = phase'[t]
          /\ \A u \in Transfer \ {t} : phase'[u] = phase[u] /\ journal'[u] = journal[u]
          /\ phase' \in [Transfer -> [phase : Phases, doc : Node \cup {Nobody}]]
          /\ journal' \in [Transfer -> [phase : Phases, doc : Node \cup {Nobody}]]
      <4>1. Copied(t) \in Node
        BY <1>2, CopiedIs
      <4>2. phase' = [phase EXCEPT ![t] = [phase |-> "acknowledged", doc |-> Copied(t)]]
            /\ journal' = [journal EXCEPT ![t] = phase'[t]]
        BY <1>5, <2>1 DEF Checkpoint
      <4> QED BY <1>3, <4>1, <4>2 DEF TransferTyped, Phases
    <3>4. PlanningT(t)
      BY <1>3, <1>6, <3>3 DEF PlanningT, TransferTyped
    <3>5. PhaseOK(t)'
      BY <1>6, <3>2, <3>3 DEF PhaseOK, Answered3, Copied
    <3>6. t \in hit' /\ t \in sent' /\ t \notin late'
      BY <1>4, <1>5, <1>6, <1>10, <2>1
    <3>7. RequestOK(t)' /\ ReadOK(t)'
      BY <3>2, <3>3, <3>6 DEF RequestOK, ReadOK, Answered3
    <3> QED BY <1>2, <3>2, <3>4, <3>5, <3>7
  <2>2. CASE ~ok
    <3>1. UNCHANGED <<phase, journal>> /\ Stops(t)
      BY <1>5, <2>2
    <3>2. /\ AheadT(t) /\ at'[t] = "done" /\ state'[t] # "succeeded"
          /\ state'[t] = "conflict" => phase'[t].phase = "prepared"
      BY <3>1, StopsHere
    <3>3. state'[t] # "conflict"
      BY <1>4, <3>1, <3>2
    <3>4. PlanningT(t)
      BY <1>3, <1>6, <3>1 DEF PlanningT, TransferTyped
    <3>5. PhaseOK(t)'
      BY <1>4, <3>1, <3>2 DEF PhaseOK, Answered3
    <3>6. t \in sent' /\ (t \in late' => t \notin hit')
      BY <1>4, <1>5, <1>6, <1>10
    <3>7. RequestOK(t)' /\ ReadOK(t)'
      BY <1>4, <3>1, <3>2, <3>3, <3>6 DEF RequestOK, ReadOK, Answered3
    <3> QED BY <3>2, <3>4, <3>5, <3>7 DEF TransferBusy
  <2> QED BY <2>1, <2>2
<1>12. TransferOK(t)'
  BY <1>2, <1>6, <1>10, <1>11 DEF TransferOK, CanTransfer, IsDir, Unique, Children, In
<1>13. By(t)
  BY <1>5, <1>6, <1>10, <1>11 DEF By, catVars, AheadT, PlanningT
<1>14. CatalogsSound'
  <2>1. t \in Confirms
    BY Different
  <2>2. cat' \in [Book -> [Node -> Entry \cup {NoEntry}]]
    BY <1>10 DEF CatOK, Shelf
  <2>3. late' \cup sent' \cup hit' \cup unanswered' \cup calm' \cup lost' \cup disturbed' \subseteq Confirms
    BY <1>3, <1>5, <1>6, <1>7, <1>10, <2>1 DEF CatalogsSound
  <2> QED BY <1>3, <1>6, <1>10, <1>11, <2>2, <2>3 DEF CatalogsSound, AheadT
<1>15. ChangeTyped' /\ TransferTyped'
  BY <1>3, <1>11 DEF ChangeTyped, catVars, TransferTyped, AheadT, PlanningT
<1> QED BY <1>7, <1>8, <1>10, <1>12, <1>13, <1>14, <1>15, TransferStep DEF TypeOK

LEMMA LandTransferKeeps ==
    ASSUME IInv, NEW t \in Transfer, LandTransfer(t), UNCHANGED catVars
    PROVE  IInv'
<1>1. /\ t \in late /\ late' = late \ {t} /\ calm' = {} /\ Transmitted(t, TransferApplies(t))
      /\ UNCHANGED <<transferVars, edits, holder, sent, unanswered, lost>>
  BY DEF LandTransfer
<1>2. CatalogsSound /\ CatOK /\ TransferTyped /\ late \subseteq unanswered /\ TransferOK(t)
  BY DEF IInv, TypeOK
<1>3. at[t] = "done" /\ t \notin hit /\ at[t] # "new" /\ TargetOK(t)
  BY <1>1, <1>2 DEF TransferOK, RequestOK
<1>4. Planned(t)
  <2>1. plan[t].parent \in Dir \cup {Root}
    BY <1>2 DEF TransferTyped, Plan
  <2> QED BY <1>2, <1>3, <2>1 DEF TransferOK, Planned, CanTransfer
<1>p. UNCHANGED <<plan, at>>
  BY <1>1 DEF transferVars
<1>5. /\ CatOK' /\ rows' \in [Table \cup Transfer -> Contents] /\ TargetOK(t)'
      /\ hit' \in {hit, hit \cup {t}}
      /\ \/ disturbed' = disturbed \cup (Confirms \ {t})
         \/ cat' = cat /\ disturbed' = disturbed
  <2>1. CASE TransferApplies(t)
    <3>1. /\ cat' = Transferred(t)
          /\ rows' = [rows EXCEPT ![Copied(t)] = rows[plan[t].table]]
          /\ hit' = hit \cup {t} /\ disturbed' = disturbed \cup (Confirms \ {t})
      BY <1>1, <2>1 DEF Transmitted
    <3>2. CatOK'
      BY <1>2, <1>4, <2>1, <3>1, TransferredOK DEF CatOK
    <3>3. rows' \in [Table \cup Transfer -> Contents]
      BY <1>2, <1>4, <3>1, RowsMoved
    <3>4. TargetOK(t)'
      BY <1>2, <1>3, <1>4, <1>p, <2>1, <3>1, ReachedTarget
    <3> QED BY <3>1, <3>2, <3>3, <3>4
  <2>2. CASE ~TransferApplies(t)
    <3>1. UNCHANGED <<cat, rows, hit, disturbed>>
      BY <1>1, <2>2 DEF Transmitted
    <3>2. CatOK' /\ TargetOK(t)'
      BY <1>2, <1>3, <1>p, <3>1 DEF CatOK, TargetOK, Copied
    <3> QED BY <1>2, <3>1, <3>2 DEF CatalogsSound
  <2> QED BY <2>1, <2>2
<1>6. CatalogsSound'
  <2>1. t \in Confirms
    BY Different
  <2>2. cat' \in [Book -> [Node -> Entry \cup {NoEntry}]]
    BY <1>5 DEF CatOK, Shelf
  <2> QED BY <1>1, <1>2, <1>5, <2>1, <2>2 DEF CatalogsSound
<1>7. ~Clean'
  BY <1>1, <1>2 DEF Clean
<1>8. \A y \in Confirms \ {t} : y \in disturbed' \/ (cat' = cat /\ y \notin disturbed)
  BY <1>5
<1>9. Outside(t)
  BY <1>1, <1>5, <1>7, <1>8 DEF Outside
<1> QED BY <1>1, <1>5, <1>6, <1>9, OutsideKeeps

\* A restart: whatever ran is over, and nothing is told of it.
LEMMA CrashKeeps ==
    ASSUME IInv, Crash
    PROVE  IInv'
<1> DEFINE writing == {c \in Change : pc[c] \in {"inserting", "writing"}}
                      \cup {t \in Transfer : at[t] = "sending"}
           runningC == {c \in Change : pc[c] \notin {"new", "previewed", "done"}}
           runningT == {t \in Transfer : at[t] \notin {"new", "previewed", "done"}}
<1>1. PICK gone \in SUBSET writing : late' = late \cup gone /\ sent' = sent \cup gone
                                     /\ unanswered' = unanswered \cup gone
  BY DEF Crash
<1>2. /\ holder' = [b \in Book |-> Nobody]
      /\ pc' = [c \in Change |-> IF c \in runningC THEN "done" ELSE pc[c]]
      /\ verdict' = [c \in Change |-> IF c \in runningC THEN "unknown" ELSE verdict[c]]
      /\ at' = [t \in Transfer |-> IF t \in runningT THEN "done" ELSE at[t]]
      /\ state' = [t \in Transfer |-> IF t \in runningT THEN "unknown" ELSE state[t]]
      /\ phase' = journal
      /\ UNCHANGED <<cat, rows, edits, hit, calm, lost, disturbed, space, op, base, inserted,
                     plan, journal, source, exact>>
  BY DEF Crash
<1>3. /\ CatalogsSound /\ CatOK /\ ChangeTyped /\ TransferTyped
      /\ late \subseteq unanswered \cap sent /\ lost = {} /\ TreesOK
  BY DEF IInv, TypeOK
<1>4. CatOK'
  BY <1>2, <1>3 DEF CatOK
<1>5. CatalogsSound'
  <2>1. gone \subseteq Confirms
    BY Different
  <2> QED BY <1>1, <1>2, <1>3, <2>1 DEF CatalogsSound
<1>6. ChangeTyped'
  BY <1>2, <1>3 DEF ChangeTyped, ChangeSteps, Verdicts
<1>7. TransferTyped'
  BY <1>2, <1>3 DEF TransferTyped, TransferSteps, Verdicts
<1>8. ASSUME NEW c \in Change PROVE ChangeOK(c)'
  <2>1. ChangeOK(c) /\ c \notin Transfer
    BY Different DEF IInv
  <2>2. CASE c \in runningC
    <3>1. pc'[c] = "done" /\ verdict'[c] = "unknown" /\ pc[c] # "new"
      BY <1>2, <2>2
    <3> QED BY <1>2, <2>1, <3>1 DEF ChangeOK, ChangeBusy, Requesting, Possible, CanCreate,
                                    CanRename, CanMove, CanDelete, NewParent, Ops
  <2>3. CASE c \notin runningC
    <3>1. pc'[c] = pc[c] /\ verdict'[c] = verdict[c] /\ pc[c] \in {"new", "previewed", "done"}
      BY <1>2, <2>3
    <3>2. c \notin gone
      BY <2>1, <2>3
    <3>3. (c \in sent' <=> c \in sent) /\ (c \in unanswered' <=> c \in unanswered)
      BY <1>1, <3>2
    <3> QED BY <1>2, <2>1, <3>1, <3>3 DEF ChangeOK, ChangeBusy, Requesting, Possible, CanCreate,
                                          CanRename, CanMove, CanDelete, NewParent, Ops
  <2> QED BY <2>2, <2>3
<1>9. ASSUME NEW t \in Transfer PROVE TransferOK(t)'
  <2>1. TransferOK(t) /\ PhaseOK(t) /\ RequestOK(t) /\ TargetOK(t) /\ t \notin Change
    BY Different DEF IInv, TransferOK
  <2>2. Copied(t)' = Copied(t)
    BY <1>2 DEF Copied
  <2>3. /\ at'[t] = "done" \/ (at'[t] = at[t] /\ at[t] \in {"new", "previewed"})
        /\ at[t] \in {"new", "previewed"} => at'[t] = at[t]
        /\ at'[t] \notin Answered3 /\ at'[t] # "sending" /\ at'[t] \notin TransferBusy
        /\ phase'[t] = journal[t] /\ journal'[t] = journal[t]
    BY <1>2 DEF Answered3, TransferBusy
  <2>4. PhaseOK(t)'
    BY <2>1, <2>2, <2>3 DEF PhaseOK
  <2>5. t \in gone => at[t] = "sending"
    BY <2>1
  <2>6. t \in gone => t \notin hit /\ journal[t].phase # "prepared"
    BY <2>1, <2>5 DEF PhaseOK, RequestOK, Answered3
  <2>7. state'[t] = state[t] \/ state'[t] = "unknown"
    BY <1>2
  <2>8. at'[t] = "done" /\ state'[t] # "unknown" => at[t] = "done" /\ state'[t] = state[t]
    BY <1>2
  <2>9. t \in gone => state'[t] = "unknown"
    BY <1>2, <2>5
  <2>10. /\ t \in late' => t \in late \/ t \in gone
         /\ t \in sent' <=> t \in sent \/ t \in gone
         /\ hit' = hit /\ exact' = exact
    BY <1>1, <1>2
  <2>11. t \in sent => at'[t] = "done"
    BY <2>1, <2>3 DEF RequestOK, Answered3
  <2>12. t \in gone => at'[t] = "done"
    BY <2>3, <2>5
  <2>13. RequestOK(t)'
    <3>1. (t \in hit' \cup late' => t \in sent') /\ (t \in late' => t \notin hit' /\ at'[t] = "done")
      BY <1>3, <2>1, <2>6, <2>10, <2>11, <2>12 DEF RequestOK
    <3>2. t \in sent' => at'[t] = "done" /\ journal'[t].phase # "prepared"
      BY <2>1, <2>3, <2>6, <2>10, <2>11, <2>12 DEF RequestOK
    <3>3. at'[t] = "done" /\ state'[t] = "conflict" => t \notin sent'
      BY <2>1, <2>8, <2>9, <2>10 DEF RequestOK
    <3>4. at'[t] = "done" /\ state'[t] = "succeeded" => t \in hit' /\ t \in exact'
      BY <2>1, <2>8, <2>10 DEF RequestOK
    <3> QED BY <2>3, <3>1, <3>2, <3>3, <3>4 DEF RequestOK
  <2>14. ReadOK(t)'
    BY <2>3 DEF ReadOK
  <2>15. at'[t] # "new" => at[t] # "new"
    BY <2>3
  <2>16. TargetOK(t)'
    BY <1>2, <2>1, <2>2, <2>15 DEF TargetOK
  <2> QED BY <1>2, <2>1, <2>3, <2>4, <2>13, <2>14, <2>15, <2>16
             DEF TransferOK, CanTransfer, IsDir, Unique, Children, In
<1>10. late' \subseteq unanswered' \cap sent' /\ lost' = {}
  BY <1>1, <1>2, <1>3
<1>11. TreesOK'
  BY <1>1, <1>2, <1>3 DEF TreesOK, Clean
<1> QED BY <1>4, <1>5, <1>6, <1>7, <1>8, <1>9, <1>10, <1>11 DEF IInv, TypeOK

-----------------------------------------------------------------------------
(* The invariant holds.                                                    *)

LEMMA StartShelf ==
    ASSUME NEW b \in Book
    PROVE  Start(b) \in Shelf /\ Kinds(Start(b)) /\ Tree(Start(b))
<1>1. \A n \in Node : n \in DOMAIN Home /\ Home[n] = b => n \in Dir \cup Table
  BY CatalogAssumption
<1>2. \A n \in Dir \cup Table : n \in Node /\ (n \in Dir <=> n \in Folder)
  BY NamesAssumption DEF Node, Folder
<1>3. \A n \in Node : Start(b)[n] \in Entry \cup {NoEntry}
  BY <1>1 DEF Start, Entry, Node, Folder
<1>4. Start(b) \in Shelf
  BY <1>3 DEF Start, Shelf
<1>5. Kinds(Start(b))
  BY <1>1, <1>2 DEF Kinds, In, Start, NoEntry
<1>6. Rooted(Start(b))
  BY StartAssumption
<1> QED BY <1>4, <1>5, <1>6, RootedTree

LEMMA EmptyShelf == [n \in Node |-> NoEntry] \in Shelf
BY DEF Shelf

LEMMA InitOK == Init => IInv
<1> SUFFICES ASSUME Init PROVE IInv
  OBVIOUS
<1>1. /\ cat = [b \in Book |-> Start(b)] /\ rows = [t \in Table \cup Transfer |-> "first"]
      /\ edits = 0 /\ holder = [b \in Book |-> Nobody]
      /\ late = {} /\ sent = {} /\ hit = {} /\ unanswered = {}
      /\ calm = {} /\ lost = {} /\ disturbed = {}
  BY DEF Init, CatalogsInit
<1>2. CatOK
  BY <1>1, StartShelf DEF CatOK
<1>3. CatalogsSound
  <2>1. 0 \in 0 .. MaxEdits
    BY CatalogAssumption
  <2>2. cat \in [Book -> [Node -> Entry \cup {NoEntry}]]
    BY <1>2 DEF CatOK, Shelf
  <2> QED BY <1>1, <2>1, <2>2 DEF CatalogsSound, Contents
<1>4. ChangeTyped
  <2>1. NoOp \in Op
    BY DEF NoOp, Op
  <2> QED BY <2>1, EmptyShelf DEF Init, ChangeInit, ChangeTyped, ChangeSteps, Verdicts
<1>5. TransferTyped
  <2>1. NoPlan \in Plan
    BY EmptyShelf DEF NoPlan, Plan, Contents, NoCatalog
  <2> QED BY <2>1, EmptyShelf DEF Init, TransferInit, TransferTyped, TransferSteps, Verdicts,
                                 Prepared, Phases, NoCatalog
<1>6. ASSUME NEW c \in Change PROVE ChangeOK(c)
  <2>1. pc[c] = "new"
    BY DEF Init, ChangeInit
  <2> QED BY <1>1, <2>1 DEF ChangeOK, ChangeBusy, Requesting
<1>7. ASSUME NEW t \in Transfer PROVE TransferOK(t)
  <2>1. at[t] = "new" /\ phase[t] = Prepared /\ journal[t] = Prepared
    BY DEF Init, TransferInit
  <2> QED BY <1>1, <2>1 DEF TransferOK, TransferBusy, PhaseOK, RequestOK, ReadOK, TargetOK,
                            Answered3, Prepared
<1>8. TreesOK
  <2>1. \A b \in Book : Tree(cat[b])
    BY <1>1, StartShelf
  <2>2. ASSUME NEW t \in Table PROVE \E b \in Book : In(cat[b], t)
    <3>1. t \in DOMAIN Home /\ Home[t] \in Book /\ t \in Node
      BY CatalogAssumption DEF Node
    <3>2. cat[Home[t]][t].type # "NONE"
      BY <1>1, <3>1 DEF Start
    <3> QED BY <3>1, <3>2 DEF In
  <2> QED BY <2>1, <2>2 DEF TreesOK
<1> QED BY <1>1, <1>2, <1>3, <1>4, <1>5, <1>6, <1>7, <1>8 DEF IInv, TypeOK

LEMMA StutterOK == IInv /\ UNCHANGED vars => IInv'
<1> SUFFICES ASSUME IInv, UNCHANGED vars PROVE IInv'
  OBVIOUS
<1>1. /\ UNCHANGED <<cat, rows, edits, holder, late, sent, hit, unanswered, calm, lost, disturbed>>
      /\ UNCHANGED <<space, op, base, pc, inserted, verdict>>
      /\ UNCHANGED <<plan, at, phase, journal, source, state, exact>>
  BY DEF vars, shared, catVars, transferVars
<1>2. TypeOK'
  BY <1>1 DEF IInv, TypeOK, CatalogsSound, CatOK, ChangeTyped, TransferTyped
<1>3. \A c \in Change : ChangeOK(c)'
  BY <1>1 DEF IInv, ChangeOK, Possible, CanCreate, CanRename, CanMove, CanDelete, NewParent, Ops, Clean
<1>4. \A t \in Transfer : TransferOK(t)'
  <2>1. ASSUME NEW t \in Transfer PROVE TransferOK(t)'
    <3>1. TransferOK(t)
      BY DEF IInv
    <3>2. PhaseOK(t)' /\ RequestOK(t)' /\ TargetOK(t)'
      BY <1>1, <3>1 DEF TransferOK, PhaseOK, RequestOK, TargetOK, Copied
    <3>3. ReadOK(t)'
      BY <1>1, <3>1 DEF TransferOK, ReadOK, SamePlan, Content, Clean, Apart, Copied
    <3> QED BY <1>1, <3>1, <3>2, <3>3 DEF TransferOK, CanTransfer, IsDir, Unique, Children, In
  <2> QED BY <2>1
<1>5. late' \subseteq unanswered' \cap sent' /\ lost' = {} /\ TreesOK'
  BY <1>1 DEF IInv, TreesOK, Clean
<1> QED BY <1>2, <1>3, <1>4, <1>5 DEF IInv

LEMMA NextOK == IInv /\ Next => IInv'
<1> SUFFICES ASSUME IInv, Next PROVE IInv'
  OBVIOUS
<1>1. ASSUME NEW c \in Change, ChangeNext(c), UNCHANGED <<transferVars, crashed>>
      PROVE  IInv'
  <2>1. UNCHANGED transferVars
    BY <1>1
  <2> QED BY <1>1, <2>1, PreviewCatalogKeeps, ConfirmCatalogKeeps, RecheckCatalogKeeps,
             PrepareCatalogKeeps, InsertGroupKeeps, FindInsertedKeeps, RenameInsertedKeeps,
             CheckRenamedKeeps, WriteNodeKeeps, VerifyNodeKeeps, LandChangeKeeps DEF ChangeNext
<1>2. ASSUME NEW t \in Transfer, TransferNext(t), UNCHANGED <<catVars, crashed>>
      PROVE  IInv'
  <2>1. UNCHANGED catVars
    BY <1>2
  <2> QED BY <1>2, <2>1, PreviewTransferKeeps, ConfirmTransferKeeps, PrepareTransferKeeps,
             SendTransferKeeps, LandTransferKeeps, LocateSourceKeeps, LocateTargetKeeps,
             CompareContentsKeeps DEF TransferNext
<1>3. ASSUME ColleagueStep, UNCHANGED <<catVars, transferVars, crashed>>
      PROVE  IInv'
  BY <1>3, ColleagueStepKeeps
<1> QED BY <1>1, <1>2, <1>3, CrashKeeps DEF Next

LEMMA Invariance == Spec => []IInv
<1>1. Init => IInv
  BY InitOK
<1>2. IInv /\ [Next]_vars => IInv'
  BY NextOK, StutterOK
<1> QED BY <1>1, <1>2, PTL DEF Spec

-----------------------------------------------------------------------------
(* The properties.                                                         *)

\* Every request that was applied met the catalogs its preview showed, unless a
\* colleague or a late request wrote after the last read; and without those the
\* catalogs stay trees in which every Table is found.
THEOREM CatalogsKeptHolds == Spec => []CatalogsKept
<1>1. IInv => CatalogsKept
  <2> SUFFICES ASSUME IInv PROVE CatalogsKept
    OBVIOUS
  <2>1. CatalogsSound /\ CatOK /\ lost = {} /\ TreesOK
    BY DEF IInv, TypeOK
  <2>2. ASSUME edits = 0, unanswered = {} PROVE \A b \in Book : Rooted(cat[b])
    BY <2>1, <2>2, TreeRooted DEF TreesOK, Clean, CatOK
  <2>3. TreeKept
    BY <2>1, <2>2 DEF TreeKept, TreesOK, Clean
  <2> QED BY <2>1, <2>3 DEF CatalogsKept
<1> QED BY <1>1, Invariance, PTL

\* A conflict sent nothing; a success was applied, but for a creation without an
\* answer; and a transfer told as success is all that happened between its preview
\* and its reads, unless somebody else wrote while it read.
THEOREM OutcomeIsTrueHolds == Spec => []OutcomeIsTrue
<1>1. IInv => OutcomeIsTrue
  <2> SUFFICES ASSUME IInv PROVE OutcomeIsTrue
    OBVIOUS
  <2>1. /\ \A c \in Change : ChangeOK(c)
        /\ \A t \in Transfer : RequestOK(t) /\ t \notin Change
    BY Different DEF IInv, TransferOK
  <2>2. ConflictSentNothing
    BY <2>1, Different DEF ConflictSentNothing, Ended, ChangeOK, RequestOK
  <2>3. SuccessIsReal
    BY <2>1, Different DEF SuccessIsReal, Ended, ChangeOK, RequestOK
  <2>4. SuccessIsExact
    BY <2>1 DEF SuccessIsExact, Ended, RequestOK
  <2> QED BY <2>2, <2>3, <2>4 DEF OutcomeIsTrue
<1> QED BY <1>1, Invariance, PTL

\* The row tells that a request may have been sent before it is, and suffices to
\* find the document of every transfer that was applied and is not disturbed.
THEOREM TransferReconcilableHolds == Spec => []TransferReconcilable
<1>1. IInv => TransferReconcilable
  <2> SUFFICES ASSUME IInv PROVE TransferReconcilable
    OBVIOUS
  <2>1. JournalAhead
    BY DEF IInv, TransferOK, RequestOK, JournalAhead
  <2>2. ASSUME NEW t \in Transfer \cap hit, at[t] = "done", t \notin disturbed
        PROVE  TargetPresent(t) \/ NewDocuments(t) # {}
    <3>1. TransferOK(t) /\ PhaseOK(t) /\ TargetOK(t) /\ plan[t].action \in {"copy", "move"}
      BY <2>2 DEF IInv, TransferOK
    <3>2. /\ cat[plan[t].to][Copied(t)].type = "DOC"
          /\ plan[t].action = "copy" => plan[t].targetCatalog[t].type # "DOC"
      BY <2>2, <3>1 DEF TargetOK
    <3>3. Copied(t) \in Node /\ Nobody \notin Node /\ t \in Node
      BY <2>2, <3>1, NamesAssumption DEF Copied, Node, TransferOK
    <3>4. CASE journal[t].doc = Copied(t)
      BY <3>2, <3>3, <3>4 DEF TargetPresent, Known, In
    <3>5. CASE journal[t].doc = Nobody /\ plan[t].action = "move"
      BY <3>2, <3>5 DEF TargetPresent, Known, In, Copied
    <3>6. CASE plan[t].action = "copy"
      <4>1. t \in NewDocuments(t)
        BY <3>2, <3>3, <3>6 DEF NewDocuments, Copied
      <4> QED BY <4>1
    <3> QED BY <3>1, <3>4, <3>5, <3>6 DEF PhaseOK
  <2>3. Reconcilable
    BY <2>2 DEF Reconcilable
  <2> QED BY <2>1, <2>3 DEF TransferReconcilable
<1> QED BY <1>1, Invariance, PTL
=============================================================================
