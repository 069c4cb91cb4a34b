----------------------------- MODULE WalkProofs -----------------------------
(***************************************************************************)
(* What is proved of a storage's tree and of the walks over it, for every  *)
(* number of envelopes: what Get finds in a tree of any shape, that the    *)
(* tree is the bounded cache that Store takes it for, and that client.Walk *)
(* shows each envelope once and passes over none.                          *)
(***************************************************************************)
EXTENDS Walk, FiniteSetTheorems, SequenceTheorems, TLAPS

\* A set of numbers has a least one: the tree, and what is proved of it, is
\* taken apart by the number of its nodes.
LEMMA LeastNumber == 
  ASSUME NEW T \in SUBSET Nat, T # {}
  PROVE  \E m \in T : \A k \in T : m <= k
<1> DEFINE F == {0 .. m : m \in T}
<1>1. F \subseteq FiniteSubsetsOf(Nat)
  <2>1. \A m \in T : 0 .. m \in SUBSET Nat /\ IsFiniteSet(0 .. m)
    BY FS_Interval
  <2> QED BY <2>1 DEF FiniteSubsetsOf
<1>2. F # {}
  OBVIOUS
<1> HIDE DEF F
<1>3. PICK A \in F : \A B \in F : ~ (<<B, A>> \in StrictSubsetOrdering(Nat))
  BY <1>1, <1>2, WFMin, FS_StrictSubsetOrderingWellFounded
<1>4. PICK m \in T : A = 0 .. m
  BY DEF F
<1>5. ASSUME NEW k \in T, k < m
      PROVE  FALSE
  <2>1. 0 .. k \in F
    BY DEF F
  <2>2. 0 .. k \subseteq 0 .. m /\ m \in 0 .. m /\ m \notin 0 .. k
    BY <1>5
  <2>3. <<0 .. k, A>> \in StrictSubsetOrdering(Nat)
    BY <1>4, <2>2 DEF StrictSubsetOrdering
  <2> QED BY <1>3, <2>1, <2>3
<1> QED BY <1>5

\* Induction over numbers, stated of a set.
LEMMA SetInduction ==
  ASSUME NEW D \in SUBSET Nat, 0 \in D, \A n \in D : n + 1 \in D
  PROVE  D = Nat
<1> SUFFICES ASSUME Nat \ D # {}
             PROVE  FALSE
  OBVIOUS
<1>1. PICK m \in Nat \ D : \A k \in Nat \ D : m <= k
  BY LeastNumber
<1>2. m # 0 /\ m - 1 \in Nat /\ m - 1 \in D
  BY <1>1
<1> QED BY <1>2

-----------------------------------------------------------------------------
(* Trees *)

\* A tree is finite: one of its nodes is the highest, which is on top.
LEMMA TopIsHighest ==
  ASSUME NEW t \in Trees, t # {}
  PROVE  Top(t) \in t /\ \A m \in t : m.height <= Top(t).height
<1> DEFINE Highest(s) == \E n \in s : \A m \in s : m.height <= n.height
           P(k) == \A s \in SUBSET t : s # {} /\ Cardinality(s) = k => Highest(s)
           D == {k \in Nat : P(k)}
<1>1. P(0)
  BY FS_EmptySet, FS_Subset DEF Trees
<1>2. ASSUME NEW k \in Nat, P(k) PROVE P(k + 1)
  <2> SUFFICES ASSUME NEW s \in SUBSET t, s # {}, Cardinality(s) = k + 1
               PROVE  Highest(s)
    OBVIOUS
  <2>1. PICK x \in s : TRUE
    OBVIOUS
  <2>f. IsFiniteSet(t)
    BY DEF Trees
  <2>g. IsFiniteSet(s)
    BY <2>f, FS_Subset
  <2>2. IsFiniteSet(s) /\ Cardinality(s) \in Nat
    BY <2>g, FS_CardinalityType
  <2>r. Cardinality(s \ {x}) = Cardinality(s) - 1
    BY <2>2, FS_RemoveElement
  <2>3. Cardinality(s \ {x}) = k
    BY <2>r
  <2>h. \A n \in s : n.height \in Nat
    BY DEF Trees, Nodes
  <2>4. CASE s \ {x} = {}
    <3>1. \A m \in s : m = x
      BY <2>4
    <3> QED BY <3>1, <2>h
  <2>5. CASE s \ {x} # {}
    <3>1. Highest(s \ {x})
      BY <1>2, <2>3, <2>5
    <3>2. PICK n \in s \ {x} : \A m \in s \ {x} : m.height <= n.height
      BY <3>1
    <3>3. CASE x.height <= n.height
      BY <3>2, <3>3
    <3>4. CASE ~ (x.height <= n.height)
      <4>1. \A m \in s : m.height <= x.height
        BY <3>2, <3>4, <2>h
      <4> QED BY <4>1
    <3> QED BY <3>3, <3>4
  <2> QED BY <2>4, <2>5
<1>3. D = Nat
  <2>1. D \in SUBSET Nat /\ 0 \in D /\ \A k \in D : k + 1 \in D
    BY <1>1, <1>2
  <2> HIDE DEF D
  <2> QED BY <2>1, SetInduction
<1>4. Cardinality(t) \in Nat
  BY FS_CardinalityType DEF Trees
<1>5. Highest(t)
  BY <1>3, <1>4
<1> QED BY <1>5 DEF Top

\* The subtrees of a tree are trees, and lack its top.
LEMMA SubtreesSmaller ==
  ASSUME NEW t \in Trees, t # {}
  PROVE  /\ Left(t) \in Trees /\ Left(t) \subseteq t
         /\ Right(t) \in Trees /\ Right(t) \subseteq t
         /\ Cardinality(t) \in Nat \ {0}
         /\ Cardinality(Left(t)) \in 0 .. Cardinality(t) - 1
         /\ Cardinality(Right(t)) \in 0 .. Cardinality(t) - 1
<1>1. Top(t) \in t
  BY TopIsHighest
<1>2. IsFiniteSet(t) /\ t \subseteq Nodes
  BY DEF Trees
<1>3. \A n \in t : n.entry.key \in Int
  BY <1>2 DEF Nodes, Entries
<1>4. Top(t).entry.key \in Int
  BY <1>1, <1>3
<1>5. Left(t) \subseteq t /\ Top(t) \notin Left(t)
  BY <1>4 DEF Left
<1>6. Right(t) \subseteq t /\ Top(t) \notin Right(t)
  BY <1>4 DEF Right
<1>7. Cardinality(t) \in Nat /\ Cardinality(t) # 0
  BY <1>2, FS_CardinalityType, FS_EmptySet
<1>8. ASSUME NEW s \in SUBSET t, Top(t) \notin s
      PROVE  s \in Trees /\ Cardinality(s) \in 0 .. Cardinality(t) - 1
  <2>1. IsFiniteSet(s) /\ Cardinality(s) <= Cardinality(t) /\ Cardinality(s) # Cardinality(t)
    BY <1>1, <1>2, <1>8, FS_Subset
  <2>2. Cardinality(s) \in Nat
    BY <2>1, FS_CardinalityType
  <2> QED BY <2>1, <2>2, <1>2, <1>7 DEF Trees
<1> QED BY <1>5, <1>6, <1>7, <1>8

\* What holds of the empty tree, and of a tree when it holds of its subtrees,
\* holds of every tree: the walks go down one subtree after the other.
LEMMA TreeInduction ==
  ASSUME NEW D, {} \in D,
         \A t \in Trees : t # {} /\ Left(t) \in D /\ Right(t) \in D => t \in D
  PROVE  Trees \subseteq D
<1> DEFINE P(k) == \A t \in Trees : Cardinality(t) <= k => t \in D
           K == {k \in Nat : P(k)}
<1>f. \A t \in Trees : IsFiniteSet(t) /\ Cardinality(t) \in Nat
  BY FS_CardinalityType DEF Trees
<1>1. P(0)
  <2> SUFFICES ASSUME NEW t \in Trees, Cardinality(t) <= 0
               PROVE  t \in D
    OBVIOUS
  <2>1. t = {}
    BY <1>f, FS_EmptySet
  <2> QED BY <2>1
<1>2. ASSUME NEW k \in Nat, P(k) PROVE P(k + 1)
  <2> SUFFICES ASSUME NEW t \in Trees, Cardinality(t) <= k + 1, t # {}
               PROVE  t \in D
    OBVIOUS
  <2>1. /\ Left(t) \in Trees /\ Right(t) \in Trees /\ Cardinality(t) \in Nat
        /\ Cardinality(Left(t)) \in 0 .. Cardinality(t) - 1
        /\ Cardinality(Right(t)) \in 0 .. Cardinality(t) - 1
    BY SubtreesSmaller
  <2>2. Cardinality(Left(t)) <= k /\ Cardinality(Right(t)) <= k
    BY <2>1
  <2>3. Left(t) \in D /\ Right(t) \in D
    BY <1>2, <2>1, <2>2
  <2> QED BY <2>3
<1>3. K = Nat
  <2>1. K \in SUBSET Nat /\ 0 \in K /\ \A k \in K : k + 1 \in K
    BY <1>1, <1>2
  <2> HIDE DEF K
  <2> QED BY <2>1, SetInduction
<1>4. \A k \in Nat : P(k)
  BY <1>3
<1> HIDE DEF P, K
<1> SUFFICES ASSUME NEW t \in Trees PROVE t \in D
  OBVIOUS
<1>5. P(Cardinality(t)) /\ Cardinality(t) <= Cardinality(t)
  BY <1>f, <1>4
<1> QED BY <1>5 DEF P

\* g is defined by recursion over the trees: b of the empty tree, and G of
\* another and of what g is of its subtrees.
Recursive(g, b, G, T) ==
  g = [t \in T |-> IF t = {} THEN b ELSE G[t][g[Left(t)]][g[Right(t)]]]

SmallTrees(k) == {t \in Trees : Cardinality(t) <= k}

\* Two such functions, however far they are defined, agree.
LEMMA RecursionAgrees ==
  ASSUME NEW b, NEW G, NEW k \in Nat, NEW j \in Nat, NEW g, NEW h,
         Recursive(g, b, G, SmallTrees(k)), Recursive(h, b, G, SmallTrees(j))
  PROVE  \A t \in SmallTrees(k) \cap SmallTrees(j) : g[t] = h[t]
<1> DEFINE D == {t \in Trees : t \in SmallTrees(k) /\ t \in SmallTrees(j) => g[t] = h[t]}
<1>1. {} \in D
  <2>1. {} \in Trees
    BY FS_EmptySet DEF Trees
  <2>2. {} \in SmallTrees(k) => g[{}] = b
    BY DEF Recursive
  <2>3. {} \in SmallTrees(j) => h[{}] = b
    BY DEF Recursive
  <2> QED BY <2>1, <2>2, <2>3
<1>2. ASSUME NEW t \in Trees, t # {}, Left(t) \in D, Right(t) \in D
      PROVE  t \in D
  <2> SUFFICES ASSUME t \in SmallTrees(k), t \in SmallTrees(j)
               PROVE  g[t] = h[t]
    OBVIOUS
  <2>1. /\ Left(t) \in SmallTrees(k) /\ Left(t) \in SmallTrees(j)
        /\ Right(t) \in SmallTrees(k) /\ Right(t) \in SmallTrees(j)
    BY <1>2, SubtreesSmaller DEF SmallTrees
  <2>2. g[Left(t)] = h[Left(t)] /\ g[Right(t)] = h[Right(t)]
    BY <1>2, <2>1
  <2>3. g[t] = G[t][g[Left(t)]][g[Right(t)]]
    BY <1>2 DEF Recursive
  <2>4. h[t] = G[t][h[Left(t)]][h[Right(t)]]
    BY <1>2 DEF Recursive
  <2> QED BY <2>2, <2>3, <2>4
<1> HIDE DEF D
<1>3. Trees \subseteq D
  BY <1>1, <1>2, TreeInduction
<1> QED BY <1>3 DEF D, SmallTrees

\* Recursion over the trees defines a function: Put, RemoveLeft, Asc and Desc
\* are defined so.
LEMMA TreeRecursion ==
  ASSUME NEW b, NEW G
  PROVE  \E g : Recursive(g, b, G, Trees)
<1> DEFINE Exists(k) == \E g : Recursive(g, b, G, SmallTrees(k))
           K == {k \in Nat : Exists(k)}
<1>c. \A t \in Trees : Cardinality(t) \in Nat
  BY FS_CardinalityType DEF Trees
<1>1. Exists(0)
  <2> DEFINE g == [t \in SmallTrees(0) |-> b]
  <2>1. \A t \in SmallTrees(0) : t = {}
    BY <1>c, FS_EmptySet DEF SmallTrees, Trees
  <2>2. Recursive(g, b, G, SmallTrees(0))
    BY <2>1 DEF Recursive
  <2> QED BY <2>2
<1>2. ASSUME NEW k \in Nat, Exists(k) PROVE Exists(k + 1)
  <2>1. PICK g : Recursive(g, b, G, SmallTrees(k))
    BY <1>2
  <2> DEFINE h == [t \in SmallTrees(k + 1) |->
                     IF t = {} THEN b ELSE G[t][g[Left(t)]][g[Right(t)]]]
  <2>2. ASSUME NEW t \in SmallTrees(k) PROVE g[t] = h[t]
    <3>1. t \in SmallTrees(k + 1)
      BY <1>c DEF SmallTrees
    <3>2. g[t] = IF t = {} THEN b ELSE G[t][g[Left(t)]][g[Right(t)]]
      BY <2>1 DEF Recursive
    <3> QED BY <3>1, <3>2
  <2>3. ASSUME NEW t \in SmallTrees(k + 1), t # {}
        PROVE  G[t][g[Left(t)]][g[Right(t)]] = G[t][h[Left(t)]][h[Right(t)]]
    <3>1. t \in Trees /\ Cardinality(t) <= k + 1
      BY DEF SmallTrees
    <3>2. Left(t) \in SmallTrees(k) /\ Right(t) \in SmallTrees(k)
      BY <2>3, <3>1, SubtreesSmaller DEF SmallTrees
    <3>3. g[Left(t)] = h[Left(t)] /\ g[Right(t)] = h[Right(t)]
      BY <2>2, <3>2
    <3> HIDE DEF h
    <3> QED BY <3>3
  <2>4. h = [t \in SmallTrees(k + 1) |->
               IF t = {} THEN b ELSE G[t][h[Left(t)]][h[Right(t)]]]
    <3> DEFINE e == [t \in SmallTrees(k + 1) |->
                       IF t = {} THEN b ELSE G[t][h[Left(t)]][h[Right(t)]]]
    <3>1. \A t \in SmallTrees(k + 1) : h[t] = e[t]
      <4> TAKE t \in SmallTrees(k + 1)
      <4>1. h[t] = IF t = {} THEN b ELSE G[t][g[Left(t)]][g[Right(t)]]
        OBVIOUS
      <4>2. e[t] = IF t = {} THEN b ELSE G[t][h[Left(t)]][h[Right(t)]]
        OBVIOUS
      <4> HIDE DEF e, h
      <4> QED BY <2>3, <4>1, <4>2
    <3>2. h = [t \in SmallTrees(k + 1) |-> h[t]]
      OBVIOUS
    <3>3. h = e
      <4> HIDE DEF h
      <4>1. e = [t \in SmallTrees(k + 1) |-> e[t]]
        OBVIOUS
      <4> HIDE DEF e
      <4> QED BY <3>1, <3>2, <4>1
    <3> QED BY <3>3
  <2> HIDE DEF h
  <2> QED BY <2>4 DEF Recursive
<1>3. \A k \in Nat : Exists(k)
  <2>1. K \in SUBSET Nat /\ 0 \in K /\ \A k \in K : k + 1 \in K
    BY <1>1, <1>2
  <2>2. K = Nat
    <3> HIDE DEF K
    <3> QED BY <2>1, SetInduction
  <2> QED BY <2>2
<1> DEFINE F(k) == CHOOSE g : Recursive(g, b, G, SmallTrees(k))
           f == [t \in Trees |-> F(Cardinality(t))[t]]
<1>4. \A k \in Nat : Recursive(F(k), b, G, SmallTrees(k))
  BY <1>3
<1>5. ASSUME NEW t \in Trees, NEW k \in Nat, Cardinality(t) <= k
      PROVE  f[t] = F(k)[t]
  <2>1. t \in SmallTrees(k) \cap SmallTrees(Cardinality(t))
    BY <1>5, <1>c DEF SmallTrees
  <2>2. F(k)[t] = F(Cardinality(t))[t]
    <3> HIDE DEF F
    <3> QED BY <1>4, <1>c, <2>1, RecursionAgrees
  <2> HIDE DEF F
  <2> QED BY <2>2
<1>6. ASSUME NEW t \in Trees
      PROVE  f[t] = IF t = {} THEN b ELSE G[t][f[Left(t)]][f[Right(t)]]
  <2> DEFINE k == Cardinality(t)
             g == F(k)
  <2>1. k \in Nat /\ t \in SmallTrees(k)
    BY <1>c DEF SmallTrees
  <2>2. Recursive(g, b, G, SmallTrees(k)) /\ f[t] = g[t]
    BY <1>4, <1>5, <2>1
  <2>3. g[t] = IF t = {} THEN b ELSE G[t][g[Left(t)]][g[Right(t)]]
    <3> HIDE DEF g, k
    <3> QED BY <2>1, <2>2 DEF Recursive
  <2>4. CASE t = {}
    <3> HIDE DEF f, g
    <3> QED BY <2>2, <2>3, <2>4
  <2>5. CASE t # {}
    <3>1. /\ Left(t) \in Trees /\ Cardinality(Left(t)) <= k
          /\ Right(t) \in Trees /\ Cardinality(Right(t)) <= k
      BY <2>5, <2>1, <1>c, SubtreesSmaller
    <3>2. f[Left(t)] = g[Left(t)] /\ f[Right(t)] = g[Right(t)]
      <4> HIDE DEF f, F, k
      <4> QED BY <1>5, <2>1, <3>1
    <3> HIDE DEF f, g
    <3> QED BY <2>2, <2>3, <2>5, <3>2
  <2> QED BY <2>4, <2>5
<1>7. f = [t \in Trees |-> IF t = {} THEN b ELSE G[t][f[Left(t)]][f[Right(t)]]]
  <2>1. f = [t \in Trees |-> f[t]]
    OBVIOUS
  <2> HIDE DEF f
  <2> QED BY <1>6, <2>1
<1> HIDE DEF f
<1> QED BY <1>7 DEF Recursive
-----------------------------------------------------------------------------
(* Nodes and rotations *)

\* What a node is made of.
LEMMA NodeParts ==
  ASSUME NEW t \in Trees
  PROVE  /\ Height(t) \in Nat /\ (t # {} => Height(t) # 0)
         /\ t # {} => Top(t) \in Nodes /\ Top(t).entry \in Entries
         /\ \A n \in t : /\ n \in Nodes /\ n.entry \in Entries /\ n.entry.key \in Int
                         /\ n.height \in Nat \ {0} /\ n.height <= Height(t)
<1>1. \A n \in t : n \in Nodes /\ n.entry \in Entries /\ n.height \in Nat \ {0}
  BY DEF Trees, Nodes
<1>2. \A n \in t : n.entry.key \in Int
  BY <1>1 DEF Entries
<1>3. CASE t = {}
  BY <1>3 DEF Height, IsEmpty, Empty
<1>4. CASE t # {}
  <2>1. Top(t) \in t /\ \A m \in t : m.height <= Top(t).height
    BY <1>4, TopIsHighest
  <2>2. Height(t) = Top(t).height
    BY <1>4 DEF Height, IsEmpty, Empty
  <2> QED BY <1>1, <1>2, <1>4, <2>1, <2>2
<1> QED BY <1>3, <1>4

Highest(i, j) == IF i > j THEN i ELSE j

\* The trees l and r go to the left and to the right of e.
Fits(l, e, r) ==
  /\ \A x \in EntriesOf(l) : x.key < e.key
  /\ \A x \in EntriesOf(r) : x.key > e.key

\* What Node is, and what it is made of.
LEMMA NodeIs ==
  ASSUME NEW l \in Trees, NEW r \in Trees, NEW e \in Entries
  PROVE  /\ Node(l, e, r) \in Trees
         /\ EntriesOf(Node(l, e, r)) = EntriesOf(l) \cup {e} \cup EntriesOf(r)
         /\ Fits(l, e, r) =>
              /\ Node(l, e, r) # {}
              /\ Top(Node(l, e, r)).entry = e
              /\ Left(Node(l, e, r)) = l /\ Right(Node(l, e, r)) = r
              /\ Height(Node(l, e, r)) = 1 + Highest(Height(l), Height(r))
<1> DEFINE h == 1 + Highest(Height(l), Height(r))
           n == [entry |-> e, height |-> h]
           t == Node(l, e, r)
<1>1. /\ Height(l) \in Nat /\ Height(r) \in Nat
      /\ \A m \in l : /\ m.entry \in Entries /\ m.entry.key \in Int /\ m \in Nodes
                      /\ m.height \in Nat /\ m.height <= Height(l)
      /\ \A m \in r : /\ m.entry \in Entries /\ m.entry.key \in Int /\ m \in Nodes
                      /\ m.height \in Nat /\ m.height <= Height(r)
  BY NodeParts
<1>2. h \in Nat \ {0} /\ Height(l) < h /\ Height(r) < h
  BY <1>1 DEF Highest
<1> HIDE DEF h
<1>3. t = l \cup r \cup {n}
  BY DEF Node, Highest, h
<1>4. n \in Nodes /\ n.entry = e /\ n.height = h
  BY <1>2 DEF Nodes
<1>5. t \in Trees
  <2>1. IsFiniteSet(l \cup r)
    BY FS_Union DEF Trees
  <2>2. IsFiniteSet((l \cup r) \cup {n})
    BY <2>1, FS_AddElement
  <2>3. t \subseteq Nodes
    BY <1>1, <1>3, <1>4
  <2> HIDE DEF n, t
  <2> QED BY <1>3, <2>2, <2>3 DEF Trees
<1>6. EntriesOf(t) = EntriesOf(l) \cup {e} \cup EntriesOf(r)
  <2> HIDE DEF n, t
  <2> QED BY <1>3, <1>4 DEF EntriesOf
<1>7. ASSUME Fits(l, e, r)
      PROVE  /\ t # {} /\ Top(t).entry = e /\ Left(t) = l /\ Right(t) = r
             /\ Height(t) = h
  <2> HIDE DEF n, t
  <2>1. t # {} /\ n \in t
    BY <1>3
  <2>2. Top(t) \in t /\ \A m \in t : m.height <= Top(t).height
    BY <1>5, <2>1, TopIsHighest
  <2>3. Top(t) = n
    <3>1. h <= Top(t).height
      BY <1>4, <2>1, <2>2
    <3>2. \A m \in l \cup r : m.height < h
      BY <1>1, <1>2
    <3>3. Top(t) \notin l \cup r
      <4>1. SUFFICES ASSUME Top(t) \in l \cup r PROVE FALSE
        OBVIOUS
      <4>2. Top(t).height < h /\ Top(t).height \in Nat
        BY <1>1, <3>2, <4>1
      <4> QED BY <3>1, <4>2, <1>2
    <3> QED BY <1>3, <2>2, <3>3
  <2>4. Top(t).entry = e /\ e.key \in Int
    BY <1>4, <2>3 DEF Entries
  <2>5. Left(t) = {m \in t : m.entry.key < e.key}
    BY <2>4 DEF Left
  <2>6. Right(t) = {m \in t : m.entry.key > e.key}
    BY <2>4 DEF Right
  <2>7. /\ \A m \in l : m.entry.key < e.key /\ ~ (m.entry.key > e.key)
        /\ \A m \in r : m.entry.key > e.key /\ ~ (m.entry.key < e.key)
        /\ ~ (n.entry.key > e.key) /\ ~ (n.entry.key < e.key)
    BY <1>1, <1>4, <1>7, <2>4 DEF Fits, EntriesOf
  <2>8. Left(t) = l
    BY <1>3, <2>5, <2>7
  <2>9. Right(t) = r
    BY <1>3, <2>6, <2>7
  <2> QED BY <1>4, <2>1, <2>3, <2>4, <2>8, <2>9 DEF Height, IsEmpty, Empty
<1> QED BY <1>5, <1>6, <1>7 DEF h
\* A tree is well-formed when its top node is, and its subtrees are.
LEMMA WellFormedDef ==
  ASSUME NEW t \in Trees
  PROVE  WellFormed(t) <=>
           \/ t = {}
           \/ /\ t = Node(Left(t), Top(t).entry, Right(t))
              /\ Height(Left(t)) - Height(Right(t)) \in -1 .. 1
              /\ WellFormed(Left(t)) /\ WellFormed(Right(t))
<1> DEFINE Shape(n) == /\ n = Node(Left(n), Top(n).entry, Right(n))
                       /\ Height(Left(n)) - Height(Right(n)) \in -1 .. 1
           G == [n \in Trees |-> [x \in BOOLEAN |-> [y \in BOOLEAN |-> Shape(n) /\ x /\ y]]]
           Defines(f) ==
             f = [n \in Trees |->
                    IsEmpty(n) \/
                      /\ n = Node(Left(n), Top(n).entry, Right(n))
                      /\ Height(Left(n)) - Height(Right(n)) \in -1 .. 1
                      /\ f[Left(n)] /\ f[Right(n)]]
<1>1. PICK g : Recursive(g, TRUE, G, Trees)
  BY TreeRecursion
<1> HIDE DEF Shape
<1>2. ASSUME NEW n \in Trees
      PROVE  g[n] = IF n = {} THEN TRUE ELSE G[n][g[Left(n)]][g[Right(n)]]
  <2> HIDE DEF G
  <2> QED BY <1>1 DEF Recursive
<1>3. \A n \in Trees, x, y \in BOOLEAN : G[n][x][y] = (Shape(n) /\ x /\ y)
  BY Zenon
<1> HIDE DEF G
<1>4. \A n \in Trees : g[n] \in BOOLEAN
  <2> DEFINE D == {n \in Trees : g[n] \in BOOLEAN}
  <2>1. {} \in D
    BY <1>2, FS_EmptySet DEF Trees
  <2>2. ASSUME NEW n \in Trees, n # {}, Left(n) \in D, Right(n) \in D
        PROVE  n \in D
    <3>1. g[n] = G[n][g[Left(n)]][g[Right(n)]]
      BY <1>2, <2>2
    <3>2. G[n][g[Left(n)]][g[Right(n)]] \in BOOLEAN
      BY <1>3, <2>2
    <3> QED BY <3>1, <3>2
  <2>3. Trees \subseteq D
    <3> HIDE DEF D
    <3> QED BY <2>1, <2>2, TreeInduction
  <2> QED BY <2>3
<1>5. ASSUME NEW n \in Trees
      PROVE  g[n] = (IsEmpty(n) \/ (Shape(n) /\ g[Left(n)] /\ g[Right(n)]))
  <2>1. CASE n = {}
    BY <1>2, <2>1 DEF IsEmpty, Empty
  <2>2. CASE n # {}
    <3>1. Left(n) \in Trees /\ Right(n) \in Trees
      BY <2>2, SubtreesSmaller
    <3>2. g[Left(n)] \in BOOLEAN /\ g[Right(n)] \in BOOLEAN
      BY <3>1, <1>4
    <3>3. g[n] = (Shape(n) /\ g[Left(n)] /\ g[Right(n)])
      BY <1>2, <1>3, <2>2, <3>2
    <3> QED BY <2>2, <3>3 DEF IsEmpty, Empty
  <2> QED BY <2>1, <2>2
<1>6. Defines(g)
  <2>1. g = [n \in Trees |-> g[n]]
    BY <1>1 DEF Recursive
  <2>2. g = [n \in Trees |-> IsEmpty(n) \/ (Shape(n) /\ g[Left(n)] /\ g[Right(n)])]
    BY <1>5, <2>1
  <2> QED BY <2>2 DEF Shape
<1> DEFINE formed == CHOOSE f : Defines(f)
<1>7. Defines(formed)
  BY <1>6
<1>8. \A n : WellFormed(n) = formed[n]
  BY DEF WellFormed
<1> HIDE DEF formed
<1>9. formed[t] = (IsEmpty(t) \/ (Shape(t) /\ formed[Left(t)] /\ formed[Right(t)]))
  BY <1>7 DEF Shape
<1> QED BY <1>8, <1>9 DEF Shape, IsEmpty, Empty
\* A tree that is well-formed, taken apart.
LEMMA Opened ==
  ASSUME NEW t \in Trees, t # {}, WellFormed(t)
  PROVE  /\ Left(t) \in Trees /\ Right(t) \in Trees /\ Top(t).entry \in Entries
         /\ WellFormed(Left(t)) /\ WellFormed(Right(t))
         /\ Fits(Left(t), Top(t).entry, Right(t))
         /\ EntriesOf(t) = EntriesOf(Left(t)) \cup {Top(t).entry} \cup EntriesOf(Right(t))
         /\ Height(t) = 1 + Highest(Height(Left(t)), Height(Right(t)))
         /\ Height(Left(t)) - Height(Right(t)) \in -1 .. 1
<1>1. /\ t = Node(Left(t), Top(t).entry, Right(t))
      /\ Height(Left(t)) - Height(Right(t)) \in -1 .. 1
      /\ WellFormed(Left(t)) /\ WellFormed(Right(t))
  BY WellFormedDef
<1>2. Left(t) \in Trees /\ Right(t) \in Trees /\ Top(t).entry \in Entries
  BY SubtreesSmaller, NodeParts
<1>3. Fits(Left(t), Top(t).entry, Right(t))
  BY DEF Fits, EntriesOf, Left, Right
<1> DEFINE l == Left(t)
           r == Right(t)
           e == Top(t).entry
           s == Node(l, e, r)
<1> HIDE DEF l, r, e
<1>a. l \in Trees /\ r \in Trees /\ e \in Entries /\ Fits(l, e, r)
  BY <1>2, <1>3 DEF l, r, e
<1>4. /\ EntriesOf(s) = EntriesOf(l) \cup {e} \cup EntriesOf(r)
      /\ Height(s) = 1 + Highest(Height(l), Height(r))
  BY <1>a, NodeIs
<1>5. t = s
  BY <1>1 DEF l, r, e
<1> HIDE DEF s
<1>6. /\ EntriesOf(t) = EntriesOf(l) \cup {e} \cup EntriesOf(r)
      /\ Height(t) = 1 + Highest(Height(l), Height(r))
  BY <1>4, <1>5
<1> QED BY <1>1, <1>2, <1>3, <1>6 DEF l, r, e

\* Put together again.
LEMMA Joined ==
  ASSUME NEW l \in Trees, NEW r \in Trees, NEW e \in Entries, Fits(l, e, r),
         WellFormed(l), WellFormed(r), Height(l) - Height(r) \in -1 .. 1
  PROVE  /\ Node(l, e, r) \in Trees /\ WellFormed(Node(l, e, r))
         /\ EntriesOf(Node(l, e, r)) = EntriesOf(l) \cup {e} \cup EntriesOf(r)
         /\ Height(Node(l, e, r)) = 1 + Highest(Height(l), Height(r))
<1> DEFINE t == Node(l, e, r)
<1>1. /\ t \in Trees /\ t # {} /\ Top(t).entry = e /\ Left(t) = l /\ Right(t) = r
      /\ EntriesOf(t) = EntriesOf(l) \cup {e} \cup EntriesOf(r)
      /\ Height(t) = 1 + Highest(Height(l), Height(r))
  BY NodeIs
<1>2. t = Node(Left(t), Top(t).entry, Right(t))
  <2>1. Node(Left(t), Top(t).entry, Right(t)) = Node(l, e, r)
    <3> HIDE DEF t
    <3> QED BY <1>1
  <2> QED BY <2>1
<1> HIDE DEF t
<1>3. WellFormed(t)
  BY <1>1, <1>2, WellFormedDef
<1> QED BY <1>1, <1>3 DEF t

\* Rotations keep the entries and make a tree as flat as an AVL tree is of two
\* subtrees that differ by two.
LEMMA BalancedIs ==
  ASSUME NEW l \in Trees, NEW r \in Trees, NEW e \in Entries, Fits(l, e, r),
         WellFormed(l), WellFormed(r), Height(l) - Height(r) \in -2 .. 2
  PROVE  /\ Balanced(l, e, r) \in Trees /\ WellFormed(Balanced(l, e, r))
         /\ EntriesOf(Balanced(l, e, r)) = EntriesOf(l) \cup {e} \cup EntriesOf(r)
         /\ Height(Balanced(l, e, r)) - Highest(Height(l), Height(r)) \in 0 .. 1
         /\ Height(l) - Height(r) \in -1 .. 1 =>
              Height(Balanced(l, e, r)) = 1 + Highest(Height(l), Height(r))
<1>h. \A t \in Trees : Height(t) \in Nat /\ (t # {} => Height(t) # 0)
  BY NodeParts
<1>0. Height({}) = 0 /\ e.key \in Int
  BY DEF Height, IsEmpty, Empty, Entries
<1>k. \A x \in Entries : x.key \in Int
  BY DEF Entries
<1>e. \A t \in Trees : EntriesOf(t) \subseteq Entries
  BY NodeParts DEF EntriesOf
<1>1. CASE Height(l) - Height(r) \in -1 .. 1
  <2>1. Balanced(l, e, r) = Node(l, e, r)
    BY <1>1, <1>h DEF Balanced
  <2>2. Highest(Height(l), Height(r)) \in Nat
    BY <1>h DEF Highest
  <2> QED BY <1>1, <2>1, <2>2, Joined
<1>2. CASE Height(l) = Height(r) + 2
  <2> DEFINE a == Left(l)
             x == Top(l).entry
             c == Right(l)
  <2>0. l # {}
    BY <1>2, <1>0, <1>h
  <2>1. /\ a \in Trees /\ c \in Trees /\ x \in Entries /\ WellFormed(a) /\ WellFormed(c)
        /\ Fits(a, x, c) /\ EntriesOf(l) = EntriesOf(a) \cup {x} \cup EntriesOf(c)
        /\ Height(l) = 1 + Highest(Height(a), Height(c))
        /\ Height(a) - Height(c) \in -1 .. 1
    BY <2>0, Opened
  <2>2. /\ \A y \in EntriesOf(a) : y.key < x.key /\ y.key \in Int
        /\ \A y \in EntriesOf(c) : y.key > x.key /\ y.key \in Int /\ y.key < e.key
        /\ \A y \in EntriesOf(r) : y.key > e.key /\ y.key \in Int
        /\ x.key < e.key /\ x.key \in Int
    BY <2>1, <1>e, <1>k DEF Fits
  <2>3. Height(a) \in Nat /\ Height(c) \in Nat /\ Height(r) \in Nat /\ Height(l) \in Nat
    BY <1>h, <2>1
  <2>4. CASE Height(a) >= Height(c)
    <3>1. Balanced(l, e, r) = Node(a, x, Node(c, e, r))
      BY <1>2, <2>3, <2>4 DEF Balanced
    <3>2. Fits(c, e, r) /\ Height(c) - Height(r) \in -1 .. 1
      BY <1>2, <2>1, <2>2, <2>3, <2>4 DEF Fits, Highest
    <3> DEFINE n == Node(c, e, r)
    <3>3. /\ n \in Trees /\ WellFormed(n)
          /\ EntriesOf(n) = EntriesOf(c) \cup {e} \cup EntriesOf(r)
          /\ Height(n) = 1 + Highest(Height(c), Height(r))
      BY <2>1, <3>2, Joined
    <3> HIDE DEF n
    <3>4. Fits(a, x, n) /\ Height(a) - Height(n) \in -1 .. 1
      <4>1. \A y \in EntriesOf(n) : y.key > x.key
        BY <2>2, <3>3, <1>0
      <4>2. Height(a) - Height(n) \in -1 .. 1
        BY <1>2, <2>1, <2>3, <2>4, <3>3 DEF Highest
      <4> QED BY <2>2, <4>1, <4>2 DEF Fits
    <3> DEFINE m == Node(a, x, n)
    <3>5. /\ m \in Trees /\ WellFormed(m)
          /\ EntriesOf(m) = EntriesOf(a) \cup {x} \cup EntriesOf(n)
          /\ Height(m) = 1 + Highest(Height(a), Height(n))
      BY <2>1, <3>3, <3>4, Joined
    <3>6. Balanced(l, e, r) = m
      BY <3>1 DEF n
    <3> HIDE DEF m
    <3>7. Height(m) - Highest(Height(l), Height(r)) \in 0 .. 1
      BY <1>2, <2>1, <2>3, <2>4, <3>3, <3>5 DEF Highest
    <3> HIDE DEF a, x, c
    <3>8. EntriesOf(m) = EntriesOf(l) \cup {e} \cup EntriesOf(r)
      BY <2>1, <3>3, <3>5
    <3> QED BY <1>2, <2>3, <3>5, <3>6, <3>7, <3>8
  <2>5. CASE Height(a) < Height(c)
    <3> DEFINE cl == Left(c)
               y == Top(c).entry
               cr == Right(c)
    <3>0. /\ Height(l) > Height(r) + 1 /\ ~ (Height(r) > Height(l) + 1)
          /\ Height(Left(l)) < Height(Right(l)) /\ ~ (Height(Left(l)) >= Height(Right(l)))
      BY <1>2, <2>3, <2>5
    <3>1. Balanced(l, e, r) = Node(Node(a, x, cl), y, Node(cr, e, r))
      BY <3>0 DEF Balanced
    <3>z. Height(c) # 0
      BY <2>3, <2>5
    <3>2. c # {}
      <4> HIDE DEF c
      <4> QED BY <3>z, <1>0
    <3>3. /\ cl \in Trees /\ cr \in Trees /\ y \in Entries
          /\ WellFormed(cl) /\ WellFormed(cr)
          /\ Fits(cl, y, cr) /\ EntriesOf(c) = EntriesOf(cl) \cup {y} \cup EntriesOf(cr)
          /\ Height(c) = 1 + Highest(Height(cl), Height(cr))
          /\ Height(cl) - Height(cr) \in -1 .. 1
      BY <2>1, <3>2, Opened
    <3>4. /\ \A z \in EntriesOf(cl) : z.key < y.key /\ z.key > x.key /\ z.key \in Int
          /\ \A z \in EntriesOf(cr) : z.key > y.key /\ z.key < e.key /\ z.key \in Int
          /\ x.key < y.key /\ y.key < e.key /\ y.key \in Int
      BY <2>2, <3>3, <1>e, <1>k DEF Fits
    <3>5. Height(cl) \in Nat /\ Height(cr) \in Nat
      BY <1>h, <3>3
    <3> HIDE DEF a, x, c, cl, y, cr
    <3>6. /\ Fits(a, x, cl) /\ Height(a) - Height(cl) \in -1 .. 1
          /\ Fits(cr, e, r) /\ Height(cr) - Height(r) \in -1 .. 1
      <4>1. Fits(a, x, cl) /\ Fits(cr, e, r)
        BY <2>2, <3>4 DEF Fits
      <4> QED BY <1>2, <2>1, <2>3, <2>5, <3>3, <3>5, <4>1 DEF Highest
    <3> DEFINE n == Node(a, x, cl)
               m == Node(cr, e, r)
    <3>7. /\ n \in Trees /\ WellFormed(n)
          /\ EntriesOf(n) = EntriesOf(a) \cup {x} \cup EntriesOf(cl)
          /\ Height(n) = 1 + Highest(Height(a), Height(cl))
      BY <2>1, <3>3, <3>6, Joined
    <3>8. /\ m \in Trees /\ WellFormed(m)
          /\ EntriesOf(m) = EntriesOf(cr) \cup {e} \cup EntriesOf(r)
          /\ Height(m) = 1 + Highest(Height(cr), Height(r))
      BY <3>3, <3>6, Joined
    <3>a. Balanced(l, e, r) = Node(n, y, m)
      BY <3>1 DEF a, x, c, cl, y, cr
    <3> HIDE DEF n, m
    <3>9. Fits(n, y, m) /\ Height(n) - Height(m) \in -1 .. 1
      <4>1. \A z \in EntriesOf(n) : z.key < y.key
        BY <2>2, <3>4, <3>7
      <4>2. \A z \in EntriesOf(m) : z.key > y.key
        BY <2>2, <3>4, <3>8, <1>0
      <4>3. Height(n) - Height(m) \in -1 .. 1
        BY <1>2, <2>1, <2>3, <2>5, <3>3, <3>5, <3>7, <3>8 DEF Highest
      <4> QED BY <4>1, <4>2, <4>3 DEF Fits
    <3> DEFINE o == Node(n, y, m)
    <3>b. /\ o \in Trees /\ WellFormed(o)
          /\ EntriesOf(o) = EntriesOf(n) \cup {y} \cup EntriesOf(m)
          /\ Height(o) = 1 + Highest(Height(n), Height(m))
      BY <3>3, <3>7, <3>8, <3>9, Joined
    <3> HIDE DEF o
    <3>c. Height(o) - Highest(Height(l), Height(r)) \in 0 .. 1
      BY <1>2, <2>1, <2>3, <2>5, <3>3, <3>5, <3>7, <3>8, <3>b DEF Highest
    <3>d. EntriesOf(o) = EntriesOf(l) \cup {e} \cup EntriesOf(r)
      BY <2>1, <3>3, <3>7, <3>8, <3>b
    <3>f. Balanced(l, e, r) = o
      BY <3>a DEF o
    <3> QED BY <1>2, <2>3, <3>b, <3>c, <3>d, <3>f
  <2> QED BY <2>3, <2>4, <2>5
<1>3. CASE Height(r) = Height(l) + 2
  <2> DEFINE a == Left(r)
             x == Top(r).entry
             c == Right(r)
  <2>z. Height(l) \in Nat /\ Height(r) # 0
    BY <1>3, <1>h
  <2>0. r # {}
    BY <2>z, <1>0
  <2>1. /\ a \in Trees /\ c \in Trees /\ x \in Entries /\ WellFormed(a) /\ WellFormed(c)
        /\ Fits(a, x, c) /\ EntriesOf(r) = EntriesOf(a) \cup {x} \cup EntriesOf(c)
        /\ Height(r) = 1 + Highest(Height(a), Height(c))
        /\ Height(a) - Height(c) \in -1 .. 1
    BY <2>0, Opened
  <2>2. /\ \A y \in EntriesOf(a) : y.key < x.key /\ y.key \in Int /\ y.key > e.key
        /\ \A y \in EntriesOf(c) : y.key > x.key /\ y.key \in Int
        /\ \A y \in EntriesOf(l) : y.key < e.key /\ y.key \in Int
        /\ x.key > e.key /\ x.key \in Int
    BY <2>1, <1>e, <1>k DEF Fits
  <2>3. Height(a) \in Nat /\ Height(c) \in Nat /\ Height(r) \in Nat /\ Height(l) \in Nat
    BY <1>h, <2>1
  <2>4. CASE Height(c) >= Height(a)
    <3>1. Balanced(l, e, r) = Node(Node(l, e, a), x, c)
      BY <1>3, <2>3, <2>4 DEF Balanced
    <3>2. Fits(l, e, a) /\ Height(l) - Height(a) \in -1 .. 1
      BY <1>3, <2>1, <2>2, <2>3, <2>4 DEF Fits, Highest
    <3> DEFINE n == Node(l, e, a)
    <3>3. /\ n \in Trees /\ WellFormed(n)
          /\ EntriesOf(n) = EntriesOf(l) \cup {e} \cup EntriesOf(a)
          /\ Height(n) = 1 + Highest(Height(l), Height(a))
      BY <2>1, <3>2, Joined
    <3> HIDE DEF n
    <3>4. Fits(n, x, c) /\ Height(n) - Height(c) \in -1 .. 1
      <4>1. \A y \in EntriesOf(n) : y.key < x.key
        BY <2>2, <3>3, <1>0
      <4>2. Height(n) - Height(c) \in -1 .. 1
        BY <1>3, <2>1, <2>3, <2>4, <3>3 DEF Highest
      <4> QED BY <2>2, <4>1, <4>2 DEF Fits
    <3> DEFINE m == Node(n, x, c)
    <3>5. /\ m \in Trees /\ WellFormed(m)
          /\ EntriesOf(m) = EntriesOf(n) \cup {x} \cup EntriesOf(c)
          /\ Height(m) = 1 + Highest(Height(n), Height(c))
      BY <2>1, <3>3, <3>4, Joined
    <3>6. Balanced(l, e, r) = m
      BY <3>1 DEF n
    <3> HIDE DEF m
    <3>7. Height(m) - Highest(Height(l), Height(r)) \in 0 .. 1
      BY <1>3, <2>1, <2>3, <2>4, <3>3, <3>5 DEF Highest
    <3> HIDE DEF a, x, c
    <3>8. EntriesOf(m) = EntriesOf(l) \cup {e} \cup EntriesOf(r)
      BY <2>1, <3>3, <3>5
    <3> QED BY <1>3, <2>3, <3>5, <3>6, <3>7, <3>8
  <2>5. CASE Height(c) < Height(a)
    <3> DEFINE al == Left(a)
               y == Top(a).entry
               ar == Right(a)
    <3>0. /\ Height(r) > Height(l) + 1 /\ ~ (Height(l) > Height(r) + 1)
          /\ Height(Right(r)) < Height(Left(r)) /\ ~ (Height(Right(r)) >= Height(Left(r)))
      BY <1>3, <2>3, <2>5
    <3>1. Balanced(l, e, r) = Node(Node(l, e, al), y, Node(ar, x, c))
      BY <3>0 DEF Balanced
    <3>z. Height(a) # 0
      BY <2>3, <2>5
    <3>2. a # {}
      <4> HIDE DEF a
      <4> QED BY <3>z, <1>0
    <3>3. /\ al \in Trees /\ ar \in Trees /\ y \in Entries
          /\ WellFormed(al) /\ WellFormed(ar)
          /\ Fits(al, y, ar) /\ EntriesOf(a) = EntriesOf(al) \cup {y} \cup EntriesOf(ar)
          /\ Height(a) = 1 + Highest(Height(al), Height(ar))
          /\ Height(al) - Height(ar) \in -1 .. 1
      BY <2>1, <3>2, Opened
    <3>4. /\ \A z \in EntriesOf(al) : z.key < y.key /\ z.key > e.key /\ z.key \in Int
          /\ \A z \in EntriesOf(ar) : z.key > y.key /\ z.key < x.key /\ z.key \in Int
          /\ e.key < y.key /\ y.key < x.key /\ y.key \in Int
      BY <2>2, <3>3, <1>e, <1>k DEF Fits
    <3>5. Height(al) \in Nat /\ Height(ar) \in Nat
      BY <1>h, <3>3
    <3> HIDE DEF a, x, c, al, y, ar
    <3>6. /\ Fits(l, e, al) /\ Height(l) - Height(al) \in -1 .. 1
          /\ Fits(ar, x, c) /\ Height(ar) - Height(c) \in -1 .. 1
      <4>1. Fits(l, e, al) /\ Fits(ar, x, c)
        BY <2>2, <3>4 DEF Fits
      <4> QED BY <1>3, <2>1, <2>3, <2>5, <3>3, <3>5, <4>1 DEF Highest
    <3> DEFINE n == Node(l, e, al)
               m == Node(ar, x, c)
    <3>7. /\ n \in Trees /\ WellFormed(n)
          /\ EntriesOf(n) = EntriesOf(l) \cup {e} \cup EntriesOf(al)
          /\ Height(n) = 1 + Highest(Height(l), Height(al))
      BY <3>3, <3>6, Joined
    <3>8. /\ m \in Trees /\ WellFormed(m)
          /\ EntriesOf(m) = EntriesOf(ar) \cup {x} \cup EntriesOf(c)
          /\ Height(m) = 1 + Highest(Height(ar), Height(c))
      BY <2>1, <3>3, <3>6, Joined
    <3>a. Balanced(l, e, r) = Node(n, y, m)
      BY <3>1 DEF a, x, c, al, y, ar
    <3> HIDE DEF n, m
    <3>9. Fits(n, y, m) /\ Height(n) - Height(m) \in -1 .. 1
      <4>1. \A z \in EntriesOf(n) : z.key < y.key
        BY <2>2, <3>4, <3>7, <1>0
      <4>2. \A z \in EntriesOf(m) : z.key > y.key
        BY <2>2, <3>4, <3>8
      <4>3. Height(n) - Height(m) \in -1 .. 1
        BY <1>3, <2>1, <2>3, <2>5, <3>3, <3>5, <3>7, <3>8 DEF Highest
      <4> QED BY <4>1, <4>2, <4>3 DEF Fits
    <3> DEFINE o == Node(n, y, m)
    <3>b. /\ o \in Trees /\ WellFormed(o)
          /\ EntriesOf(o) = EntriesOf(n) \cup {y} \cup EntriesOf(m)
          /\ Height(o) = 1 + Highest(Height(n), Height(m))
      BY <3>3, <3>7, <3>8, <3>9, Joined
    <3> HIDE DEF o
    <3>c. Height(o) - Highest(Height(l), Height(r)) \in 0 .. 1
      BY <1>3, <2>1, <2>3, <2>5, <3>3, <3>5, <3>7, <3>8, <3>b DEF Highest
    <3>d. EntriesOf(o) = EntriesOf(l) \cup {e} \cup EntriesOf(r)
      BY <2>1, <3>3, <3>7, <3>8, <3>b
    <3>f. Balanced(l, e, r) = o
      BY <3>a DEF o
    <3> QED BY <1>3, <2>3, <3>b, <3>c, <3>d, <3>f
  <2> QED BY <2>3, <2>4, <2>5
<1>4. \/ Height(l) - Height(r) \in -1 .. 1
      \/ Height(l) = Height(r) + 2 \/ Height(r) = Height(l) + 2
  BY <1>h
<1> QED BY <1>1, <1>2, <1>3, <1>4
-----------------------------------------------------------------------------
(* Put and RemoveLeft *)

\* Whatever is rotated, a tree comes out.
LEMMA BalancedIsTree ==
  ASSUME NEW l \in Trees, NEW r \in Trees, NEW e \in Entries
  PROVE  Balanced(l, e, r) \in Trees
<1>0. Height({}) = 0 /\ \A t \in Trees : Height(t) \in Nat
  BY NodeParts DEF Height, IsEmpty, Empty
<1>s. \A t \in Trees : t # {} => /\ Left(t) \in Trees /\ Right(t) \in Trees
                                 /\ Top(t).entry \in Entries
  BY SubtreesSmaller, NodeParts
<1>n. \A a, b \in Trees, x \in Entries : Node(a, x, b) \in Trees
  BY NodeIs
<1>1. ASSUME NEW t \in Trees, NEW u \in Trees, Height(t) > Height(u) + 1
      PROVE  t # {} /\ Left(t) \in Trees /\ Right(t) \in Trees /\ Top(t).entry \in Entries
  <2>1. Height(t) # 0
    BY <1>0, <1>1
  <2> QED BY <1>0, <1>s, <2>1
<1>2. ASSUME NEW t \in Trees, NEW u \in Trees, Height(t) > Height(u)
      PROVE  t # {} /\ Left(t) \in Trees /\ Right(t) \in Trees /\ Top(t).entry \in Entries
  <2>1. Height(t) # 0
    BY <1>0, <1>2
  <2> QED BY <1>0, <1>s, <2>1
<1>3. CASE Height(l) > Height(r) + 1 /\ Height(Left(l)) >= Height(Right(l))
  <2>0. Left(l) \in Trees /\ Right(l) \in Trees /\ Top(l).entry \in Entries
    BY <1>1, <1>3
  <2>2. /\ ~ (Height(r) > Height(l) + 1) /\ ~ (Height(Left(l)) < Height(Right(l)))
        /\ Height(l) > Height(r) + 1 /\ Height(Left(l)) >= Height(Right(l))
    BY <1>0, <1>3, <2>0
  <2>1. Balanced(l, e, r) = Node(Left(l), Top(l).entry, Node(Right(l), e, r))
    BY <2>2 DEF Balanced
  <2>3. Node(Right(l), e, r) \in Trees
    BY <1>n, <2>0
  <2> QED BY <1>n, <2>0, <2>1, <2>3
<1>4. CASE Height(l) > Height(r) + 1 /\ ~ (Height(Left(l)) >= Height(Right(l)))
  <2>1. Left(l) \in Trees /\ Right(l) \in Trees /\ Top(l).entry \in Entries
    BY <1>1, <1>4
  <2>2. /\ Height(Right(l)) > Height(Left(l)) /\ Height(Left(l)) < Height(Right(l))
        /\ ~ (Height(r) > Height(l) + 1)
        /\ Height(l) > Height(r) + 1 /\ ~ (Height(Left(l)) >= Height(Right(l)))
    BY <1>0, <1>4, <2>1
  <2>3. /\ Left(Right(l)) \in Trees /\ Right(Right(l)) \in Trees
        /\ Top(Right(l)).entry \in Entries
    BY <1>2, <2>1, <2>2
  <2>4. Balanced(l, e, r) = Node(Node(Left(l), Top(l).entry, Left(Right(l))),
                                 Top(Right(l)).entry, Node(Right(Right(l)), e, r))
    BY <2>2 DEF Balanced
  <2>5. /\ Node(Left(l), Top(l).entry, Left(Right(l))) \in Trees
        /\ Node(Right(Right(l)), e, r) \in Trees
    BY <1>n, <2>1, <2>3
  <2> QED BY <1>n, <2>3, <2>4, <2>5
<1>5. CASE Height(r) > Height(l) + 1 /\ Height(Right(r)) >= Height(Left(r))
  <2>0. Left(r) \in Trees /\ Right(r) \in Trees /\ Top(r).entry \in Entries
    BY <1>1, <1>5
  <2>1. /\ ~ (Height(l) > Height(r) + 1) /\ ~ (Height(Right(r)) < Height(Left(r)))
        /\ Height(r) > Height(l) + 1 /\ Height(Right(r)) >= Height(Left(r))
    BY <1>0, <1>5, <2>0
  <2>2. Balanced(l, e, r) = Node(Node(l, e, Left(r)), Top(r).entry, Right(r))
    BY <2>1 DEF Balanced
  <2>3. Node(l, e, Left(r)) \in Trees
    BY <1>n, <2>0
  <2> QED BY <1>n, <2>0, <2>2, <2>3
<1>6. CASE Height(r) > Height(l) + 1 /\ ~ (Height(Right(r)) >= Height(Left(r)))
  <2>1. Left(r) \in Trees /\ Right(r) \in Trees /\ Top(r).entry \in Entries
    BY <1>1, <1>6
  <2>2. /\ Height(Left(r)) > Height(Right(r)) /\ Height(Right(r)) < Height(Left(r))
        /\ ~ (Height(l) > Height(r) + 1)
        /\ Height(r) > Height(l) + 1 /\ ~ (Height(Right(r)) >= Height(Left(r)))
    BY <1>0, <1>6, <2>1
  <2>3. /\ Left(Left(r)) \in Trees /\ Right(Left(r)) \in Trees
        /\ Top(Left(r)).entry \in Entries
    BY <1>2, <2>1, <2>2
  <2>4. Balanced(l, e, r) = Node(Node(l, e, Left(Left(r))), Top(Left(r)).entry,
                                 Node(Right(Left(r)), Top(r).entry, Right(r)))
    BY <2>2 DEF Balanced
  <2>5. /\ Node(l, e, Left(Left(r))) \in Trees
        /\ Node(Right(Left(r)), Top(r).entry, Right(r)) \in Trees
    BY <1>n, <2>1, <2>3
  <2> QED BY <1>n, <2>3, <2>4, <2>5
<1>7. CASE ~ (Height(l) > Height(r) + 1) /\ ~ (Height(r) > Height(l) + 1)
  <2>1. Balanced(l, e, r) = Node(l, e, r)
    BY <1>7 DEF Balanced
  <2> QED BY <1>n, <2>1
<1> QED BY <1>3, <1>4, <1>5, <1>6, <1>7

\* A recursion whose step, of a tree and of two members of V, is in V defines a
\* function into V.
LEMMA TypedRecursion ==
  ASSUME NEW V, NEW b \in V, NEW G \in [Trees -> [V -> [V -> V]]]
  PROVE  \E g \in [Trees -> V] : Recursive(g, b, G, Trees)
<1>1. PICK g : Recursive(g, b, G, Trees)
  BY TreeRecursion
<1>2. \A t \in Trees : g[t] = IF t = {} THEN b ELSE G[t][g[Left(t)]][g[Right(t)]]
  BY <1>1 DEF Recursive
<1> DEFINE D == {t \in Trees : g[t] \in V}
<1>3. {} \in D
  BY <1>2, FS_EmptySet DEF Trees
<1>4. ASSUME NEW t \in Trees, t # {}, Left(t) \in D, Right(t) \in D
      PROVE  t \in D
  <2>1. g[t] = G[t][g[Left(t)]][g[Right(t)]]
    BY <1>2, <1>4
  <2>2. g[Left(t)] \in V /\ g[Right(t)] \in V
    BY <1>4
  <2> QED BY <2>1, <2>2
<1>5. Trees \subseteq D
  <2> HIDE DEF D
  <2> QED BY <1>3, <1>4, TreeInduction
<1>6. \A t \in Trees : g[t] \in V
  BY <1>5
<1>7. g = [t \in Trees |-> g[t]]
  BY <1>1 DEF Recursive
<1> HIDE DEF D
<1> QED BY <1>1, <1>6, <1>7

\* The recursion of RemoveLeft.
LEMMA RemoveLeftDef ==
  ASSUME NEW t \in Trees
  PROVE  /\ RemoveLeft(t) \in Trees
         /\ RemoveLeft(t) =
              IF IsEmpty(Left(t)) THEN Right(t)
              ELSE Balanced(RemoveLeft(Left(t)), Top(t).entry, Right(t))
<1> DEFINE Defines(f) ==
             f = [n \in Trees |->
                    IF IsEmpty(Left(n)) THEN Right(n)
                    ELSE Balanced(f[Left(n)], Top(n).entry, Right(n))]
           H(n, x) == IF n = {} \/ IsEmpty(Left(n)) THEN Right(n)
                      ELSE Balanced(x, Top(n).entry, Right(n))
           G == [n \in Trees |-> [x \in Trees |-> [y \in Trees |-> H(n, x)]]]
<1>0. {} \in Trees /\ Left({}) = {} /\ Right({}) = {}
  BY FS_EmptySet DEF Trees, Left, Right
<1>1. ASSUME NEW n \in Trees, NEW x \in Trees PROVE H(n, x) \in Trees
  <2>1. CASE n = {}
    BY <1>0, <2>1
  <2>2. CASE n # {}
    BY <2>2, SubtreesSmaller, NodeParts, BalancedIsTree
  <2> QED BY <2>1, <2>2
<1> HIDE DEF H
<1>2. G \in [Trees -> [Trees -> [Trees -> Trees]]]
  BY <1>1
<1>3. \A n, x, y \in Trees : G[n][x][y] = H(n, x)
  OBVIOUS
<1> HIDE DEF G
<1>4. PICK g \in [Trees -> Trees] : Recursive(g, {}, G, Trees)
  BY <1>0, <1>2, TypedRecursion
<1>5. ASSUME NEW n \in Trees
      PROVE  g[n] = IF IsEmpty(Left(n)) THEN Right(n)
                    ELSE Balanced(g[Left(n)], Top(n).entry, Right(n))
  <2>1. g[n] = IF n = {} THEN {} ELSE G[n][g[Left(n)]][g[Right(n)]]
    BY <1>4 DEF Recursive
  <2>2. CASE n = {}
    BY <1>0, <2>1, <2>2 DEF IsEmpty, Empty
  <2>3. CASE n # {}
    <3>1. g[Left(n)] \in Trees /\ g[Right(n)] \in Trees
      BY <2>3, SubtreesSmaller
    <3>2. g[n] = H(n, g[Left(n)])
      BY <1>3, <2>1, <2>3, <3>1
    <3> QED BY <2>3, <3>2 DEF H
  <2> QED BY <2>2, <2>3
<1>6. Defines(g)
  <2>1. g = [n \in Trees |-> g[n]]
    OBVIOUS
  <2> QED BY <1>5, <2>1
<1> DEFINE f == CHOOSE f : Defines(f)
<1>7. Defines(f)
  BY <1>6
<1>8. \A n : RemoveLeft(n) = f[n]
  BY DEF RemoveLeft
<1> HIDE DEF f
<1>9. \A n \in Trees : f[n] = IF IsEmpty(Left(n)) THEN Right(n)
                              ELSE Balanced(f[Left(n)], Top(n).entry, Right(n))
  BY <1>7
<1> DEFINE D == {n \in Trees : f[n] \in Trees}
<1>a. {} \in D
  <2>1. f[{}] = {}
    BY <1>0, <1>9 DEF IsEmpty, Empty
  <2> QED BY <1>0, <2>1
<1>b. ASSUME NEW n \in Trees, n # {}, Left(n) \in D, Right(n) \in D
      PROVE  n \in D
  <2>1. Right(n) \in Trees /\ Top(n).entry \in Entries /\ f[Left(n)] \in Trees
    BY <1>b, SubtreesSmaller, NodeParts
  <2>2. Balanced(f[Left(n)], Top(n).entry, Right(n)) \in Trees
    BY <2>1, BalancedIsTree
  <2>3. f[n] \in Trees
    BY <1>9, <2>1, <2>2
  <2> QED BY <2>3
<1>c. Trees \subseteq D
  <2> HIDE DEF D
  <2> QED BY <1>a, <1>b, TreeInduction
<1> QED BY <1>8, <1>9, <1>c
\* RemoveLeft takes the entry with the least key, and the tree stays as flat as
\* it has to be: storage.Remove(oldest) of the store.
LEMMA RemoveLeftIs ==
  ASSUME NEW t \in Trees, t # {}, WellFormed(t)
  PROVE  /\ RemoveLeft(t) \in Trees /\ WellFormed(RemoveLeft(t))
         /\ \E e \in EntriesOf(t) :
              /\ \A x \in EntriesOf(t) : x # e => e.key < x.key
              /\ EntriesOf(RemoveLeft(t)) = EntriesOf(t) \ {e}
         /\ Height(t) - Height(RemoveLeft(t)) \in 0 .. 1
<1> DEFINE Removes(n) ==
             /\ WellFormed(RemoveLeft(n))
             /\ \E e \in EntriesOf(n) :
                  /\ \A x \in EntriesOf(n) : x # e => e.key < x.key
                  /\ EntriesOf(RemoveLeft(n)) = EntriesOf(n) \ {e}
             /\ Height(n) - Height(RemoveLeft(n)) \in 0 .. 1
           D == {n \in Trees : n # {} /\ WellFormed(n) => Removes(n)}
<1>h. \A n \in Trees : Height(n) \in Nat
  BY NodeParts
<1>0. Height({}) = 0 /\ EntriesOf({}) = {} /\ {} \in D
  BY FS_EmptySet DEF Height, IsEmpty, Empty, EntriesOf, Trees
<1>1. ASSUME NEW n \in Trees, n # {}, Left(n) \in D, Right(n) \in D
      PROVE  n \in D
  <2> SUFFICES ASSUME WellFormed(n) PROVE Removes(n)
    OBVIOUS
  <2> DEFINE l == Left(n)
             r == Right(n)
             top == Top(n).entry
  <2>1. /\ l \in Trees /\ r \in Trees /\ top \in Entries
        /\ WellFormed(l) /\ WellFormed(r) /\ Fits(l, top, r)
        /\ EntriesOf(n) = EntriesOf(l) \cup {top} \cup EntriesOf(r)
        /\ Height(n) = 1 + Highest(Height(l), Height(r))
        /\ Height(l) - Height(r) \in -1 .. 1
    BY <1>1, Opened
  <2>2. RemoveLeft(n) = IF l = {} THEN r ELSE Balanced(RemoveLeft(l), top, r)
    BY RemoveLeftDef DEF IsEmpty, Empty
  <2>k. /\ top.key \in Int /\ \A x \in EntriesOf(l) : x.key < top.key /\ x.key \in Int
        /\ \A x \in EntriesOf(r) : top.key < x.key /\ x.key \in Int
    <3>1. EntriesOf(l) \subseteq Entries /\ EntriesOf(r) \subseteq Entries
      BY <2>1, NodeParts DEF EntriesOf
    <3> QED BY <2>1, <3>1 DEF Fits, Entries
  <2>l. l \in D
    BY <1>1
  <2> HIDE DEF l, r, top
  <2>3. CASE l = {}
    <3>1. RemoveLeft(n) = r
      BY <2>2, <2>3
    <3>2. EntriesOf(n) = {top} \cup EntriesOf(r)
      BY <1>0, <2>1, <2>3
    <3>3. top \in EntriesOf(n) /\ top \notin EntriesOf(r)
      BY <2>k, <3>2
    <3>4. \A x \in EntriesOf(n) : x # top => top.key < x.key
      BY <2>k, <3>2
    <3>5. EntriesOf(RemoveLeft(n)) = EntriesOf(n) \ {top}
      BY <3>1, <3>2, <3>3
    <3>6. Height(n) - Height(RemoveLeft(n)) \in 0 .. 1
      BY <1>h, <1>0, <2>1, <2>3, <3>1 DEF Highest
    <3> QED BY <2>1, <3>1, <3>3, <3>4, <3>5, <3>6
  <2>4. CASE l # {}
    <3>1. Removes(l)
      BY <2>1, <2>4, <2>l
    <3> DEFINE m == RemoveLeft(l)
    <3>2. m \in Trees /\ WellFormed(m) /\ Height(l) - Height(m) \in 0 .. 1
      BY <2>1, <3>1, RemoveLeftDef
    <3>3. PICK e \in EntriesOf(l) : /\ \A x \in EntriesOf(l) : x # e => e.key < x.key
                                    /\ EntriesOf(m) = EntriesOf(l) \ {e}
      BY <3>1
    <3>4. RemoveLeft(n) = Balanced(m, top, r)
      BY <2>2, <2>4
    <3> HIDE DEF m
    <3>5. Fits(m, top, r) /\ Height(m) - Height(r) \in -2 .. 2
      BY <1>h, <2>1, <3>2, <3>3 DEF Fits
    <3>6. /\ WellFormed(RemoveLeft(n))
          /\ EntriesOf(RemoveLeft(n)) = EntriesOf(m) \cup {top} \cup EntriesOf(r)
          /\ Height(RemoveLeft(n)) - Highest(Height(m), Height(r)) \in 0 .. 1
          /\ Height(m) - Height(r) \in -1 .. 1 =>
               Height(RemoveLeft(n)) = 1 + Highest(Height(m), Height(r))
      BY <2>1, <3>2, <3>4, <3>5, BalancedIs
    <3>7. e \in EntriesOf(n) /\ e # top /\ e \notin EntriesOf(r)
      BY <2>1, <2>k, <3>3
    <3>8. \A x \in EntriesOf(n) : x # e => e.key < x.key
      BY <2>1, <2>k, <3>3
    <3>9. EntriesOf(RemoveLeft(n)) = EntriesOf(n) \ {e}
      BY <2>1, <3>3, <3>6, <3>7
    <3>a. Height(n) - Height(RemoveLeft(n)) \in 0 .. 1
      <4>1. /\ Height(l) \in Nat /\ Height(r) \in Nat /\ Height(m) \in Nat
            /\ RemoveLeft(n) \in Trees /\ Height(RemoveLeft(n)) \in Nat
        BY <1>h, <2>1, <3>2, RemoveLeftDef
      <4> QED BY <2>1, <3>2, <3>6, <4>1 DEF Highest
    <3> QED BY <3>6, <3>7, <3>8, <3>9, <3>a
  <2> QED BY <2>3, <2>4
<1>2. Trees \subseteq D
  <2> HIDE DEF D
  <2> QED BY <1>0, <1>1, TreeInduction
<1> QED BY <1>2, RemoveLeftDef

\* The recursion of Put.
LEMMA PutDef ==
  ASSUME NEW t \in Trees, NEW e \in Entries
  PROVE  /\ Put(t, e) \in Trees
         /\ Put(t, e) =
              IF IsEmpty(t) THEN Node(Empty, e, Empty)
              ELSE IF e.key < Top(t).entry.key
                   THEN Balanced(Put(Left(t), e), Top(t).entry, Right(t))
              ELSE IF e.key > Top(t).entry.key
                   THEN Balanced(Left(t), Top(t).entry, Put(Right(t), e))
              ELSE Node(Left(t), e, Right(t))
<1> DEFINE H(n, x, y) == IF e.key < Top(n).entry.key
                         THEN Balanced(x, Top(n).entry, Right(n))
                         ELSE IF e.key > Top(n).entry.key
                         THEN Balanced(Left(n), Top(n).entry, y)
                         ELSE Node(Left(n), e, Right(n))
           Defines(f) ==
             f = [n \in Trees |->
                    IF IsEmpty(n) THEN Node(Empty, e, Empty)
                    ELSE IF e.key < Top(n).entry.key
                         THEN Balanced(f[Left(n)], Top(n).entry, Right(n))
                    ELSE IF e.key > Top(n).entry.key
                         THEN Balanced(Left(n), Top(n).entry, f[Right(n)])
                    ELSE Node(Left(n), e, Right(n))]
           b == Node(Empty, e, Empty)
           G == [n \in Trees |-> [x \in Trees |-> [y \in Trees |->
                  IF n = {} THEN b ELSE H(n, x, y)]]]
<1>0. {} \in Trees /\ b \in Trees
  BY FS_EmptySet, NodeIs DEF Trees, Empty
<1> HIDE DEF b
<1>1. ASSUME NEW n \in Trees, n # {}, NEW x \in Trees, NEW y \in Trees
      PROVE  H(n, x, y) \in Trees
  <2>1. Left(n) \in Trees /\ Right(n) \in Trees /\ Top(n).entry \in Entries
    BY <1>1, SubtreesSmaller, NodeParts
  <2>2. /\ Balanced(x, Top(n).entry, Right(n)) \in Trees
        /\ Balanced(Left(n), Top(n).entry, y) \in Trees
        /\ Node(Left(n), e, Right(n)) \in Trees
    BY <2>1, BalancedIsTree, NodeIs
  <2> QED BY <2>2
<1> HIDE DEF H
<1>2. G \in [Trees -> [Trees -> [Trees -> Trees]]]
  BY <1>0, <1>1
<1>3. \A n, x, y \in Trees : n # {} => G[n][x][y] = H(n, x, y)
  OBVIOUS
<1> HIDE DEF G
<1>4. PICK g \in [Trees -> Trees] : Recursive(g, b, G, Trees)
  BY <1>0, <1>2, TypedRecursion
<1>5. ASSUME NEW n \in Trees
      PROVE  g[n] = IF IsEmpty(n) THEN b ELSE H(n, g[Left(n)], g[Right(n)])
  <2>1. g[n] = IF n = {} THEN b ELSE G[n][g[Left(n)]][g[Right(n)]]
    BY <1>4 DEF Recursive
  <2>2. CASE n = {}
    BY <2>1, <2>2 DEF IsEmpty, Empty
  <2>3. CASE n # {}
    <3>1. g[Left(n)] \in Trees /\ g[Right(n)] \in Trees
      BY <2>3, SubtreesSmaller
    <3> QED BY <1>3, <2>1, <2>3, <3>1 DEF IsEmpty, Empty
  <2> QED BY <2>2, <2>3
<1>6. Defines(g)
  <2>1. g = [n \in Trees |-> g[n]]
    OBVIOUS
  <2>2. g = [n \in Trees |-> IF IsEmpty(n) THEN b ELSE H(n, g[Left(n)], g[Right(n)])]
    BY <1>5, <2>1
  <2> QED BY <2>2 DEF H, b
<1> DEFINE f == CHOOSE f : Defines(f)
<1>7. Defines(f)
  BY <1>6
<1>8. \A n : Put(n, e) = f[n]
  BY DEF Put
<1> HIDE DEF f
<1>9. \A n \in Trees : f[n] = IF IsEmpty(n) THEN b ELSE H(n, f[Left(n)], f[Right(n)])
  BY <1>7 DEF H, b
<1> DEFINE D == {n \in Trees : f[n] \in Trees}
<1>a. {} \in D
  <2>1. f[{}] = b
    BY <1>0, <1>9 DEF IsEmpty, Empty
  <2> QED BY <1>0, <2>1
<1>b. ASSUME NEW n \in Trees, n # {}, Left(n) \in D, Right(n) \in D
      PROVE  n \in D
  <2>1. f[n] = H(n, f[Left(n)], f[Right(n)])
    BY <1>9, <1>b DEF IsEmpty, Empty
  <2> QED BY <1>1, <1>b, <2>1
<1>c. Trees \subseteq D
  <2> HIDE DEF D
  <2> QED BY <1>a, <1>b, TreeInduction
<1>d. Put(t, e) = IF IsEmpty(t) THEN b ELSE H(t, Put(Left(t), e), Put(Right(t), e))
  BY <1>8, <1>9
<1>e. Put(t, e) \in Trees
  BY <1>8, <1>c
<1> QED BY <1>d, <1>e DEF H, b
\* Put adds the entry, in the place of the one with its key, and the tree stays
\* as flat as it has to be: storage.Put of the store.
LEMMA PutIs ==
  ASSUME NEW t \in Trees, WellFormed(t), NEW e \in Entries
  PROVE  /\ Put(t, e) \in Trees /\ WellFormed(Put(t, e))
         /\ EntriesOf(Put(t, e)) = {x \in EntriesOf(t) : x.key # e.key} \cup {e}
         /\ Height(Put(t, e)) - Height(t) \in 0 .. 1
<1> DEFINE Others(n) == {x \in EntriesOf(n) : x.key # e.key}
           Puts(n) == /\ WellFormed(Put(n, e))
                      /\ EntriesOf(Put(n, e)) = Others(n) \cup {e}
                      /\ Height(Put(n, e)) - Height(n) \in 0 .. 1
           D == {n \in Trees : WellFormed(n) => Puts(n)}
<1>h. \A n \in Trees : Height(n) \in Nat
  BY NodeParts
<1>e. {} \in Trees /\ Height({}) = 0 /\ EntriesOf({}) = {} /\ WellFormed({}) /\ e.key \in Int
  BY FS_EmptySet, WellFormedDef DEF Height, IsEmpty, Empty, EntriesOf, Trees, Entries
<1>0. {} \in D
  <2>1. Put({}, e) = Node({}, e, {})
    BY <1>e, PutDef DEF IsEmpty, Empty
  <2>2. Fits({}, e, {})
    BY <1>e DEF Fits
  <2> DEFINE n == Node({}, e, {})
  <2>3. /\ WellFormed(n) /\ EntriesOf(n) = EntriesOf({}) \cup {e} \cup EntriesOf({})
        /\ Height(n) = 1 + Highest(Height({}), Height({}))
    BY <1>e, <2>2, Joined
  <2> HIDE DEF n
  <2>4. Puts({})
    BY <1>e, <2>1, <2>3 DEF Highest, n
  <2> QED BY <1>e, <2>4
<1>1. ASSUME NEW n \in Trees, n # {}, Left(n) \in D, Right(n) \in D
      PROVE  n \in D
  <2> SUFFICES ASSUME WellFormed(n) PROVE Puts(n)
    OBVIOUS
  <2> DEFINE l == Left(n)
             r == Right(n)
             top == Top(n).entry
  <2>1. /\ l \in Trees /\ r \in Trees /\ top \in Entries
        /\ WellFormed(l) /\ WellFormed(r) /\ Fits(l, top, r)
        /\ EntriesOf(n) = EntriesOf(l) \cup {top} \cup EntriesOf(r)
        /\ Height(n) = 1 + Highest(Height(l), Height(r))
        /\ Height(l) - Height(r) \in -1 .. 1
    BY <1>1, Opened
  <2>2. Put(n, e) = IF e.key < top.key THEN Balanced(Put(l, e), top, r)
                    ELSE IF e.key > top.key THEN Balanced(l, top, Put(r, e))
                    ELSE Node(l, e, r)
    BY <1>1, PutDef DEF IsEmpty, Empty
  <2>k. /\ top.key \in Int /\ \A x \in EntriesOf(l) : x.key < top.key /\ x.key \in Int
        /\ \A x \in EntriesOf(r) : top.key < x.key /\ x.key \in Int
    <3>1. EntriesOf(l) \subseteq Entries /\ EntriesOf(r) \subseteq Entries
      BY <2>1, NodeParts DEF EntriesOf
    <3> QED BY <2>1, <3>1 DEF Fits, Entries
  <2>l. l \in D /\ r \in D
    BY <1>1
  <2>h. Height(l) \in Nat /\ Height(r) \in Nat /\ Put(n, e) \in Trees
        /\ Height(Put(n, e)) \in Nat
    BY <1>h, <2>1, PutDef
  <2> HIDE DEF l, r, top
  <2>3. CASE e.key < top.key
    <3> DEFINE m == Put(l, e)
    <3>1. /\ m \in Trees /\ WellFormed(m) /\ EntriesOf(m) = Others(l) \cup {e}
          /\ Height(m) - Height(l) \in 0 .. 1
      BY <2>1, <2>l, PutDef
    <3>2. Put(n, e) = Balanced(m, top, r)
      BY <2>2, <2>3
    <3> HIDE DEF m
    <3>3. Fits(m, top, r) /\ Height(m) - Height(r) \in -2 .. 2
      BY <1>h, <2>1, <2>h, <2>k, <2>3, <3>1 DEF Fits
    <3>4. /\ WellFormed(Put(n, e))
          /\ EntriesOf(Put(n, e)) = EntriesOf(m) \cup {top} \cup EntriesOf(r)
          /\ Height(Put(n, e)) - Highest(Height(m), Height(r)) \in 0 .. 1
          /\ Height(m) - Height(r) \in -1 .. 1 =>
               Height(Put(n, e)) = 1 + Highest(Height(m), Height(r))
      BY <2>1, <3>1, <3>2, <3>3, BalancedIs
    <3>5. top.key # e.key /\ \A x \in EntriesOf(r) : x.key # e.key
      BY <2>k, <2>3, <1>e
    <3>6. EntriesOf(Put(n, e)) = Others(n) \cup {e}
      BY <2>1, <3>1, <3>4, <3>5
    <3>7. Height(Put(n, e)) - Height(n) \in 0 .. 1
      <4>1. Height(m) \in Nat
        BY <1>h, <3>1
      <4> QED BY <2>1, <2>h, <3>1, <3>4, <4>1 DEF Highest
    <3> QED BY <3>4, <3>6, <3>7
  <2>4. CASE e.key > top.key
    <3> DEFINE m == Put(r, e)
    <3>1. /\ m \in Trees /\ WellFormed(m) /\ EntriesOf(m) = Others(r) \cup {e}
          /\ Height(m) - Height(r) \in 0 .. 1
      BY <2>1, <2>l, PutDef
    <3>2. Put(n, e) = Balanced(l, top, m)
      BY <2>2, <2>4, <2>k, <1>e
    <3> HIDE DEF m
    <3>3. Fits(l, top, m) /\ Height(l) - Height(m) \in -2 .. 2
      BY <1>h, <2>1, <2>h, <2>k, <2>4, <3>1 DEF Fits
    <3>4. /\ WellFormed(Put(n, e))
          /\ EntriesOf(Put(n, e)) = EntriesOf(l) \cup {top} \cup EntriesOf(m)
          /\ Height(Put(n, e)) - Highest(Height(l), Height(m)) \in 0 .. 1
          /\ Height(l) - Height(m) \in -1 .. 1 =>
               Height(Put(n, e)) = 1 + Highest(Height(l), Height(m))
      BY <2>1, <3>1, <3>2, <3>3, BalancedIs
    <3>5. top.key # e.key /\ \A x \in EntriesOf(l) : x.key # e.key
      BY <2>k, <2>4, <1>e
    <3>6. EntriesOf(Put(n, e)) = Others(n) \cup {e}
      BY <2>1, <3>1, <3>4, <3>5
    <3>7. Height(Put(n, e)) - Height(n) \in 0 .. 1
      <4>1. Height(m) \in Nat
        BY <1>h, <3>1
      <4> QED BY <2>1, <2>h, <3>1, <3>4, <4>1 DEF Highest
    <3> QED BY <3>4, <3>6, <3>7
  <2>5. CASE e.key = top.key
    <3>1. Put(n, e) = Node(l, e, r)
      BY <2>2, <2>5, <1>e
    <3>2. Fits(l, e, r)
      BY <2>1, <2>5 DEF Fits
    <3>3. /\ WellFormed(Put(n, e))
          /\ EntriesOf(Put(n, e)) = EntriesOf(l) \cup {e} \cup EntriesOf(r)
          /\ Height(Put(n, e)) = 1 + Highest(Height(l), Height(r))
      BY <2>1, <3>1, <3>2, Joined
    <3>4. \A x \in EntriesOf(l) \cup EntriesOf(r) : x.key # e.key
      BY <2>k, <2>5
    <3>5. EntriesOf(Put(n, e)) = Others(n) \cup {e}
      BY <2>1, <2>5, <3>3, <3>4
    <3>6. Height(Put(n, e)) - Height(n) \in 0 .. 1
      BY <2>1, <2>h, <3>3
    <3> QED BY <3>3, <3>5, <3>6
  <2> QED BY <2>3, <2>4, <2>5, <2>k, <1>e
<1>2. Trees \subseteq D
  <2> HIDE DEF D
  <2> QED BY <1>0, <1>1, TreeInduction
<1> QED BY <1>2, PutDef

\* Entries of a tree have keys of their own, and it has as many nodes as entries.
LEMMA KeysAreUnique ==
  ASSUME NEW t \in Trees, WellFormed(t)
  PROVE  /\ \A x, y \in EntriesOf(t) : x.key = y.key => x = y
         /\ EntriesOf(t) \subseteq Entries
         /\ IsFiniteSet(EntriesOf(t)) /\ Size(t) = Cardinality(EntriesOf(t))
<1> DEFINE Unique(n) == \A m, o \in n : m.entry.key = o.entry.key => m = o
           D == {n \in Trees : WellFormed(n) => Unique(n)}
<1>0. {} \in D
  BY FS_EmptySet DEF Trees
<1>1. ASSUME NEW n \in Trees, n # {}, Left(n) \in D, Right(n) \in D
      PROVE  n \in D
  <2> SUFFICES ASSUME WellFormed(n) PROVE Unique(n)
    OBVIOUS
  <2>1. /\ WellFormed(Left(n)) /\ WellFormed(Right(n))
        /\ n = Node(Left(n), Top(n).entry, Right(n))
    BY <1>1, WellFormedDef
  <2>2. Unique(Left(n)) /\ Unique(Right(n))
    BY <1>1, <2>1
  <2>3. PICK c : n = Left(n) \cup Right(n) \cup {c}
    BY <2>1 DEF Node
  <2>4. /\ \A m \in n : m.entry.key \in Int
        /\ Top(n) \in n /\ Top(n).entry.key \in Int
    BY <1>1, NodeParts, TopIsHighest
  <2>5. /\ \A m \in n : m \in Left(n) <=> m.entry.key < Top(n).entry.key
        /\ \A m \in n : m \in Right(n) <=> m.entry.key > Top(n).entry.key
    BY DEF Left, Right
  <2>6. \A m \in n : m \notin Left(n) /\ m \notin Right(n) => m = Top(n)
    BY <2>3, <2>4, <2>5
  <2> QED BY <2>2, <2>4, <2>5, <2>6
<1>2. Trees \subseteq D
  <2> HIDE DEF D
  <2> QED BY <1>0, <1>1, TreeInduction
<1>3. Unique(t)
  BY <1>2
<1>4. EntriesOf(t) \subseteq Entries
  BY NodeParts DEF EntriesOf
<1>5. \A x, y \in EntriesOf(t) : x.key = y.key => x = y
  BY <1>3 DEF EntriesOf
<1>6. IsFiniteSet(EntriesOf(t)) /\ Cardinality(EntriesOf(t)) = Cardinality(t)
  <2> DEFINE f == [n \in t |-> n.entry]
  <2>1. f \in Bijection(t, EntriesOf(t))
    BY <1>3 DEF EntriesOf, Bijection, Injection, Surjection, IsInjective
  <2> QED BY <2>1, FS_Bijection DEF Trees, ExistsBijection
<1> QED BY <1>4, <1>5, <1>6 DEF Size
-----------------------------------------------------------------------------
(* A storage *)

\* What TypeOK needs, and where the keys are: at or after the timestamps, which
\* the loop of insertOrSwap begins at.
StorageInv ==
  /\ TypeOK
  /\ \A e \in EntriesOf(root) : e.timestamp <= e.key

\* The fudge loop of insertOrSwap stops at a key: the first that is free, or the
\* last one when none is.
LEMMA FudgedKeyIs ==
  ASSUME NEW t \in Trees, NEW ts \in Timestamps
  PROVE  /\ FudgedKey(t, ts) \in ts .. (ts + maxTimestampFudge)
         /\ \A j \in ts .. (FudgedKey(t, ts) - 1) : HasKey(t, j)
         /\ FudgedKey(t, ts) < ts + maxTimestampFudge => ~ HasKey(t, FudgedKey(t, ts))
<1> DEFINE Stops(k) == /\ \A j \in ts .. (k - 1) : HasKey(t, j)
                       /\ k < ts + maxTimestampFudge => ~ HasKey(t, k)
           T == {i \in Nat : i = maxTimestampFudge \/ ~ HasKey(t, ts + i)}
<1>1. ts \in Int /\ maxTimestampFudge \in Nat
  BY StorageTreeAssumption
<1>2. T \in SUBSET Nat /\ maxTimestampFudge \in T
  BY <1>1
<1>3. PICK i \in T : \A k \in T : i <= k
  <2> HIDE DEF T
  <2> QED BY <1>2, LeastNumber
<1>4. i \in Nat /\ i <= maxTimestampFudge
  BY <1>2, <1>3
<1>5. ASSUME NEW j \in ts .. (ts + i - 1) PROVE HasKey(t, j)
  <2>1. j - ts \in Nat /\ ~ (i <= j - ts) /\ ts + (j - ts) = j
    BY <1>1, <1>4
  <2>2. j - ts \notin T
    BY <1>3, <2>1
  <2> QED BY <2>1, <2>2
<1>6. ts + i < ts + maxTimestampFudge => ~ HasKey(t, ts + i)
  BY <1>1, <1>3
<1>7. ts + i \in ts .. (ts + maxTimestampFudge) /\ Stops(ts + i)
  BY <1>1, <1>4, <1>5, <1>6
<1> DEFINE k == CHOOSE k \in ts .. (ts + maxTimestampFudge) : Stops(k)
<1>8. k \in ts .. (ts + maxTimestampFudge) /\ Stops(k)
  BY <1>7, Zenon
<1>9. FudgedKey(t, ts) = k
  BY DEF FudgedKey
<1> HIDE DEF k
<1> QED BY <1>8, <1>9

\* Of a full tree the left-most entry goes, before the new one is put.
LEMMA MakingRoom ==
  ASSUME StorageInv,
         NEW kept, kept = IF Size(root) >= maxPerSource THEN RemoveLeft(root) ELSE root
  PROVE  /\ kept \in Trees /\ WellFormed(kept)
         /\ EntriesOf(kept) \subseteq EntriesOf(root)
         /\ Size(kept) \in Nat /\ Size(kept) < maxPerSource
         /\ IF Size(root) >= maxPerSource
            THEN \E e \in EntriesOf(root) :
                   /\ \A x \in EntriesOf(root) : x # e => e.key < x.key
                   /\ EntriesOf(kept) = EntriesOf(root) \ {e}
            ELSE kept = root
<1>1. /\ root \in Trees /\ WellFormed(root) /\ Size(root) <= maxPerSource
      /\ maxPerSource \in Nat \ {0}
  BY StorageTreeAssumption DEF StorageInv, TypeOK
<1>2. /\ Size(root) = Cardinality(EntriesOf(root)) /\ IsFiniteSet(EntriesOf(root))
      /\ Size(root) \in Nat
  BY <1>1, KeysAreUnique, FS_CardinalityType
<1>3. CASE Size(root) >= maxPerSource
  <2>1. root # {} /\ kept = RemoveLeft(root)
    BY <1>1, <1>3, FS_EmptySet DEF Size
  <2>2. /\ kept \in Trees /\ WellFormed(kept)
        /\ \E e \in EntriesOf(root) :
             /\ \A x \in EntriesOf(root) : x # e => e.key < x.key
             /\ EntriesOf(kept) = EntriesOf(root) \ {e}
    BY <1>1, <2>1, RemoveLeftIs
  <2>3. PICK e \in EntriesOf(root) : EntriesOf(kept) = EntriesOf(root) \ {e}
    BY <2>2
  <2>4. Size(kept) = Cardinality(EntriesOf(kept))
    BY <2>2, KeysAreUnique
  <2>5. Cardinality(EntriesOf(root) \ {e}) = Cardinality(EntriesOf(root)) - 1
    BY <1>2, <2>3, FS_RemoveElement
  <2>6. Size(kept) = Size(root) - 1
    BY <1>2, <2>3, <2>4, <2>5
  <2>7. Size(kept) \in Nat /\ Size(kept) < maxPerSource
    BY <1>1, <1>2, <1>3, <2>6
  <2> QED BY <1>3, <2>2, <2>3, <2>7
<1>4. CASE ~ (Size(root) >= maxPerSource)
  <2>1. Size(root) < maxPerSource
    BY <1>1, <1>2, <1>4
  <2> QED BY <1>1, <1>2, <1>4, <2>1
<1> QED BY <1>3, <1>4

\* What insertOrSwap makes of the tree.
LEMMA InsertIs ==
  ASSUME StorageInv, NEW ts \in Timestamps, NEW kind \in Kinds, Insert(ts, kind)
  PROVE  \E kept \in Trees, key \in ts .. (ts + maxTimestampFudge), e \in Entries :
           /\ e = [key |-> key, timestamp |-> ts, kind |-> kind]
           /\ WellFormed(kept) /\ EntriesOf(kept) \subseteq EntriesOf(root)
           /\ Size(kept) = Cardinality(EntriesOf(kept)) /\ Size(kept) < maxPerSource
           /\ IF Size(root) >= maxPerSource
              THEN \E o \in EntriesOf(root) :
                     /\ \A x \in EntriesOf(root) : x # o => o.key < x.key
                     /\ EntriesOf(kept) = EntriesOf(root) \ {o}
              ELSE kept = root
           /\ \A j \in ts .. (key - 1) : HasKey(kept, j)
           /\ key < ts + maxTimestampFudge => ~ HasKey(kept, key)
           /\ root' \in Trees /\ WellFormed(root')
           /\ EntriesOf(root') = {x \in EntriesOf(kept) : x.key # key} \cup {e}
<1> DEFINE kept == IF Size(root) >= maxPerSource THEN RemoveLeft(root) ELSE root
           key == FudgedKey(kept, ts)
           e == [key |-> key, timestamp |-> ts, kind |-> kind]
<1>1. root' = Put(kept, e)
  BY DEF Insert
<1>2. kept = IF Size(root) >= maxPerSource THEN RemoveLeft(root) ELSE root
  OBVIOUS
<1> HIDE DEF kept
<1>3. /\ kept \in Trees /\ WellFormed(kept)
      /\ EntriesOf(kept) \subseteq EntriesOf(root)
      /\ Size(kept) < maxPerSource
      /\ IF Size(root) >= maxPerSource
         THEN \E o \in EntriesOf(root) :
                /\ \A x \in EntriesOf(root) : x # o => o.key < x.key
                /\ EntriesOf(kept) = EntriesOf(root) \ {o}
         ELSE kept = root
  BY <1>2, MakingRoom
<1>4. /\ key \in ts .. (ts + maxTimestampFudge)
      /\ \A j \in ts .. (key - 1) : HasKey(kept, j)
      /\ key < ts + maxTimestampFudge => ~ HasKey(kept, key)
  BY <1>3, FudgedKeyIs
<1> HIDE DEF key
<1>5. e \in Entries /\ e.key = key
  BY <1>4, StorageTreeAssumption DEF Entries
<1> HIDE DEF e
<1>6. /\ root' \in Trees /\ WellFormed(root')
      /\ EntriesOf(root') = {x \in EntriesOf(kept) : x.key # e.key} \cup {e}
  BY <1>1, <1>3, <1>5, PutIs
<1>7. Size(kept) = Cardinality(EntriesOf(kept))
  BY <1>3, KeysAreUnique
<1>8. EntriesOf(root') = {x \in EntriesOf(kept) : x.key # key} \cup {e}
  BY <1>5, <1>6
<1>9. e = [key |-> key, timestamp |-> ts, kind |-> kind]
  BY DEF e
<1>a. kept \in Trees /\ key \in ts .. (ts + maxTimestampFudge) /\ e \in Entries
  BY <1>3, <1>4, <1>5
<1> USE <1>a
<1> WITNESS kept \in Trees, key \in ts .. (ts + maxTimestampFudge), e \in Entries
<1> QED BY <1>3, <1>4, <1>6, <1>7, <1>8, <1>9
\* insertOrSwap keeps the tree well-formed and within maxPerSource.
LEMMA InsertKeeps ==
  ASSUME StorageInv, NEW ts \in Timestamps, NEW kind \in Kinds, Insert(ts, kind)
  PROVE  StorageInv'
<1>1. PICK kept \in Trees, key \in ts .. (ts + maxTimestampFudge), e \in Entries :
        /\ e = [key |-> key, timestamp |-> ts, kind |-> kind]
        /\ EntriesOf(kept) \subseteq EntriesOf(root)
        /\ Size(kept) = Cardinality(EntriesOf(kept)) /\ Size(kept) < maxPerSource
        /\ root' \in Trees /\ WellFormed(root')
        /\ EntriesOf(root') = {x \in EntriesOf(kept) : x.key # key} \cup {e}
  BY InsertIs
<1>2. ts \in Int /\ maxTimestampFudge \in Nat /\ maxPerSource \in Nat
  BY StorageTreeAssumption
<1>3. \A x \in EntriesOf(root') : x.timestamp <= x.key
  <2>1. e.timestamp <= e.key
    BY <1>1, <1>2
  <2> QED BY <1>1, <2>1 DEF StorageInv
<1>4. Size(root') <= maxPerSource
  <2> DEFINE others == {x \in EntriesOf(kept) : x.key # key}
  <2>1. IsFiniteSet(EntriesOf(root))
    BY KeysAreUnique DEF StorageInv, TypeOK
  <2>2. IsFiniteSet(EntriesOf(kept))
    BY <1>1, <2>1, FS_Subset
  <2>3. others \in SUBSET EntriesOf(kept)
    OBVIOUS
  <2>4. EntriesOf(root') = others \cup {e}
    BY <1>1
  <2> HIDE DEF others
  <2>5. IsFiniteSet(others) /\ Cardinality(others) <= Cardinality(EntriesOf(kept))
    BY <2>2, <2>3, FS_Subset
  <2>6. Cardinality(others) \in Nat /\ Cardinality(EntriesOf(kept)) \in Nat
    BY <2>2, <2>5, FS_CardinalityType
  <2>c. Cardinality(others \cup {e}) =
          IF e \in others THEN Cardinality(others) ELSE Cardinality(others) + 1
    BY <2>5, FS_AddElement
  <2>7. Cardinality(others \cup {e}) <= Cardinality(others) + 1
    BY <2>6, <2>c
  <2>8. Size(root') = Cardinality(others \cup {e})
    BY <1>1, <2>4, KeysAreUnique
  <2>9. IsFiniteSet(others \cup {e})
    BY <2>5, FS_AddElement
  <2>a. Cardinality(others \cup {e}) \in Nat
    BY <2>9, FS_CardinalityType
  <2> QED BY <1>1, <1>2, <2>5, <2>6, <2>7, <2>8, <2>a
<1>5. puts' \in 0 .. MaxPuts
  BY StorageTreeAssumption DEF Insert, StorageInv, TypeOK
<1> QED BY <1>1, <1>3, <1>4, <1>5 DEF StorageInv, TypeOK

\* removeOldestEnvelope does.
LEMMA RemoveKeeps ==
  ASSUME StorageInv, RemoveOldest
  PROVE  /\ StorageInv'
         /\ \E e \in EntriesOf(root) :
              /\ \A x \in EntriesOf(root) : x # e => e.key < x.key
              /\ EntriesOf(root') = EntriesOf(root) \ {e}
<1>1. root \in Trees /\ WellFormed(root) /\ root # {}
  BY DEF StorageInv, TypeOK, RemoveOldest, IsEmpty, Empty
<1>2. /\ root' \in Trees /\ WellFormed(root')
      /\ \E e \in EntriesOf(root) :
           /\ \A x \in EntriesOf(root) : x # e => e.key < x.key
           /\ EntriesOf(root') = EntriesOf(root) \ {e}
  BY <1>1, RemoveLeftIs DEF RemoveOldest
<1>3. EntriesOf(root') \in SUBSET EntriesOf(root)
  BY <1>2
<1>4. Size(root') <= maxPerSource
  <2>1. IsFiniteSet(EntriesOf(root)) /\ Size(root) = Cardinality(EntriesOf(root))
    BY <1>1, KeysAreUnique
  <2>2. IsFiniteSet(EntriesOf(root')) /\ Size(root') = Cardinality(EntriesOf(root'))
    BY <1>2, KeysAreUnique
  <2>3. Cardinality(EntriesOf(root')) <= Cardinality(EntriesOf(root))
    BY <1>3, <2>1, FS_Subset
  <2>4. Cardinality(EntriesOf(root')) \in Nat /\ Cardinality(EntriesOf(root)) \in Nat
    BY <2>1, <2>2, FS_CardinalityType
  <2> QED BY <2>1, <2>2, <2>3, <2>4, StorageTreeAssumption DEF StorageInv, TypeOK
<1>5. StorageInv'
  BY <1>2, <1>3, <1>4 DEF StorageInv, TypeOK, RemoveOldest
<1> QED BY <1>2, <1>5

\* An empty storage.
LEMMA StorageInit == Init => StorageInv
<1> SUFFICES ASSUME Init PROVE StorageInv
  OBVIOUS
<1>1. root = {} /\ puts = 0
  BY DEF Init, Empty
<1>2. {} \in Trees /\ EntriesOf({}) = {} /\ Size({}) = 0 /\ WellFormed({})
  BY FS_EmptySet, WellFormedDef DEF Trees, EntriesOf, Size
<1> QED BY <1>1, <1>2, StorageTreeAssumption DEF StorageInv, TypeOK

\* Steps of something else.
LEMMA StorageUnchanged == StorageInv /\ UNCHANGED vars => StorageInv'
  BY DEF StorageInv, TypeOK, vars

\* Every step of a storage keeps what is claimed of it.
LEMMA StorageNext == StorageInv /\ [Next]_vars => StorageInv'
<1> SUFFICES ASSUME StorageInv, [Next]_vars PROVE StorageInv'
  OBVIOUS
<1>1. ASSUME NEW ts \in Timestamps, NEW kind \in Kinds, Insert(ts, kind)
      PROVE  StorageInv'
  BY <1>1, InsertKeeps
<1>2. CASE RemoveOldest
  BY <1>2, RemoveKeeps
<1>3. CASE UNCHANGED vars
  BY <1>3, StorageUnchanged
<1> QED BY <1>1, <1>2, <1>3 DEF Next, Done

\* However envelopes are inserted and removed, the tree of a storage remains as
\* flat as an AVL tree is, its entries in the order of their keys, and has no
\* more than maxPerSource of them.
THEOREM TreeCorrect == Spec => []TypeOK
<1>1. StorageInv => TypeOK
  BY DEF StorageInv
<1> QED BY <1>1, StorageInit, StorageNext, PTL DEF Spec
-----------------------------------------------------------------------------
(* The storage as a bounded cache *)

\* What the cache has of an entry.
Kept(e) == [key |-> e.key, timestamp |-> e.timestamp]

KeptOf(t) == {Kept(e) : e \in EntriesOf(t)}

\* Keys tell the entries apart there, too.
LEMMA KeptIs ==
  ASSUME NEW t \in Trees, WellFormed(t)
  PROVE  /\ IsFiniteSet(KeptOf(t)) /\ Cardinality(KeptOf(t)) = Size(t)
         /\ \A k : Cache!Taken(KeptOf(t), k) <=> HasKey(t, k)
<1> DEFINE f == [e \in EntriesOf(t) |-> Kept(e)]
<1>1. /\ \A x, y \in EntriesOf(t) : x.key = y.key => x = y
      /\ IsFiniteSet(EntriesOf(t)) /\ Size(t) = Cardinality(EntriesOf(t))
  BY KeysAreUnique
<1>2. f \in Bijection(EntriesOf(t), KeptOf(t))
  <2>1. \A x, y \in EntriesOf(t) : Kept(x) = Kept(y) => x = y
    BY <1>1 DEF Kept
  <2>2. f \in [EntriesOf(t) -> KeptOf(t)]
    BY DEF KeptOf
  <2>3. \A x, y \in EntriesOf(t) : f[x] = f[y] => x = y
    BY <2>1
  <2>4. \A k \in KeptOf(t) : \E x \in EntriesOf(t) : f[x] = k
    BY DEF KeptOf
  <2> HIDE DEF f
  <2> QED BY <2>2, <2>3, <2>4 DEF Bijection, Injection, Surjection, IsInjective
<1>3. IsFiniteSet(KeptOf(t)) /\ Cardinality(KeptOf(t)) = Cardinality(EntriesOf(t))
  BY <1>1, <1>2, FS_Bijection DEF ExistsBijection
<1>4. ASSUME NEW k PROVE Cache!Taken(KeptOf(t), k) <=> HasKey(t, k)
  <2>1. \A e : Kept(e).key = e.key
    BY DEF Kept
  <2>2. ASSUME HasKey(t, k) PROVE Cache!Taken(KeptOf(t), k)
    <3>1. PICK e \in EntriesOf(t) : e.key = k
      BY <2>2 DEF HasKey
    <3>2. Kept(e) \in KeptOf(t) /\ Kept(e).key = k
      BY <2>1, <3>1 DEF KeptOf
    <3> QED BY <3>2 DEF Cache!Taken
  <2>3. ASSUME Cache!Taken(KeptOf(t), k) PROVE HasKey(t, k)
    BY <2>1, <2>3 DEF Cache!Taken, HasKey, KeptOf
  <2> QED BY <2>2, <2>3
<1> QED BY <1>1, <1>3, <1>4

\* Contents of the one source.
LEMMA ContentsAre == Contents = [s \in {"source"} |-> KeptOf(root)]
  BY DEF Contents, KeptOf, Kept

\* Replacing what a key has in a tree is an addition to the cache.
LEMMA PutIsAddition ==
  ASSUME NEW t \in Trees, WellFormed(t), NEW ts \in Timestamps,
         NEW key \in ts .. (ts + maxTimestampFudge),
         \A j \in ts .. (key - 1) : HasKey(t, j),
         key < ts + maxTimestampFudge => ~ HasKey(t, key),
         NEW e, e.key = key, e.timestamp = ts,
         NEW u, EntriesOf(u) = {x \in EntriesOf(t) : x.key # key} \cup {e}
  PROVE  KeptOf(u) \in Cache!Additions(KeptOf(t), ts)
<1> DEFINE Free(j) == Cache!Taken(KeptOf(t), j) =>
                        /\ j = ts + maxTimestampFudge
                        /\ \A i \in ts .. j : Cache!Taken(KeptOf(t), i)
<1>1. ts \in Int /\ maxTimestampFudge \in Nat /\ key \in Int
  BY StorageTreeAssumption
<1>2. Free(key)
  <2> SUFFICES ASSUME HasKey(t, key)
               PROVE  key = ts + maxTimestampFudge /\ \A i \in ts .. key : HasKey(t, i)
    BY KeptIs
  <2>1. key = ts + maxTimestampFudge
    BY <1>1
  <2>2. ASSUME NEW i \in ts .. key PROVE HasKey(t, i)
    <3>1. CASE i = key
      BY <3>1
    <3>2. CASE i # key
      <4>1. i \in ts .. (key - 1)
        BY <1>1, <3>2
      <4> QED BY <4>1
    <3> QED BY <3>1, <3>2
  <2> QED BY <2>1, <2>2
<1>3. KeptOf(u) = {x \in KeptOf(t) : x.key # key} \cup {[key |-> key, timestamp |-> ts]}
  BY DEF KeptOf, Kept
<1>4. key \in {j \in ts .. (ts + maxTimestampFudge) : Free(j)}
  BY <1>2
<1> QED BY <1>3, <1>4 DEF Cache!Additions
\* Taking the entry with the least key is taking the oldest one of the cache.
LEMMA LeastIsOldest ==
  ASSUME NEW t \in Trees, WellFormed(t), NEW o \in EntriesOf(t),
         \A x \in EntriesOf(t) : x # o => o.key < x.key,
         NEW u, EntriesOf(u) = EntriesOf(t) \ {o}
  PROVE  Kept(o) \in Cache!Oldest(KeptOf(t)) /\ KeptOf(u) = KeptOf(t) \ {Kept(o)}
<1>1. EntriesOf(t) \subseteq Entries /\ \A x, y \in EntriesOf(t) : x.key = y.key => x = y
  BY KeysAreUnique
<1>2. o.key \in Int
  BY <1>1 DEF Entries
<1>3. \A x : Kept(x).key = x.key
  BY DEF Kept
<1>4. ASSUME NEW f \in KeptOf(t) PROVE Kept(o).key <= f.key
  <2>1. PICK x \in EntriesOf(t) : f = Kept(x)
    BY DEF KeptOf
  <2>2. f.key = x.key /\ x.key \in Int /\ Kept(o).key = o.key
    BY <1>1, <1>3, <2>1 DEF Entries
  <2> QED BY <1>2, <2>2
<1>5. Kept(o) \in KeptOf(t)
  BY DEF KeptOf
<1>6. \A x \in EntriesOf(t) : Kept(x) = Kept(o) => x = o
  <2> TAKE x \in EntriesOf(t)
  <2> HAVE Kept(x) = Kept(o)
  <2>1. x.key = o.key
    BY <1>3
  <2> QED BY <1>1, <2>1
<1>7. KeptOf(u) = KeptOf(t) \ {Kept(o)}
  BY <1>6 DEF KeptOf
<1> QED BY <1>4, <1>5, <1>7 DEF Cache!Oldest

\* The cache counts a source's envelopes as the tree does.
LEMMA SameCardinality == \A S : Cache!Cardinality(S) = Cardinality(S)
BY DEF Cache!Cardinality, Cardinality, Cache!IsFiniteSet, IsFiniteSet

\* An insertion is an addition to the cache, which a full source makes room for.
LEMMA InsertImplements ==
  ASSUME StorageInv, NEW ts \in Timestamps, NEW kind \in Kinds, Insert(ts, kind)
  PROVE  Cache!Add("source")
<1>1. PICK kept \in Trees, key \in ts .. (ts + maxTimestampFudge), e \in Entries :
        /\ e = [key |-> key, timestamp |-> ts, kind |-> kind]
        /\ WellFormed(kept)
        /\ IF Size(root) >= maxPerSource
           THEN \E o \in EntriesOf(root) :
                  /\ \A x \in EntriesOf(root) : x # o => o.key < x.key
                  /\ EntriesOf(kept) = EntriesOf(root) \ {o}
           ELSE kept = root
        /\ \A j \in ts .. (key - 1) : HasKey(kept, j)
        /\ key < ts + maxTimestampFudge => ~ HasKey(kept, key)
        /\ EntriesOf(root') = {x \in EntriesOf(kept) : x.key # key} \cup {e}
  BY InsertIs
<1>2. /\ root \in Trees /\ WellFormed(root)
      /\ Cardinality(KeptOf(root)) = Size(root) /\ Size(root) \in Nat
      /\ maxPerSource \in Nat
  <2>1. root \in Trees /\ WellFormed(root)
    BY DEF StorageInv, TypeOK
  <2>2. IsFiniteSet(KeptOf(root)) /\ Cardinality(KeptOf(root)) = Size(root)
    BY <2>1, KeptIs
  <2> QED BY <2>1, <2>2, FS_CardinalityType, StorageTreeAssumption
<1> DEFINE c == KeptOf(root)
           new == KeptOf(root')
<1>3. Contents["source"] = c /\ Contents' = [Contents EXCEPT !["source"] = new]
  <2>1. Contents' = [s \in {"source"} |-> new]
    BY DEF Contents, KeptOf, Kept
  <2> QED BY <2>1, ContentsAre
<1>4. new \in Cache!Additions(KeptOf(kept), ts)
  <2>1. e.key = key /\ e.timestamp = ts
    BY <1>1
  <2> QED BY <1>1, <2>1, PutIsAddition
<1>5. CASE Size(root) >= maxPerSource
  <2>1. PICK o \in EntriesOf(root) :
          /\ \A x \in EntriesOf(root) : x # o => o.key < x.key
          /\ EntriesOf(kept) = EntriesOf(root) \ {o}
    BY <1>1, <1>5
  <2>2. Kept(o) \in Cache!Oldest(c) /\ KeptOf(kept) = c \ {Kept(o)}
    BY <1>2, <2>1, LeastIsOldest
  <2>3. Cardinality(Contents["source"]) >= maxPerSource
    BY <1>2, <1>3, <1>5
  <2>4. Kept(o) \in Cache!Oldest(Contents["source"])
    BY <1>3, <2>2
  <2>5. new \in Cache!Additions(Contents["source"] \ {Kept(o)}, ts)
    BY <1>3, <1>4, <2>2
  <2> HIDE DEF c, new
  <2> QED BY <1>3, <2>3, <2>4, <2>5, SameCardinality DEF Cache!Add
<1>6. CASE ~ (Size(root) >= maxPerSource)
  <2>1. KeptOf(kept) = c
    BY <1>1, <1>6
  <2>2. Cardinality(Contents["source"]) < maxPerSource
    BY <1>2, <1>3, <1>6
  <2>3. new \in Cache!Additions(Contents["source"], ts)
    BY <1>3, <1>4, <2>1
  <2> HIDE DEF c, new
  <2> QED BY <1>3, <2>2, <2>3, SameCardinality DEF Cache!Add
<1> QED BY <1>5, <1>6

\* A removal of the left-most entry is an eviction.
LEMMA RemoveImplements ==
  ASSUME StorageInv, RemoveOldest
  PROVE  Cache!Evict("source")
<1>1. PICK o \in EntriesOf(root) :
        /\ \A x \in EntriesOf(root) : x # o => o.key < x.key
        /\ EntriesOf(root') = EntriesOf(root) \ {o}
  BY RemoveKeeps
<1>2. Kept(o) \in Cache!Oldest(KeptOf(root)) /\ KeptOf(root') = KeptOf(root) \ {Kept(o)}
  BY <1>1, LeastIsOldest DEF StorageInv, TypeOK
<1>3. Contents' = [s \in {"source"} |-> KeptOf(root')]
  BY DEF Contents, KeptOf, Kept
<1>4. /\ Contents["source"] = KeptOf(root)
      /\ Contents' = [Contents EXCEPT !["source"] = KeptOf(root) \ {Kept(o)}]
  BY <1>2, <1>3, ContentsAre
<1> QED BY <1>2, <1>4 DEF Cache!Evict

\* The tree of a storage, with its keys beside the timestamps, implements the
\* cache that loses a source's oldest envelope first and replaces one only where
\* all keys behind a timestamp are taken: what Store takes a tree for.
THEOREM TreeRefinement == Spec => ImplementsCache
<1>1. Init => Cache!Init
  BY DEF Init, Cache!Init, Contents, EntriesOf, Empty
<1>2. StorageInv /\ [Next]_vars => [Cache!Next]_Contents
  <2> SUFFICES ASSUME StorageInv, [Next]_vars PROVE [Cache!Next]_Contents
    OBVIOUS
  <2>1. ASSUME NEW ts \in Timestamps, NEW kind \in Kinds, Insert(ts, kind)
        PROVE  Cache!Next
    BY <2>1, InsertImplements DEF Cache!Next
  <2>2. CASE RemoveOldest
    BY <2>2, RemoveImplements DEF Cache!Next
  <2>3. CASE UNCHANGED vars
    BY <2>3 DEF vars, Contents
  <2> QED BY <2>1, <2>2, <2>3 DEF Next, Done
<1> QED BY <1>1, <1>2, StorageInit, StorageNext, PTL DEF Spec, ImplementsCache, Cache!Spec
-----------------------------------------------------------------------------
(* The traversals of Get *)

Outcomes == [stop : BOOLEAN, res : Seq(Entries)]

Traversals == [Seq(Entries) -> Outcomes]

\* What Get may be asked for.
IsQuery(q) == q.start \in Int /\ q.end \in Int /\ q.limit \in Nat \ {0}

\* The subtree that a traversal comes to first, and the other one.
Near(n, descending) == IF descending THEN Right(n) ELSE Left(n)

Far(n, descending) == IF descending THEN Left(n) ELSE Right(n)

\* An entry the traversal has yet to come to what is asked for, and one that is
\* past it.
Skipped(e, q, descending) ==
  IF descending THEN e.timestamp >= q.end ELSE e.timestamp < q.start

Beyond(e, q, descending) ==
  IF descending THEN e.timestamp < q.start ELSE e.timestamp >= q.end

\* What a traversal makes of a node, given what it makes of what is below.
Here(e, q, descending, res) ==
  IF Beyond(e, q, descending) THEN [stop |-> TRUE, res |-> res] ELSE Collect(e, q, res)

Step(n, q, descending, res, near, far) ==
  IF Skipped(Top(n).entry, q, descending) THEN far[res]
  ELSE IF near[res].stop THEN near[res]
  ELSE IF /\ Here(Top(n).entry, q, descending, near[res].res).stop
          /\ ~InFudgeSequence(n, Far(n, descending))
       THEN Here(Top(n).entry, q, descending, near[res].res)
  ELSE far[Here(Top(n).entry, q, descending, near[res].res).res]

Traverses(f, q, descending) ==
  /\ f \in [Trees -> Traversals]
  /\ \A res \in Seq(Entries) : f[{}][res] = [stop |-> FALSE, res |-> res]
  /\ \A n \in Trees, res \in Seq(Entries) :
       n # {} => f[n][res] = Step(n, q, descending, res,
                                  f[Near(n, descending)], f[Far(n, descending)])

\* The definition of both traversals.
Defines(f, q, descending) ==
  f = [n \in Trees |-> [res \in Seq(Entries) |->
         IF IsEmpty(n) THEN [stop |-> FALSE, res |-> res]
         ELSE Step(n, q, descending, res, f[Near(n, descending)], f[Far(n, descending)])]]

\* A node adds an envelope to those that are collected, or none.
LEMMA HereIsOutcome ==
  ASSUME NEW q, IsQuery(q), NEW descending \in BOOLEAN, NEW e \in Entries,
         NEW res \in Seq(Entries)
  PROVE  Here(e, q, descending, res) \in Outcomes
<1>1. Append(res, e) \in Seq(Entries)
  OBVIOUS
<1>2. (~(q.filter = "name" /\ ~Matches(e, q.filter)) /\ Len(res) >= q.limit) \in BOOLEAN
  OBVIOUS
<1>3. Collect(e, q, res) \in Outcomes
  BY <1>1 DEF Collect, Outcomes
<1> QED BY <1>3 DEF Here, Outcomes

\* So does a subtree.
LEMMA StepIsOutcome ==
  ASSUME NEW q, IsQuery(q), NEW descending \in BOOLEAN, NEW n \in Trees, n # {},
         NEW res \in Seq(Entries), NEW near \in Traversals, NEW far \in Traversals
  PROVE  Step(n, q, descending, res, near, far) \in Outcomes
<1>1. Top(n).entry \in Entries
  BY NodeParts
<1>2. near[res] \in Outcomes /\ near[res].res \in Seq(Entries) /\ far[res] \in Outcomes
  BY DEF Traversals, Outcomes
<1> DEFINE here == Here(Top(n).entry, q, descending, near[res].res)
<1>3. here \in Outcomes
  BY <1>1, <1>2, HereIsOutcome
<1>4. here.res \in Seq(Entries)
  <2> HIDE DEF here
  <2> QED BY <1>3 DEF Outcomes
<1>5. far[here.res] \in Outcomes
  <2> HIDE DEF here
  <2> QED BY <1>4 DEF Traversals
<1>6. Step(n, q, descending, res, near, far) \in {far[res], near[res], here, far[here.res]}
  BY DEF Step
<1> HIDE DEF here
<1> QED BY <1>2, <1>3, <1>5, <1>6

\* There is a function that the traversals' recursion defines.
LEMMA TraversalExists ==
  ASSUME NEW q, IsQuery(q), NEW descending \in BOOLEAN
  PROVE  \E g : Defines(g, q, descending)
<1> DEFINE b == [res \in Seq(Entries) |-> [stop |-> FALSE, res |-> res]]
           H(n, x, y, res) ==
             Step(n, q, descending, res, IF descending THEN y ELSE x,
                  IF descending THEN x ELSE y)
           G == [n \in Trees |-> [x \in Traversals |-> [y \in Traversals |->
                  IF n = {} THEN b ELSE [res \in Seq(Entries) |-> H(n, x, y, res)]]]]
<1>1. b \in Traversals
  BY DEF Traversals, Outcomes
<1>2. ASSUME NEW n \in Trees, n # {}, NEW x \in Traversals, NEW y \in Traversals
      PROVE  [res \in Seq(Entries) |-> H(n, x, y, res)] \in Traversals
  <2>1. \A res \in Seq(Entries) : H(n, x, y, res) \in Outcomes
    BY <1>2, StepIsOutcome
  <2> HIDE DEF H
  <2> QED BY <2>1 DEF Traversals
<1> HIDE DEF H, b
<1>3. G \in [Trees -> [Traversals -> [Traversals -> Traversals]]]
  BY <1>1, <1>2
<1>4. \A n \in Trees, x, y \in Traversals :
        n # {} => G[n][x][y] = [res \in Seq(Entries) |-> H(n, x, y, res)]
  OBVIOUS
<1> HIDE DEF G
<1>5. PICK g \in [Trees -> Traversals] : Recursive(g, b, G, Trees)
  BY <1>1, <1>3, TypedRecursion
<1>6. ASSUME NEW n \in Trees
      PROVE  g[n] = [res \in Seq(Entries) |->
                       IF IsEmpty(n) THEN [stop |-> FALSE, res |-> res]
                       ELSE Step(n, q, descending, res,
                                 g[Near(n, descending)], g[Far(n, descending)])]
  <2>1. g[n] = IF n = {} THEN b ELSE G[n][g[Left(n)]][g[Right(n)]]
    BY <1>5 DEF Recursive
  <2>2. CASE n = {}
    BY <2>1, <2>2 DEF IsEmpty, Empty, b
  <2>3. CASE n # {}
    <3>1. g[Left(n)] \in Traversals /\ g[Right(n)] \in Traversals
      BY <2>3, SubtreesSmaller
    <3>2. g[n] = [res \in Seq(Entries) |-> H(n, g[Left(n)], g[Right(n)], res)]
      BY <1>4, <2>1, <2>3, <3>1
    <3>3. ASSUME NEW res
          PROVE  H(n, g[Left(n)], g[Right(n)], res) =
                 Step(n, q, descending, res, g[Near(n, descending)], g[Far(n, descending)])
      <4>1. /\ (IF descending THEN g[Right(n)] ELSE g[Left(n)]) = g[Near(n, descending)]
            /\ (IF descending THEN g[Left(n)] ELSE g[Right(n)]) = g[Far(n, descending)]
        BY DEF Near, Far
      <4> QED BY <4>1 DEF H
    <3>4. ~ IsEmpty(n)
      BY <2>3 DEF IsEmpty, Empty
    <3> QED BY <3>2, <3>3, <3>4
  <2> QED BY <2>2, <2>3
<1>7. g = [n \in Trees |-> g[n]]
  OBVIOUS
<1>8. Defines(g, q, descending)
  BY <1>6, <1>7 DEF Defines
<1> QED BY <1>8

\* What the recursion defines collects envelopes.
LEMMA TraversalTyped ==
  ASSUME NEW q, IsQuery(q), NEW descending \in BOOLEAN, NEW f, Defines(f, q, descending)
  PROVE  Traverses(f, q, descending)
<1>0. {} \in Trees
  BY FS_EmptySet DEF Trees
<1>1. \A n \in Trees : f[n] = [res \in Seq(Entries) |->
         IF IsEmpty(n) THEN [stop |-> FALSE, res |-> res]
         ELSE Step(n, q, descending, res, f[Near(n, descending)], f[Far(n, descending)])]
  BY DEF Defines
<1>2. \A res \in Seq(Entries) : f[{}][res] = [stop |-> FALSE, res |-> res]
  BY <1>0, <1>1 DEF IsEmpty, Empty
<1>3. \A n \in Trees, res \in Seq(Entries) :
        n # {} => f[n][res] = Step(n, q, descending, res,
                                   f[Near(n, descending)], f[Far(n, descending)])
  BY <1>1 DEF IsEmpty, Empty
<1> DEFINE D == {n \in Trees : f[n] \in Traversals}
<1>4. {} \in D
  <2>1. f[{}] = [res \in Seq(Entries) |-> [stop |-> FALSE, res |-> res]]
    BY <1>0, <1>1 DEF IsEmpty, Empty
  <2>2. [res \in Seq(Entries) |-> [stop |-> FALSE, res |-> res]] \in Traversals
    BY DEF Traversals, Outcomes
  <2> QED BY <1>0, <2>1, <2>2
<1>5. ASSUME NEW n \in Trees, n # {}, Left(n) \in D, Right(n) \in D
      PROVE  n \in D
  <2>1. f[Near(n, descending)] \in Traversals /\ f[Far(n, descending)] \in Traversals
    BY <1>5 DEF Near, Far
  <2>2. \A res \in Seq(Entries) :
          Step(n, q, descending, res, f[Near(n, descending)], f[Far(n, descending)]) \in Outcomes
    BY <1>5, <2>1, StepIsOutcome
  <2>3. f[n] = [res \in Seq(Entries) |->
                  Step(n, q, descending, res, f[Near(n, descending)], f[Far(n, descending)])]
    BY <1>1, <1>5 DEF IsEmpty, Empty
  <2>4. f[n] \in Traversals
    BY <2>2, <2>3 DEF Traversals
  <2> QED BY <2>4
<1>6. \A n \in Trees : f[n] \in Traversals
  <2>1. Trees \subseteq D
    <3> HIDE DEF D
    <3> QED BY <1>4, <1>5, TreeInduction
  <2> QED BY <2>1
<1>7. f \in [Trees -> Traversals]
  BY <1>1, <1>6 DEF Defines
<1> QED BY <1>2, <1>3, <1>7 DEF Traverses

\* treeAscTraverse is such a traversal.
LEMMA AscTraverses ==
  ASSUME NEW q, IsQuery(q), NEW t
  PROVE  \E f : Traverses(f, q, FALSE) /\ Asc(t, q) = f[t][<<>>]
<1> DEFINE Ascends(f, n, res) ==
             IF IsEmpty(n) THEN [stop |-> FALSE, res |-> res]
             ELSE IF Top(n).entry.timestamp < q.start THEN f[Right(n)][res]
             ELSE
               LET before == f[Left(n)][res]
                   here == IF Top(n).entry.timestamp >= q.end
                           THEN [stop |-> TRUE, res |-> before.res]
                           ELSE Collect(Top(n).entry, q, before.res)
               IN IF before.stop THEN before
                  ELSE IF here.stop /\ ~InFudgeSequence(n, Right(n)) THEN here
                  ELSE f[Right(n)][here.res]
           AscDefines(f) == f = [n \in Trees |-> [res \in Seq(Entries) |-> Ascends(f, n, res)]]
           StepOf(f, n, res) ==
             IF IsEmpty(n) THEN [stop |-> FALSE, res |-> res]
             ELSE Step(n, q, FALSE, res, f[Near(n, FALSE)], f[Far(n, FALSE)])
<1>1. \A f, n, res : StepOf(f, n, res) = Ascends(f, n, res)
  BY DEF Step, Here, Skipped, Beyond, Near, Far
<1>2. \A f : Defines(f, q, FALSE) <=>
               f = [n \in Trees |-> [res \in Seq(Entries) |-> StepOf(f, n, res)]]
  BY DEF Defines
<1>3. \A f : Asc(t, q) = (CHOOSE g : AscDefines(g))[t][<<>>]
  BY DEF Asc
<1> HIDE DEF Ascends, StepOf
<1>4. \A f : Defines(f, q, FALSE) <=> AscDefines(f)
  <2> TAKE f
  <2>1. [n \in Trees |-> [res \in Seq(Entries) |-> StepOf(f, n, res)]]
          = [n \in Trees |-> [res \in Seq(Entries) |-> Ascends(f, n, res)]]
    BY <1>1
  <2> QED BY <1>2, <2>1
<1> HIDE DEF AscDefines
<1> DEFINE f == CHOOSE g : AscDefines(g)
<1>5. AscDefines(f)
  BY <1>4, TraversalExists
<1>6. Asc(t, q) = f[t][<<>>]
  BY <1>3
<1> HIDE DEF f
<1> QED BY <1>4, <1>5, <1>6, TraversalTyped

\* So is treeDescTraverse.
LEMMA DescTraverses ==
  ASSUME NEW q, IsQuery(q), NEW t
  PROVE  \E f : Traverses(f, q, TRUE) /\ Desc(t, q) = f[t][<<>>]
<1> DEFINE Descends(f, n, res) ==
             IF IsEmpty(n) THEN [stop |-> FALSE, res |-> res]
             ELSE IF Top(n).entry.timestamp >= q.end THEN f[Left(n)][res]
             ELSE
               LET before == f[Right(n)][res]
                   here == IF Top(n).entry.timestamp < q.start
                           THEN [stop |-> TRUE, res |-> before.res]
                           ELSE Collect(Top(n).entry, q, before.res)
               IN IF before.stop THEN before
                  ELSE IF here.stop /\ ~InFudgeSequence(n, Left(n)) THEN here
                  ELSE f[Left(n)][here.res]
           DescDefines(f) == f = [n \in Trees |-> [res \in Seq(Entries) |-> Descends(f, n, res)]]
           StepOf(f, n, res) ==
             IF IsEmpty(n) THEN [stop |-> FALSE, res |-> res]
             ELSE Step(n, q, TRUE, res, f[Near(n, TRUE)], f[Far(n, TRUE)])
<1>1. \A f, n, res : StepOf(f, n, res) = Descends(f, n, res)
  BY DEF Step, Here, Skipped, Beyond, Near, Far
<1>2. \A f : Defines(f, q, TRUE) <=>
               f = [n \in Trees |-> [res \in Seq(Entries) |-> StepOf(f, n, res)]]
  BY DEF Defines
<1>3. \A f : Desc(t, q) = (CHOOSE g : DescDefines(g))[t][<<>>]
  BY DEF Desc
<1> HIDE DEF Descends, StepOf
<1>4. \A f : Defines(f, q, TRUE) <=> DescDefines(f)
  <2> TAKE f
  <2>1. [n \in Trees |-> [res \in Seq(Entries) |-> StepOf(f, n, res)]]
          = [n \in Trees |-> [res \in Seq(Entries) |-> Descends(f, n, res)]]
    BY <1>1
  <2> QED BY <1>2, <2>1
<1> HIDE DEF DescDefines
<1> DEFINE f == CHOOSE g : DescDefines(g)
<1>5. DescDefines(f)
  BY <1>4, TraversalExists
<1>6. Desc(t, q) = f[t][<<>>]
  BY <1>3
<1> HIDE DEF f
<1> QED BY <1>4, <1>5, <1>6, TraversalTyped

\* What Get returns is what its traversal has collected.
LEMMA GetTraverses ==
  ASSUME NEW q, IsQuery(q), NEW descending \in BOOLEAN
  PROVE  \E f : /\ Traverses(f, q, descending)
                /\ Get(q, descending) = f[root][<<>>].res
BY AscTraverses, DescTraverses DEF Get
-----------------------------------------------------------------------------
(* What a traversal collects *)

WantedOf(t, q) ==
  {e \in EntriesOf(t) :
     q.start <= e.timestamp /\ e.timestamp < q.end /\ Matches(e, q.filter)}

\* What out has beyond res.
Added(res, out) == {out[i] : i \in Len(res) + 1 .. Len(out)}

\* out goes on from res with envelopes that are wanted, in the order asked for.
GoesOnFrom(t, q, descending, res, out) ==
  /\ out \in Seq(Entries) /\ Len(res) <= Len(out)
  /\ \A i \in 1 .. Len(res) : out[i] = res[i]
  /\ \A i \in Len(res) + 1 .. Len(out) : out[i] \in WantedOf(t, q)
  /\ \A i, j \in Len(res) + 1 .. Len(out) : i < j => Before(out[i], out[j], descending)

\* c is b, or b and the envelope of the node.
AddsNode(t, q, b, c) ==
  c = b \/ (Top(t).entry \in WantedOf(t, q) /\ c = Append(b, Top(t).entry))

\* The subtrees of a node are before and behind it in the order asked for.
LEMMA NearAndFar ==
  ASSUME NEW descending \in BOOLEAN, NEW t \in Trees, t # {}, WellFormed(t)
  PROVE  /\ Near(t, descending) \in Trees /\ WellFormed(Near(t, descending))
         /\ Far(t, descending) \in Trees /\ WellFormed(Far(t, descending))
         /\ EntriesOf(t) = EntriesOf(Near(t, descending)) \cup {Top(t).entry}
                             \cup EntriesOf(Far(t, descending))
         /\ \A x \in EntriesOf(Near(t, descending)) : Before(x, Top(t).entry, descending)
         /\ \A x \in EntriesOf(Far(t, descending)) : Before(Top(t).entry, x, descending)
<1>1. /\ Left(t) \in Trees /\ Right(t) \in Trees /\ Top(t).entry \in Entries
      /\ WellFormed(Left(t)) /\ WellFormed(Right(t))
      /\ Fits(Left(t), Top(t).entry, Right(t))
      /\ EntriesOf(t) = EntriesOf(Left(t)) \cup {Top(t).entry} \cup EntriesOf(Right(t))
  BY Opened
<1>2. EntriesOf(Left(t)) \subseteq Entries /\ EntriesOf(Right(t)) \subseteq Entries
  BY <1>1, NodeParts DEF EntriesOf
<1>3. \A x \in Entries : x.key \in Int
  BY DEF Entries
<1>4. /\ \A x \in EntriesOf(Left(t)) : x.key < Top(t).entry.key /\ Top(t).entry.key > x.key
      /\ \A x \in EntriesOf(Right(t)) : x.key > Top(t).entry.key /\ Top(t).entry.key < x.key
  BY <1>1, <1>2, <1>3 DEF Fits
<1>5. CASE descending
  BY <1>1, <1>4, <1>5 DEF Near, Far, Before
<1>6. CASE ~ descending
  BY <1>1, <1>4, <1>6 DEF Near, Far, Before
<1> QED BY <1>5, <1>6

\* Before is an order of entries.
LEMMA BeforeIsOrder ==
  ASSUME NEW descending \in BOOLEAN
  PROVE  \A x, y, z \in Entries :
           /\ ~ Before(x, x, descending)
           /\ Before(x, y, descending) /\ Before(y, z, descending) => Before(x, z, descending)
           /\ Before(x, y, descending) => ~ Before(y, x, descending)
           /\ x.key # y.key => Before(x, y, descending) \/ Before(y, x, descending)
<1>1. \A x \in Entries : x.key \in Int
  BY DEF Entries
<1> QED BY <1>1 DEF Before

\* A traversal goes from one subtree over the node to the other one.
LEMMA InSequence ==
  ASSUME NEW q, NEW descending \in BOOLEAN, NEW t \in Trees, t # {}, WellFormed(t),
         NEW res \in Seq(Entries),
         NEW b, GoesOnFrom(Near(t, descending), q, descending, res, b),
         NEW c, AddsNode(t, q, b, c),
         NEW o, GoesOnFrom(Far(t, descending), q, descending, c, o)
  PROVE  /\ GoesOnFrom(t, q, descending, res, o)
         /\ Added(res, o) = Added(res, b) \cup Added(b, c) \cup Added(c, o)
<1> DEFINE near == Near(t, descending)
           far == Far(t, descending)
           top == Top(t).entry
<1>1. /\ EntriesOf(t) = EntriesOf(near) \cup {top} \cup EntriesOf(far)
      /\ \A x \in EntriesOf(near) : Before(x, top, descending)
      /\ \A x \in EntriesOf(far) : Before(top, x, descending)
  BY NearAndFar
<1>2. EntriesOf(t) \subseteq Entries /\ top \in Entries
  BY NodeParts DEF EntriesOf
<1> HIDE DEF near, far, top
<1>3. \A x \in EntriesOf(near), y \in EntriesOf(far) : Before(x, y, descending)
  BY <1>1, <1>2, BeforeIsOrder
<1>4. WantedOf(near, q) \subseteq WantedOf(t, q) /\ WantedOf(far, q) \subseteq WantedOf(t, q)
  BY <1>1 DEF WantedOf
<1>5. /\ b \in Seq(Entries) /\ Len(res) \in Nat /\ Len(b) \in Nat /\ Len(res) <= Len(b)
      /\ \A i \in 1 .. Len(res) : b[i] = res[i]
      /\ \A i \in Len(res) + 1 .. Len(b) : b[i] \in WantedOf(near, q)
      /\ \A i, j \in Len(res) + 1 .. Len(b) : i < j => Before(b[i], b[j], descending)
  BY DEF GoesOnFrom, near
<1>6. /\ c \in Seq(Entries) /\ Len(c) \in Nat /\ Len(b) <= Len(c) /\ Len(c) <= Len(b) + 1
      /\ \A i \in 1 .. Len(b) : c[i] = b[i]
      /\ \A i \in Len(b) + 1 .. Len(c) : c[i] = top /\ c[i] \in WantedOf(t, q)
  <2>1. c = b \/ (top \in WantedOf(t, q) /\ c = Append(b, top))
    BY DEF top, AddsNode
  <2>2. CASE c = b
    BY <1>5, <2>2
  <2>3. CASE top \in WantedOf(t, q) /\ c = Append(b, top)
    <3>1. c \in Seq(Entries) /\ Len(c) = Len(b) + 1 /\ c[Len(b) + 1] = top
      BY <1>2, <1>5, <2>3
    <3>2. \A i \in 1 .. Len(b) : c[i] = b[i]
      BY <1>2, <1>5, <2>3
    <3>3. \A i \in Len(b) + 1 .. Len(c) : i = Len(b) + 1
      BY <1>5, <3>1
    <3> QED BY <1>5, <2>3, <3>1, <3>2, <3>3
  <2> QED BY <2>1, <2>2, <2>3
<1>7. /\ o \in Seq(Entries) /\ Len(o) \in Nat /\ Len(c) <= Len(o)
      /\ \A i \in 1 .. Len(c) : o[i] = c[i]
      /\ \A i \in Len(c) + 1 .. Len(o) : o[i] \in WantedOf(far, q)
      /\ \A i, j \in Len(c) + 1 .. Len(o) : i < j => Before(o[i], o[j], descending)
  BY DEF GoesOnFrom, far
<1>8. /\ \A i \in Len(res) + 1 .. Len(b) : o[i] = b[i] /\ o[i] \in WantedOf(near, q)
      /\ \A i \in Len(b) + 1 .. Len(c) : o[i] = c[i] /\ o[i] = top /\ o[i] \in WantedOf(t, q)
      /\ \A i \in 1 .. Len(res) : o[i] = res[i]
  BY <1>5, <1>6, <1>7
<1>9. \A i \in Len(res) + 1 .. Len(o) :
        i \in Len(res) + 1 .. Len(b) \/ i \in Len(b) + 1 .. Len(c) \/ i \in Len(c) + 1 .. Len(o)
  BY <1>5, <1>6, <1>7
<1>a. \A i \in Len(res) + 1 .. Len(o) : o[i] \in WantedOf(t, q)
  BY <1>4, <1>7, <1>8, <1>9
<1>b. WantedOf(near, q) \subseteq EntriesOf(near) /\ WantedOf(far, q) \subseteq EntriesOf(far)
  BY DEF WantedOf
<1>c. ASSUME NEW i \in Len(res) + 1 .. Len(o), NEW j \in Len(res) + 1 .. Len(o), i < j
      PROVE  Before(o[i], o[j], descending)
  <2>1. CASE j \in Len(res) + 1 .. Len(b)
    <3>1. i \in Len(res) + 1 .. Len(b)
      BY <1>5, <1>7, <1>c, <2>1
    <3> QED BY <1>5, <1>8, <1>c, <2>1, <3>1
  <2>2. CASE j \in Len(b) + 1 .. Len(c)
    <3>1. i \in Len(res) + 1 .. Len(b)
      BY <1>5, <1>6, <1>7, <1>c, <2>2
    <3> QED BY <1>1, <1>8, <1>b, <2>2, <3>1
  <2>3. CASE j \in Len(c) + 1 .. Len(o)
    <3>1. o[j] \in EntriesOf(far)
      BY <1>7, <1>b, <2>3
    <3>2. CASE i \in Len(res) + 1 .. Len(b)
      BY <1>3, <1>8, <1>b, <3>1, <3>2
    <3>3. CASE i \in Len(b) + 1 .. Len(c)
      BY <1>1, <1>8, <3>1, <3>3
    <3>4. CASE i \in Len(c) + 1 .. Len(o)
      BY <1>7, <1>c, <2>3, <3>4
    <3> QED BY <1>9, <3>2, <3>3, <3>4
  <2> QED BY <1>9, <2>1, <2>2, <2>3
<1>d. GoesOnFrom(t, q, descending, res, o)
  BY <1>5, <1>6, <1>7, <1>8, <1>a, <1>c DEF GoesOnFrom
<1>e. Added(res, o) = Added(res, b) \cup Added(b, c) \cup Added(c, o)
  <2>1. \A i \in Len(res) + 1 .. Len(o) : o[i] \in Added(res, b) \cup Added(b, c) \cup Added(c, o)
    BY <1>8, <1>9 DEF Added
  <2>2. /\ \A i \in Len(res) + 1 .. Len(b) : b[i] = o[i] /\ i \in Len(res) + 1 .. Len(o)
        /\ \A i \in Len(b) + 1 .. Len(c) : c[i] = o[i] /\ i \in Len(res) + 1 .. Len(o)
        /\ \A i \in Len(c) + 1 .. Len(o) : i \in Len(res) + 1 .. Len(o)
    BY <1>5, <1>6, <1>7, <1>8
  <2>3. \A x \in Added(res, b) \cup Added(b, c) \cup Added(c, o) : x \in Added(res, o)
    BY <2>2 DEF Added
  <2> QED BY <2>1, <2>3 DEF Added
<1> QED BY <1>d, <1>e

\* Keys and timestamps agree.
Agreeing(t) ==
  \A e, f \in EntriesOf(t) : e.key < f.key => e.timestamp <= f.timestamp

\* A traversal that has added new has them all; or it has stopped, the limit
\* reached, behind a key that is a timestamp.
Completes(t, q, descending, new, out) ==
  \/ /\ WantedOf(t, q) \subseteq new
     /\ out.stop => \E e \in EntriesOf(t) : Beyond(e, q, descending)
  \/ /\ out.stop /\ Len(out.res) >= q.limit
     /\ \E e \in EntriesOf(t) :
          /\ e.key = e.timestamp
          /\ \A g \in new : ~ Before(e, g, descending)
          /\ \A f \in WantedOf(t, q) \ new : Before(e, f, descending)

\* Nothing is wanted before what is skipped, nor after what is beyond.
LEMMA ShortcutsSkipNothing ==
  ASSUME NEW q, IsQuery(q), NEW descending \in BOOLEAN, NEW t \in Trees, Agreeing(t)
  PROVE  /\ \A x, y \in EntriesOf(t) :
              Before(x, y, descending) =>
                /\ Skipped(y, q, descending) => Skipped(x, q, descending)
                /\ Beyond(x, q, descending) => Beyond(y, q, descending)
         /\ \A x \in EntriesOf(t) :
              Skipped(x, q, descending) \/ Beyond(x, q, descending) => x \notin WantedOf(t, q)
<1>1. EntriesOf(t) \subseteq Entries
  BY NodeParts DEF EntriesOf
<1>2. \A x \in Entries : x.key \in Int /\ x.timestamp \in Int
  BY StorageTreeAssumption DEF Entries
<1>3. \A x, y \in EntriesOf(t) : x.key < y.key => x.timestamp <= y.timestamp
  BY DEF Agreeing
<1>4. \A x, y \in EntriesOf(t) :
        Before(x, y, descending) =>
          /\ Skipped(y, q, descending) => Skipped(x, q, descending)
          /\ Beyond(x, q, descending) => Beyond(y, q, descending)
  BY <1>1, <1>2, <1>3 DEF Before, Skipped, Beyond, IsQuery
<1>5. \A x \in EntriesOf(t) :
        Skipped(x, q, descending) \/ Beyond(x, q, descending) => x \notin WantedOf(t, q)
  BY <1>1, <1>2 DEF Skipped, Beyond, IsQuery, WantedOf
<1> QED BY <1>4, <1>5

\* What is collected of a node that is not skipped.
LEMMA HereIs ==
  ASSUME NEW q, IsQuery(q), NEW descending \in BOOLEAN, NEW t \in Trees, t # {},
         NEW b \in Seq(Entries), ~ Skipped(Top(t).entry, q, descending),
         Top(t).entry \in EntriesOf(t)
  PROVE  LET here == Here(Top(t).entry, q, descending, b) IN
         /\ here.res \in Seq(Entries)
         /\ \/ Top(t).entry \notin WantedOf(t, q) /\ here.res = b
            \/ Top(t).entry \in WantedOf(t, q) /\ here.res = Append(b, Top(t).entry)
         /\ Added(b, here.res) = {Top(t).entry} \cap WantedOf(t, q)
         /\ here.stop => Beyond(Top(t).entry, q, descending) \/ Len(here.res) >= q.limit
<1> DEFINE e == Top(t).entry
           here == Here(e, q, descending, b)
<1>1. e \in Entries /\ e.timestamp \in Int
  BY NodeParts, StorageTreeAssumption DEF Entries
<1>2. ~ Skipped(e, q, descending) /\ e \in EntriesOf(t)
  OBVIOUS
<1> HIDE DEF e
<1>3. /\ \/ e \notin WantedOf(t, q) /\ here.res = b
         \/ e \in WantedOf(t, q) /\ here.res = Append(b, e)
      /\ here.stop => Beyond(e, q, descending) \/ Len(here.res) >= q.limit
  <2>1. CASE Beyond(e, q, descending)
    <3>1. here = [stop |-> TRUE, res |-> b]
      BY <2>1 DEF Here
    <3>2. e \notin WantedOf(t, q)
      BY <1>1, <2>1 DEF Beyond, WantedOf, IsQuery
    <3> QED BY <2>1, <3>1, <3>2
  <2>2. CASE ~ Beyond(e, q, descending)
    <3>1. q.start <= e.timestamp /\ e.timestamp < q.end
      BY <1>1, <1>2, <2>2 DEF Beyond, Skipped, IsQuery
    <3>2. e \in WantedOf(t, q) <=> Matches(e, q.filter)
      BY <1>2, <3>1 DEF WantedOf
    <3>3. here = Collect(e, q, b)
      BY <2>2 DEF Here
    <3> HIDE DEF here
    <3>4. CASE Matches(e, q.filter)
      BY <3>2, <3>3, <3>4 DEF Collect
    <3>5. CASE ~ Matches(e, q.filter)
      BY <3>2, <3>3, <3>5 DEF Collect
    <3> QED BY <3>4, <3>5
  <2> QED BY <2>1, <2>2
<1> HIDE DEF here
<1>4. CASE e \notin WantedOf(t, q) /\ here.res = b
  <2>1. Added(b, b) = {}
    BY DEF Added
  <2> QED BY <1>3, <1>4, <2>1 DEF e, here
<1>5. CASE e \in WantedOf(t, q) /\ here.res = Append(b, e)
  <2>1. /\ Append(b, e) \in Seq(Entries) /\ Len(Append(b, e)) = Len(b) + 1
        /\ Append(b, e)[Len(b) + 1] = e /\ Len(b) \in Nat
    BY <1>1
  <2>2. Len(b) + 1 .. Len(b) + 1 = {Len(b) + 1}
    BY <2>1
  <2>3. Added(b, Append(b, e)) = {e}
    BY <2>1, <2>2 DEF Added
  <2> QED BY <1>3, <1>5, <2>1, <2>3 DEF e, here
<1> QED BY <1>3, <1>4, <1>5

\* What a traversal makes of a tree, when it makes that of its subtrees.
Collects(f, q, descending, t) ==
  \A res \in Seq(Entries) :
    /\ GoesOnFrom(t, q, descending, res, f[t][res].res)
    /\ Agreeing(t) =>
         Completes(t, q, descending, Added(res, f[t][res].res), f[t][res])

\* A subtree that is left out adds nothing.
LEMMA NothingAdded ==
  ASSUME NEW q, NEW descending \in BOOLEAN, NEW t, NEW res \in Seq(Entries)
  PROVE  GoesOnFrom(t, q, descending, res, res) /\ Added(res, res) = {}
BY DEF GoesOnFrom, Added

\* A node and its subtrees.
LEMMA CollectsOnward ==
  ASSUME NEW q, IsQuery(q), NEW descending \in BOOLEAN, NEW f, Traverses(f, q, descending),
         NEW t \in Trees, t # {}, WellFormed(t),
         Collects(f, q, descending, Near(t, descending)),
         Collects(f, q, descending, Far(t, descending))
  PROVE  Collects(f, q, descending, t)
<1> SUFFICES ASSUME NEW res \in Seq(Entries)
             PROVE  /\ GoesOnFrom(t, q, descending, res, f[t][res].res)
                    /\ Agreeing(t) =>
                         Completes(t, q, descending, Added(res, f[t][res].res), f[t][res])
  BY DEF Collects
<1> DEFINE near == Near(t, descending)
           far == Far(t, descending)
           top == Top(t).entry
           out == f[t][res]
           before == f[near][res]
           b == before.res
           here == Here(top, q, descending, b)
           beyond == f[far][here.res]
<1> SUFFICES /\ GoesOnFrom(t, q, descending, res, out.res)
             /\ Agreeing(t) => Completes(t, q, descending, Added(res, out.res), out)
  OBVIOUS
<1>i. ASSUME NEW b1, GoesOnFrom(near, q, descending, res, b1),
             NEW c1, c1 = b1 \/ (top \in WantedOf(t, q) /\ c1 = Append(b1, top)),
             NEW o1, GoesOnFrom(far, q, descending, c1, o1)
      PROVE  /\ GoesOnFrom(t, q, descending, res, o1)
             /\ Added(res, o1) = Added(res, b1) \cup Added(b1, c1) \cup Added(c1, o1)
  <2>1. AddsNode(t, q, b1, c1)
    BY <1>i DEF AddsNode
  <2>2. GoesOnFrom(Near(t, descending), q, descending, res, b1)
    BY <1>i
  <2>3. GoesOnFrom(Far(t, descending), q, descending, c1, o1)
    BY <1>i
  <2> HIDE DEF near, far, top, out, before, b, here, beyond
  <2> QED BY <2>1, <2>2, <2>3, InSequence
<1>1. /\ near \in Trees /\ far \in Trees
      /\ EntriesOf(t) = EntriesOf(near) \cup {top} \cup EntriesOf(far)
      /\ \A x \in EntriesOf(near) : Before(x, top, descending)
      /\ \A x \in EntriesOf(far) : Before(top, x, descending)
  BY NearAndFar
<1>2. EntriesOf(t) \subseteq Entries /\ top \in Entries /\ top \in EntriesOf(t)
  BY <1>1, NodeParts DEF EntriesOf
<1>3. \A x \in EntriesOf(near), y \in EntriesOf(far) : Before(x, y, descending)
  <2> HIDE DEF near, far, top
  <2> QED BY <1>1, <1>2, BeforeIsOrder
<1>4. WantedOf(t, q) = WantedOf(near, q) \cup ({top} \cap WantedOf(t, q)) \cup WantedOf(far, q)
  <2> HIDE DEF near, far, top
  <2> QED BY <1>1 DEF WantedOf
<1>5. WantedOf(near, q) \subseteq EntriesOf(near) /\ WantedOf(far, q) \subseteq EntriesOf(far)
  BY DEF WantedOf
<1>6. Agreeing(t) => Agreeing(near) /\ Agreeing(far)
  <2> HIDE DEF near, far, top
  <2> QED BY <1>1 DEF Agreeing
<1>7. /\ before \in Outcomes /\ b \in Seq(Entries)
      /\ GoesOnFrom(near, q, descending, res, b)
      /\ Agreeing(near) => Completes(near, q, descending, Added(res, b), before)
  <2>1. before \in Outcomes
    <3>1. f[near] \in Traversals
      BY <1>1 DEF Traverses
    <3> HIDE DEF near
    <3> QED BY <3>1 DEF Traversals
  <2>2. b \in Seq(Entries)
    <3> HIDE DEF before
    <3> QED BY <2>1 DEF Outcomes
  <2> QED BY <2>1, <2>2 DEF Collects
<1>8. ~ Skipped(top, q, descending) =>
        /\ here.res \in Seq(Entries)
        /\ \/ top \notin WantedOf(t, q) /\ here.res = b
           \/ top \in WantedOf(t, q) /\ here.res = Append(b, top)
        /\ Added(b, here.res) = {top} \cap WantedOf(t, q)
        /\ here.stop => Beyond(top, q, descending) \/ Len(here.res) >= q.limit
  <2> HIDE DEF before
  <2> QED BY <1>2, <1>7, HereIs
<1>9. out = IF Skipped(top, q, descending) THEN f[far][res]
            ELSE IF before.stop THEN before
            ELSE IF here.stop /\ ~InFudgeSequence(t, far) THEN here
            ELSE beyond
  BY DEF Traverses, Step
<1>s. Agreeing(t) =>
        /\ \A x, y \in EntriesOf(t) :
              Before(x, y, descending) =>
                /\ Skipped(y, q, descending) => Skipped(x, q, descending)
                /\ Beyond(x, q, descending) => Beyond(y, q, descending)
        /\ \A x \in EntriesOf(t) :
              Skipped(x, q, descending) \/ Beyond(x, q, descending) => x \notin WantedOf(t, q)
  BY ShortcutsSkipNothing
<1>o. \A x, y, z \in EntriesOf(t) :
        /\ ~ Before(x, x, descending)
        /\ Before(x, y, descending) /\ Before(y, z, descending) => Before(x, z, descending)
        /\ Before(x, y, descending) => ~ Before(y, x, descending)
  BY <1>2, BeforeIsOrder
<1>a. CASE Skipped(top, q, descending)
  <2>1. out = f[far][res]
    BY <1>9, <1>a
  <2>2. /\ GoesOnFrom(far, q, descending, res, out.res)
        /\ Agreeing(far) => Completes(far, q, descending, Added(res, out.res), out)
    BY <2>1 DEF Collects
  <2> HIDE DEF out
  <2>3. GoesOnFrom(near, q, descending, res, res) /\ Added(res, res) = {}
    BY NothingAdded
  <2> HIDE DEF near, far, top
  <2>4. GoesOnFrom(t, q, descending, res, out.res)
    BY <2>2, <2>3, <1>i
  <2>5. ASSUME Agreeing(t) PROVE Completes(t, q, descending, Added(res, out.res), out)
    <3>1. WantedOf(t, q) = WantedOf(far, q)
      <4>1. \A x \in WantedOf(near, q) : x \notin WantedOf(t, q)
        BY <1>1, <1>2, <1>5, <1>a, <1>s, <2>5
      <4> QED BY <1>2, <1>4, <1>a, <1>s, <2>5, <4>1
    <3>2. Completes(far, q, descending, Added(res, out.res), out)
      BY <1>6, <2>2, <2>5
    <3> QED BY <1>1, <3>1, <3>2 DEF Completes
  <2> QED BY <2>4, <2>5
<1>b. CASE ~ Skipped(top, q, descending) /\ before.stop
  <2>1. out = before
    BY <1>9, <1>b
  <2> HIDE DEF out, before
  <2>2. GoesOnFrom(far, q, descending, b, b) /\ Added(b, b) = {}
    BY <1>7, NothingAdded
  <2> HIDE DEF near, far, top, b
  <2>3. GoesOnFrom(t, q, descending, res, b)
    BY <1>7, <2>2, <1>i
  <2>4. out.res = b /\ out.stop
    BY <2>1, <1>b DEF b
  <2>5. ASSUME Agreeing(t) PROVE Completes(t, q, descending, Added(res, b), out)
    <3>1. Completes(near, q, descending, Added(res, b), out)
      BY <1>6, <1>7, <2>1, <2>5
    <3>2. CASE /\ WantedOf(near, q) \subseteq Added(res, b)
               /\ \E e \in EntriesOf(near) : Beyond(e, q, descending)
      <4>1. PICK e \in EntriesOf(near) : Beyond(e, q, descending)
        BY <3>2
      <4>2. \A x \in {top} \cup EntriesOf(far) : x \notin WantedOf(t, q)
        BY <1>1, <1>3, <1>s, <2>5, <4>1
      <4>3. WantedOf(t, q) = WantedOf(near, q)
        BY <1>4, <1>5, <4>2
      <4> QED BY <1>1, <3>2, <4>1, <4>3 DEF Completes
    <3>3. CASE /\ Len(out.res) >= q.limit
               /\ \E e \in EntriesOf(near) :
                    /\ e.key = e.timestamp
                    /\ \A g \in Added(res, b) : ~ Before(e, g, descending)
                    /\ \A x \in WantedOf(near, q) \ Added(res, b) : Before(e, x, descending)
      <4>1. PICK e \in EntriesOf(near) :
              /\ e.key = e.timestamp
              /\ \A g \in Added(res, b) : ~ Before(e, g, descending)
              /\ \A x \in WantedOf(near, q) \ Added(res, b) : Before(e, x, descending)
        BY <3>3
      <4>2. \A x \in WantedOf(t, q) \ Added(res, b) : Before(e, x, descending)
        BY <1>1, <1>3, <1>4, <1>5, <4>1
      <4> QED BY <1>1, <2>4, <3>3, <4>1, <4>2 DEF Completes
    <3> QED BY <2>4, <3>1, <3>2, <3>3 DEF Completes
  <2> QED BY <2>3, <2>4, <2>5
<1>c. ASSUME ~ Skipped(top, q, descending), ~ before.stop, Agreeing(t)
      PROVE  WantedOf(near, q) \subseteq Added(res, b)
  <2> HIDE DEF near, before, b
  <2> QED BY <1>6, <1>7, <1>c DEF Completes
<1>g. \A g \in Added(res, b) : g \in EntriesOf(near)
  <2>1. \A i \in Len(res) + 1 .. Len(b) : b[i] \in WantedOf(near, q)
    BY <1>7 DEF GoesOnFrom
  <2> HIDE DEF near, b
  <2> QED BY <1>5, <2>1 DEF Added
<1>d. CASE /\ ~ Skipped(top, q, descending) /\ ~ before.stop
           /\ here.stop /\ ~InFudgeSequence(t, far)
  <2>1. out = here
    BY <1>9, <1>d
  <2> DEFINE c == here.res
  <2>2. /\ c \in Seq(Entries)
        /\ c = b \/ (top \in WantedOf(t, q) /\ c = Append(b, top))
        /\ Added(b, c) = {top} \cap WantedOf(t, q)
        /\ Beyond(top, q, descending) \/ Len(c) >= q.limit
    BY <1>8, <1>d
  <2>k. top.key = top.timestamp
    BY <1>d DEF InFudgeSequence
  <2>s. out.stop /\ out.res = c
    BY <2>1, <1>d
  <2> HIDE DEF out, before, here, b, c
  <2>3. GoesOnFrom(far, q, descending, c, c) /\ Added(c, c) = {}
    BY <2>2, NothingAdded
  <2> HIDE DEF near, far, top
  <2>4. /\ GoesOnFrom(t, q, descending, res, c)
        /\ Added(res, c) = Added(res, b) \cup ({top} \cap WantedOf(t, q))
    BY <1>7, <2>2, <2>3, <1>i
  <2>5. ASSUME Agreeing(t) PROVE Completes(t, q, descending, Added(res, c), out)
    <3>1. WantedOf(near, q) \subseteq Added(res, b)
      BY <1>c, <1>d, <2>5
    <3>2. CASE Beyond(top, q, descending)
      <4>1. \A x \in EntriesOf(far) : x \notin WantedOf(t, q)
        BY <1>1, <1>2, <1>s, <2>5, <3>2
      <4>2. WantedOf(t, q) \subseteq Added(res, c)
        BY <1>4, <1>5, <2>4, <3>1, <4>1
      <4> QED BY <1>2, <3>2, <4>2 DEF Completes
    <3>3. CASE Len(c) >= q.limit
      <4>1. \A g \in Added(res, c) : ~ Before(top, g, descending)
        BY <1>1, <1>2, <1>g, <1>o, <2>4
      <4>2. \A x \in WantedOf(t, q) \ Added(res, c) : Before(top, x, descending)
        BY <1>1, <1>4, <1>5, <2>4, <3>1
      <4> QED BY <1>2, <2>k, <2>s, <3>3, <4>1, <4>2 DEF Completes
    <3> QED BY <2>2, <3>2, <3>3
  <2> QED BY <2>4, <2>5, <2>s
<1>e. CASE /\ ~ Skipped(top, q, descending) /\ ~ before.stop
           /\ ~ (here.stop /\ ~InFudgeSequence(t, far))
  <2>1. out = beyond
    BY <1>9, <1>e
  <2> DEFINE c == here.res
  <2>2. /\ c \in Seq(Entries)
        /\ c = b \/ (top \in WantedOf(t, q) /\ c = Append(b, top))
        /\ Added(b, c) = {top} \cap WantedOf(t, q)
    BY <1>8, <1>e
  <2>3. /\ GoesOnFrom(far, q, descending, c, out.res)
        /\ Agreeing(far) => Completes(far, q, descending, Added(c, out.res), out)
    <3>1. out = f[far][c]
      BY <2>1
    <3> HIDE DEF out, c
    <3> QED BY <2>2, <3>1 DEF Collects
  <2> HIDE DEF out, before, here, b, c
  <2> DEFINE o == out.res
  <2> HIDE DEF near, far, top
  <2>4. /\ GoesOnFrom(t, q, descending, res, o)
        /\ Added(res, o) = Added(res, b) \cup ({top} \cap WantedOf(t, q)) \cup Added(c, o)
    BY <1>7, <2>2, <2>3, <1>i
  <2>5. ASSUME Agreeing(t) PROVE Completes(t, q, descending, Added(res, o), out)
    <3>1. WantedOf(near, q) \subseteq Added(res, b)
      BY <1>c, <1>e, <2>5
    <3>2. Completes(far, q, descending, Added(c, o), out)
      BY <1>6, <2>3, <2>5
    <3>3. WantedOf(t, q) \ Added(res, o) \subseteq WantedOf(far, q) \ Added(c, o)
      BY <1>4, <2>4, <3>1
    <3>4. CASE /\ WantedOf(far, q) \subseteq Added(c, o)
               /\ out.stop => \E e \in EntriesOf(far) : Beyond(e, q, descending)
      <4>1. WantedOf(t, q) \subseteq Added(res, o)
        BY <3>3, <3>4
      <4> QED BY <1>1, <3>4, <4>1 DEF Completes
    <3>5. CASE /\ out.stop /\ Len(o) >= q.limit
               /\ \E e \in EntriesOf(far) :
                    /\ e.key = e.timestamp
                    /\ \A g \in Added(c, o) : ~ Before(e, g, descending)
                    /\ \A x \in WantedOf(far, q) \ Added(c, o) : Before(e, x, descending)
      <4>1. PICK e \in EntriesOf(far) :
              /\ e.key = e.timestamp
              /\ \A g \in Added(c, o) : ~ Before(e, g, descending)
              /\ \A x \in WantedOf(far, q) \ Added(c, o) : Before(e, x, descending)
        BY <3>5
      <4>2. \A g \in Added(res, o) : ~ Before(e, g, descending)
        BY <1>1, <1>2, <1>3, <1>g, <1>o, <2>4, <4>1
      <4>3. \A x \in WantedOf(t, q) \ Added(res, o) : Before(e, x, descending)
        BY <3>3, <4>1
      <4> QED BY <1>1, <3>5, <4>1, <4>2, <4>3 DEF Completes
    <3> QED BY <3>2, <3>4, <3>5 DEF Completes
  <2> QED BY <2>4, <2>5
<1> HIDE DEF near, far, top, out, before, here, beyond
<1> QED BY <1>a, <1>b, <1>d, <1>e

\* What a traversal makes of a tree, in whatever shape it is.
LEMMA TreeCollects ==
  ASSUME NEW q, IsQuery(q), NEW descending \in BOOLEAN, NEW f, Traverses(f, q, descending),
         NEW t \in Trees, WellFormed(t)
  PROVE  Collects(f, q, descending, t)
<1> DEFINE D == {n \in Trees : WellFormed(n) => Collects(f, q, descending, n)}
<1>1. {} \in D
  <2>1. \A res \in Seq(Entries) : f[{}][res] = [stop |-> FALSE, res |-> res]
    BY DEF Traverses
  <2>2. \A res \in Seq(Entries) :
          GoesOnFrom({}, q, descending, res, res) /\ Added(res, res) = {}
    BY NothingAdded
  <2>3. WantedOf({}, q) = {} /\ {} \in Trees
    BY FS_EmptySet DEF WantedOf, EntriesOf, Trees
  <2>4. ASSUME NEW res \in Seq(Entries)
        PROVE  /\ GoesOnFrom({}, q, descending, res, f[{}][res].res)
               /\ Completes({}, q, descending, Added(res, f[{}][res].res), f[{}][res])
    <3> DEFINE out == f[{}][res]
    <3>1. out = [stop |-> FALSE, res |-> res]
      BY <2>1
    <3> HIDE DEF out
    <3>2. out.res = res /\ out.stop = FALSE
      BY <3>1
    <3>3. GoesOnFrom({}, q, descending, res, out.res)
      BY <2>2, <3>2
    <3>4. Completes({}, q, descending, Added(res, out.res), out)
      BY <2>3, <3>2 DEF Completes
    <3> QED BY <3>3, <3>4 DEF out
  <2>5. Collects(f, q, descending, {})
    BY <2>4 DEF Collects
  <2> QED BY <2>3, <2>5
<1>2. ASSUME NEW n \in Trees, n # {}, Left(n) \in D, Right(n) \in D
      PROVE  n \in D
  <2> SUFFICES ASSUME WellFormed(n) PROVE Collects(f, q, descending, n)
    OBVIOUS
  <2>1. WellFormed(Left(n)) /\ WellFormed(Right(n))
    BY <1>2, Opened
  <2>2. Collects(f, q, descending, Left(n)) /\ Collects(f, q, descending, Right(n))
    BY <1>2, <2>1
  <2>3. /\ Collects(f, q, descending, Near(n, descending))
        /\ Collects(f, q, descending, Far(n, descending))
    BY <2>2 DEF Near, Far
  <2> QED BY <1>2, <2>3, CollectsOnward
<1>3. Trees \subseteq D
  <2> HIDE DEF D
  <2> QED BY <1>1, <1>2, TreeInduction
<1> QED BY <1>3

Got(res) == {res[i] : i \in 1 .. Len(res)}

\* What Get returns of the envelopes that are wanted.
LEMMA GetIs ==
  ASSUME StorageInv, NEW q, IsQuery(q), NEW descending \in BOOLEAN, NEW res,
         res = Get(q, descending)
  PROVE  /\ res \in Seq(Entries)
         /\ \A i \in 1 .. Len(res) : res[i] \in Wanted(q)
         /\ \A i, j \in 1 .. Len(res) : i < j => Before(res[i], res[j], descending)
         /\ Monotone =>
              \/ Wanted(q) \subseteq Got(res)
              \/ /\ Len(res) >= q.limit
                 /\ \E e \in EntriesOf(root) :
                      /\ e.key = e.timestamp
                      /\ \A g \in Got(res) : ~ Before(e, g, descending)
                      /\ \A f \in Wanted(q) \ Got(res) : Before(e, f, descending)
<1>1. PICK f : Traverses(f, q, descending) /\ Get(q, descending) = f[root][<<>>].res
  BY GetTraverses
<1>2. Collects(f, q, descending, root)
  BY <1>1, TreeCollects DEF StorageInv, TypeOK
<1> DEFINE out == f[root][<<>>]
<1>3. /\ GoesOnFrom(root, q, descending, <<>>, out.res)
      /\ Agreeing(root) => Completes(root, q, descending, Added(<<>>, out.res), out)
  <2>1. <<>> \in Seq(Entries)
    OBVIOUS
  <2> QED BY <1>2, <2>1 DEF Collects
<1>4. out.res = res
  BY <1>1
<1> HIDE DEF out
<1>5. Agreeing(root) <=> Monotone
  BY DEF Agreeing, Monotone
<1>6. WantedOf(root, q) = Wanted(q)
  BY DEF WantedOf, Wanted
<1>7. res \in Seq(Entries) /\ Len(<<>>) + 1 .. Len(res) = 1 .. Len(res)
  BY <1>3, <1>4 DEF GoesOnFrom
<1>8. Added(<<>>, res) = Got(res)
  BY <1>7 DEF Added, Got
<1>9. /\ \A i \in 1 .. Len(res) : res[i] \in Wanted(q)
      /\ \A i, j \in 1 .. Len(res) : i < j => Before(res[i], res[j], descending)
  BY <1>3, <1>4, <1>6, <1>7 DEF GoesOnFrom
<1>a. Monotone => Completes(root, q, descending, Got(res), out)
  BY <1>3, <1>4, <1>5, <1>8
<1> QED BY <1>4, <1>6, <1>7, <1>9, <1>a DEF Completes

\* The queries that the properties are about.
LEMMA QueriesAreQueries ==
  ASSUME NEW q \in Queries
  PROVE  IsQuery(q)
<1>1. Bounds \subseteq Int
  <2>1. \A ts \in Timestamps : ts \in Int /\ ts + 1 \in Int
    BY StorageTreeAssumption
  <2> QED BY <2>1 DEF Bounds
<1>2. q.start \in Bounds /\ q.end \in Bounds /\ q.limit \in Limits
  BY DEF Queries
<1>3. \A limit \in Limits : limit \in Nat \ {0}
  BY StorageTreeAssumption
<1> QED BY <1>1, <1>2, <1>3 DEF IsQuery

\* What holds of every well-formed tree holds throughout.
LEMMA StorageInvariant == Spec => []StorageInv
BY StorageInit, StorageNext, PTL DEF Spec

\* However the tree came to its shape, Get's traversals, which leave out
\* subtrees and stop early, return only what is asked for, once and in order.
THEOREM GetReturnsWanted == Spec => []GetSound
<1>1. StorageInv => GetSound
  <2> SUFFICES ASSUME StorageInv, NEW q \in Queries, NEW descending \in BOOLEAN
               PROVE  LET res == Get(q, descending) IN
                      /\ \A i \in 1 .. Len(res) : res[i] \in Wanted(q)
                      /\ \A i \in 1 .. Len(res) - 1 : Before(res[i], res[i + 1], descending)
    BY DEF GetSound
  <2> DEFINE res == Get(q, descending)
  <2> HIDE DEF res
  <2>1. /\ res \in Seq(Entries)
        /\ \A i \in 1 .. Len(res) : res[i] \in Wanted(q)
        /\ \A i, j \in 1 .. Len(res) : i < j => Before(res[i], res[j], descending)
    BY QueriesAreQueries, GetIs DEF res
  <2>2. \A i \in 1 .. Len(res) - 1 :
          i \in 1 .. Len(res) /\ i + 1 \in 1 .. Len(res) /\ i < i + 1
    BY <2>1
  <2> QED BY <2>1, <2>2 DEF res
<1> QED BY <1>1, StorageInvariant, PTL

\* With keys and timestamps in the same order, what Get's traversals leave out
\* is not asked for: Get returns what comes first, all of it or the limit.
THEOREM GetReturnsFirst == Spec => []GetComplete
<1>1. StorageInv => GetComplete
  <2> SUFFICES ASSUME StorageInv, Monotone, NEW q \in Queries, NEW descending \in BOOLEAN
               PROVE  LET res == Get(q, descending)
                          got == {res[i] : i \in 1 .. Len(res)}
                          missed == Wanted(q) \ got
                      IN /\ missed # {} => Len(res) >= q.limit
                         /\ \A e \in got, f \in missed : Before(e, f, descending)
    BY DEF GetComplete
  <2> DEFINE res == Get(q, descending)
             missed == Wanted(q) \ Got(res)
  <2> HIDE DEF res
  <2>1. /\ res \in Seq(Entries)
        /\ \A i \in 1 .. Len(res) : res[i] \in Wanted(q)
        /\ \/ Wanted(q) \subseteq Got(res)
           \/ /\ Len(res) >= q.limit
              /\ \E e \in EntriesOf(root) :
                   /\ e.key = e.timestamp
                   /\ \A g \in Got(res) : ~ Before(e, g, descending)
                   /\ \A f \in Wanted(q) \ Got(res) : Before(e, f, descending)
    BY QueriesAreQueries, GetIs DEF res
  <2>2. /\ Got(res) \subseteq EntriesOf(root) /\ Wanted(q) \subseteq EntriesOf(root)
        /\ EntriesOf(root) \subseteq Entries
        /\ \A x, y \in EntriesOf(root) : x.key = y.key => x = y
    <3>1. EntriesOf(root) \subseteq Entries /\ \A x, y \in EntriesOf(root) : x.key = y.key => x = y
      BY KeysAreUnique DEF StorageInv, TypeOK
    <3>2. Wanted(q) \subseteq EntriesOf(root)
      BY DEF Wanted
    <3> QED BY <2>1, <3>1, <3>2 DEF Got
  <2>3. \A e \in Got(res), f \in missed : Before(e, f, descending)
    <3> SUFFICES ASSUME NEW g \in Got(res), NEW f \in missed PROVE Before(g, f, descending)
      OBVIOUS
    <3>1. PICK e \in EntriesOf(root) : ~ Before(e, g, descending) /\ Before(e, f, descending)
      BY <2>1
    <3>2. e \in Entries /\ g \in Entries /\ f \in Entries
      BY <2>2
    <3>3. CASE g = e
      BY <3>1, <3>3
    <3>4. CASE g # e
      <4>1. g.key # e.key
        BY <2>2, <3>4
      <4> QED BY <3>1, <3>2, <4>1, BeforeIsOrder
    <3> QED BY <3>3, <3>4
  <2> QED BY <2>1, <2>3 DEF res, Got
<1> QED BY <1>1, StorageInvariant, PTL

\* The envelopes of a storage, for the arithmetic of keys and timestamps.
LEMMA StoredEntries ==
  ASSUME StorageInv
  PROVE  /\ EntriesOf(root) \subseteq Entries
         /\ \A x \in EntriesOf(root) :
              x.key \in Int /\ x.timestamp \in Int /\ x.timestamp <= x.key
         /\ \A x, y \in EntriesOf(root) : x.key = y.key => x = y
<1>1. EntriesOf(root) \subseteq Entries /\ \A x, y \in EntriesOf(root) : x.key = y.key => x = y
  BY KeysAreUnique DEF StorageInv, TypeOK
<1>2. \A x \in Entries : x.key \in Int /\ x.timestamp \in Int
  BY StorageTreeAssumption DEF Entries
<1> QED BY <1>1, <1>2 DEF StorageInv

\* Where an envelope is missed whose timestamp one that is returned has, the
\* limit was reached behind a key that is a timestamp.
LEMMA SplitIs ==
  ASSUME StorageInv, Monotone, NEW q, IsQuery(q), NEW descending \in BOOLEAN,
         NEW f \in Split(q, descending)
  PROVE  LET res == Get(q, descending) IN
         /\ f \in EntriesOf(root) /\ res \in Seq(Entries)
         /\ Got(res) \subseteq EntriesOf(root)
         /\ \E g \in Got(res) : g.timestamp = f.timestamp
         /\ \E e \in EntriesOf(root) :
              /\ e.key = e.timestamp
              /\ \A g \in Got(res) : ~ Before(e, g, descending)
              /\ Before(e, f, descending)
<1> DEFINE res == Get(q, descending)
<1>1. f \in Wanted(q) \ Got(res) /\ \E g \in Got(res) : g.timestamp = f.timestamp
  BY DEF Split, Got
<1> HIDE DEF res
<1>2. /\ res \in Seq(Entries)
      /\ \A i \in 1 .. Len(res) : res[i] \in Wanted(q)
      /\ \/ Wanted(q) \subseteq Got(res)
         \/ \E e \in EntriesOf(root) :
              /\ e.key = e.timestamp
              /\ \A g \in Got(res) : ~ Before(e, g, descending)
              /\ \A x \in Wanted(q) \ Got(res) : Before(e, x, descending)
  BY GetIs DEF res
<1>3. Wanted(q) \subseteq EntriesOf(root)
  BY DEF Wanted
<1>4. Got(res) \subseteq EntriesOf(root)
  BY <1>2, <1>3 DEF Got
<1> QED BY <1>1, <1>2, <1>3, <1>4 DEF res

\* A descending Get ends before the first envelope of a timestamp or behind all
\* of them: isNodeAFudgeSequenceMember keeps the traversal going.
THEOREM DescendingKeepsGroups == Spec => []DescKeepsGroups
<1>1. StorageInv => DescKeepsGroups
  <2> SUFFICES ASSUME StorageInv, Monotone, NEW q \in Queries, NEW f \in Split(q, TRUE)
               PROVE  FALSE
    BY DEF DescKeepsGroups
  <2> DEFINE res == Get(q, TRUE)
  <2>1. /\ f \in EntriesOf(root) /\ Got(res) \subseteq EntriesOf(root)
        /\ \E g \in Got(res) : g.timestamp = f.timestamp
        /\ \E e \in EntriesOf(root) :
             /\ e.key = e.timestamp
             /\ \A g \in Got(res) : ~ Before(e, g, TRUE)
             /\ Before(e, f, TRUE)
    BY QueriesAreQueries, SplitIs
  <2> HIDE DEF res
  <2>2. PICK g \in Got(res) : g.timestamp = f.timestamp
    BY <2>1
  <2>3. PICK e \in EntriesOf(root) :
          e.key = e.timestamp /\ ~ Before(e, g, TRUE) /\ Before(e, f, TRUE)
    BY <2>1
  <2>4. g \in EntriesOf(root) /\ f \in EntriesOf(root)
    BY <2>1
  <2>5. ~ (e.key > g.key) /\ e.key > f.key
    BY <2>3 DEF Before
  <2>6. e.key < g.key => e.timestamp <= g.timestamp
    BY <2>3, <2>4 DEF Monotone
  <2> QED BY <2>2, <2>3, <2>4, <2>5, <2>6, StoredEntries
<1> QED BY <1>1, StorageInvariant, PTL

\* An ascending Get may end within the envelopes of a timestamp, but only behind
\* the first of them, which is the one at the timestamp itself.
THEOREM AscendingSplitsBehindFirst == Spec => []AscSplitsBehindFirst
<1>1. StorageInv => AscSplitsBehindFirst
  <2> SUFFICES ASSUME StorageInv, Monotone, NEW q \in Queries, NEW f \in Split(q, FALSE)
               PROVE  LET res == Get(q, FALSE) IN res[Len(res)].key = res[Len(res)].timestamp
    BY DEF AscSplitsBehindFirst
  <2> DEFINE res == Get(q, FALSE)
  <2>1. /\ f \in EntriesOf(root) /\ res \in Seq(Entries) /\ Got(res) \subseteq EntriesOf(root)
        /\ \E g \in Got(res) : g.timestamp = f.timestamp
        /\ \E e \in EntriesOf(root) :
             /\ e.key = e.timestamp
             /\ \A g \in Got(res) : ~ Before(e, g, FALSE)
             /\ Before(e, f, FALSE)
    BY QueriesAreQueries, SplitIs
  <2>2. \A i, j \in 1 .. Len(res) : i < j => Before(res[i], res[j], FALSE)
    BY QueriesAreQueries, GetIs
  <2> HIDE DEF res
  <2>3. PICK g \in Got(res) : g.timestamp = f.timestamp
    BY <2>1
  <2>4. PICK e \in EntriesOf(root) :
          /\ e.key = e.timestamp
          /\ \A x \in Got(res) : ~ (e.key < x.key)
          /\ e.key < f.key
    BY <2>1 DEF Before
  <2>5. e.timestamp <= f.timestamp
    BY <2>1, <2>4 DEF Monotone
  <2>6. g.key = e.key /\ g \in EntriesOf(root)
    BY <2>1, <2>3, <2>4, <2>5, StoredEntries
  <2>7. g = e
    BY <2>4, <2>6, StoredEntries
  <2>8. PICK i \in 1 .. Len(res) : res[i] = e
    BY <2>7 DEF Got
  <2>9. Len(res) \in 1 .. Len(res) /\ i <= Len(res) /\ i \in Int /\ Len(res) \in Nat
    BY <2>1, <2>8
  <2>a. res[Len(res)] \in Got(res)
    BY <2>9 DEF Got
  <2>b. i < Len(res) => e.key < res[Len(res)].key
    BY <2>2, <2>8, <2>9 DEF Before
  <2>c. i = Len(res)
    BY <2>4, <2>9, <2>a, <2>b
  <2> QED BY <2>4, <2>8, <2>c DEF res
<1> QED BY <1>1, StorageInvariant, PTL
-----------------------------------------------------------------------------
(* What Walk keeps of a batch *)

\* The last of the indexes that are kept.
LEMMA MaxOfIndexes ==
  ASSUME NEW n \in Nat, NEW S \in SUBSET (1 .. n)
  PROVE  /\ Max({0} \cup S) \in {0} \cup S
         /\ \A i \in S : i <= Max({0} \cup S)
<1> DEFINE T == {k \in Nat : \A i \in S : i <= k}
<1>1. T \in SUBSET Nat /\ n \in T
  OBVIOUS
<1>2. PICK m \in T : \A k \in T : m <= k
  BY <1>1, LeastNumber
<1>3. m \in Nat /\ \A i \in S : i <= m /\ i \in Nat
  OBVIOUS
<1>4. m \in {0} \cup S
  <2> SUFFICES ASSUME m # 0, m \notin S PROVE FALSE
    OBVIOUS
  <2>1. m - 1 \in Nat /\ \A i \in S : i <= m - 1
    BY <1>3
  <2> QED BY <1>2, <1>3, <2>1
<1>5. m \in {0} \cup S /\ \A j \in {0} \cup S : m >= j
  BY <1>3, <1>4
<1> HIDE DEF T
<1>6. /\ Max({0} \cup S) \in {0} \cup S
      /\ \A j \in {0} \cup S : Max({0} \cup S) >= j
  BY <1>5 DEF Max
<1>7. \A j \in {0} \cup S : j \in Int
  OBVIOUS
<1> QED BY <1>6, <1>7

\* p is the first part of es.
PartOf(p, es) ==
  /\ p \in Seq(Entries) /\ Len(p) <= Len(es)
  /\ \A i \in 1 .. Len(p) : p[i] = es[i]

\* pruneEnd, for any set of indexes that are kept.
LEMMA PruneIs ==
  ASSUME NEW es \in Seq(Entries), NEW S \in SUBSET (DOMAIN es), NEW p,
         p = SubSeq(es, 1, Max({0} \cup S))
  PROVE  /\ PartOf(p, es)
         /\ p # <<>> => Len(p) \in S
         /\ \A i \in S : i <= Len(p)
<1> DEFINE m == Max({0} \cup S)
<1>1. Len(es) \in Nat /\ DOMAIN es = 1 .. Len(es)
  OBVIOUS
<1>2. m \in {0} \cup S /\ \A i \in S : i <= m
  BY <1>1, MaxOfIndexes
<1> HIDE DEF m
<1>3. m \in 0 .. Len(es) /\ \A i \in 1 .. m : es[i] \in Entries
  BY <1>1, <1>2
<1>4. /\ p \in Seq(Entries) /\ Len(p) = m
      /\ \A i \in 1 .. m : p[i] = es[i]
  <2>1. p = SubSeq(es, 1, m)
    BY DEF m
  <2>2. \A i \in 1 .. m - 1 + 1 : SubSeq(es, 1, m)[i] = es[1 + i - 1]
    BY <1>3, SubSeqProperties
  <2>3. \A i \in 1 .. m : i \in 1 .. m - 1 + 1 /\ 1 + i - 1 = i
    BY <1>3
  <2>4. SubSeq(es, 1, m) \in Seq(Entries)
    BY <1>3, SubSeqProperties
  <2>5. Len(SubSeq(es, 1, m)) = IF 1 <= m THEN m - 1 + 1 ELSE 0
    BY <1>3, SubSeqProperties
  <2>6. Len(SubSeq(es, 1, m)) = m
    BY <1>3, <2>5
  <2> QED BY <2>1, <2>2, <2>3, <2>4, <2>6
<1>5. p # <<>> => m # 0
  BY <1>4, EmptySeq
<1>6. Len(p) = m /\ m <= Len(es) /\ \A i \in 1 .. m : p[i] = es[i]
  <2>1. m <= Len(es)
    BY <1>1, <1>3
  <2> QED BY <1>4, <2>1
<1>7. PartOf(p, es)
  BY <1>4, <1>6 DEF PartOf
<1>8. p # <<>> => Len(p) \in S
  BY <1>2, <1>5, <1>6
<1>9. \A i \in S : i <= Len(p)
  BY <1>2, <1>6
<1> QED BY <1>7, <1>8, <1>9

SortedByTime(es) ==
  \A i, j \in DOMAIN es : i < j => es[i].timestamp <= es[j].timestamp

\* Too new to be shown, and at the end of what is asked for or beyond it.
TooNew(e) == e.timestamp > now - delay

PastEnd(e) == HasEnd /\ e.timestamp >= walk.config.end

\* A batch is what was read without what is too new or beyond the end.
LEMMA PrunedEsIs ==
  ASSUME walk.es \in Seq(Entries), now \in Int, HasEnd => walk.config.end \in Int
  PROVE  /\ PartOf(PrunedEs, walk.es)
         /\ SortedByTime(walk.es) =>
              /\ \A i \in 1 .. Len(PrunedEs) :
                   /\ ~ PastEnd(walk.es[i])
                   /\ ~ (HasEnd /\ walk.receivedEmpty) => ~ TooNew(walk.es[i])
              /\ \A i \in Len(PrunedEs) + 1 .. Len(walk.es) :
                   TooNew(walk.es[i]) \/ PastEnd(walk.es[i])
<1> DEFINE es == walk.es
           new(e) == e.timestamp <= now - delay
           past(e) == HasEnd => e.timestamp < walk.config.end
           settled == IF HasEnd /\ walk.receivedEmpty THEN es
                      ELSE SubSeq(es, 1, Max({0} \cup {i \in DOMAIN es : new(es[i])}))
           p == SubSeq(settled, 1,
                       Max({0} \cup {i \in DOMAIN settled : past(settled[i])}))
<1>1. PrunedEs = p
  BY DEF PrunedEs, PruneEnd
<1>2. es \in Seq(Entries) /\ Len(es) \in Nat /\ DOMAIN es = 1 .. Len(es)
  OBVIOUS
<1>3. \A i \in DOMAIN es :
        /\ new(es[i]) <=> ~ TooNew(es[i])
        /\ past(es[i]) <=> ~ PastEnd(es[i])
        /\ es[i].timestamp \in Int
  <2>0. \A i \in DOMAIN es : es[i] \in Entries
    BY <1>2
  <2>1. \A i \in DOMAIN es : es[i].timestamp \in Int
    BY <2>0, StorageTreeAssumption DEF Entries
  <2>2. delay \in Int
    BY WalkAssumption
  <2> HIDE DEF es
  <2> QED BY <2>1, <2>2 DEF TooNew, PastEnd
<1> HIDE DEF es, new, past
<1>4. /\ PartOf(settled, es)
      /\ ~ (HasEnd /\ walk.receivedEmpty) /\ settled # <<>> => new(es[Len(settled)])
      /\ \A i \in Len(settled) + 1 .. Len(es) : ~ new(es[i])
  <2>1. CASE HasEnd /\ walk.receivedEmpty
    BY <1>2, <2>1 DEF PartOf
  <2>2. CASE ~ (HasEnd /\ walk.receivedEmpty)
    <3> DEFINE S == {i \in DOMAIN es : new(es[i])}
    <3>1. settled = SubSeq(es, 1, Max({0} \cup S))
      BY <2>2
    <3>2. S \in SUBSET (DOMAIN es)
      OBVIOUS
    <3> HIDE DEF settled, S
    <3>3. /\ PartOf(settled, es)
          /\ settled # <<>> => Len(settled) \in S
          /\ \A i \in S : i <= Len(settled)
      BY <1>2, <3>1, <3>2, PruneIs
    <3>4. Len(settled) \in Nat
      BY <3>3 DEF PartOf
    <3>5. \A i \in Len(settled) + 1 .. Len(es) : i \in DOMAIN es /\ i \notin S
      BY <1>2, <3>3, <3>4
    <3> QED BY <3>3, <3>5 DEF S
  <2> QED BY <2>1, <2>2
<1> DEFINE R == {i \in DOMAIN settled : past(settled[i])}
<1>5. p = SubSeq(settled, 1, Max({0} \cup R)) /\ R \in SUBSET (DOMAIN settled)
  OBVIOUS
<1> HIDE DEF settled, p, R
<1>6. settled \in Seq(Entries) /\ Len(settled) \in Nat /\ DOMAIN settled = 1 .. Len(settled)
      /\ Len(settled) <= Len(es) /\ \A i \in 1 .. Len(settled) : settled[i] = es[i]
  BY <1>4 DEF PartOf
<1>7. /\ PartOf(p, settled)
      /\ p # <<>> => Len(p) \in R
      /\ \A i \in R : i <= Len(p)
  BY <1>5, <1>6, PruneIs
<1>8. /\ p \in Seq(Entries) /\ Len(p) \in Nat /\ Len(p) <= Len(settled)
      /\ \A i \in 1 .. Len(p) : p[i] = settled[i]
  BY <1>7 DEF PartOf
<1>9. PartOf(p, es)
  BY <1>2, <1>6, <1>8 DEF PartOf
<1>a. ASSUME NEW i \in Len(p) + 1 .. Len(es) PROVE TooNew(es[i]) \/ PastEnd(es[i])
  <2>1. CASE i \in Len(settled) + 1 .. Len(es)
    BY <1>2, <1>3, <1>4, <1>6, <1>8, <2>1
  <2>2. CASE i \in 1 .. Len(settled)
    <3>1. i \notin R
      BY <1>7, <1>8, <2>2
    <3>2. ~ past(es[i])
      BY <1>6, <2>2, <3>1 DEF R
    <3> QED BY <1>2, <1>3, <1>6, <2>2, <3>2
  <2> QED BY <1>2, <1>6, <1>8, <2>1, <2>2
<1>b. ASSUME SortedByTime(es), NEW i \in 1 .. Len(p)
      PROVE  /\ ~ PastEnd(es[i])
             /\ ~ (HasEnd /\ walk.receivedEmpty) => ~ TooNew(es[i])
  <2>1. p # <<>> /\ Len(p) \in 1 .. Len(settled) /\ Len(settled) \in 1 .. Len(es)
        /\ i \in 1 .. Len(es)
    BY <1>2, <1>6, <1>8, <1>b
  <2>2. past(es[Len(p)])
    BY <1>6, <1>7, <2>1 DEF R
  <2>3. settled # <<>>
    BY <1>6, <2>1
  <2>4. /\ es[i].timestamp <= es[Len(p)].timestamp
        /\ es[i].timestamp <= es[Len(settled)].timestamp
    BY <1>2, <1>3, <1>6, <1>8, <1>b, <2>1 DEF SortedByTime
  <2>5. ~ PastEnd(es[Len(p)])
    BY <1>2, <1>3, <1>6, <2>1, <2>2
  <2>6. ~ (HasEnd /\ walk.receivedEmpty) => ~ TooNew(es[Len(settled)])
    BY <1>2, <1>3, <1>4, <2>1, <2>3
  <2>7. es[i].timestamp \in Int /\ es[Len(p)].timestamp \in Int
        /\ es[Len(settled)].timestamp \in Int /\ delay \in Int
    BY <1>2, <1>3, <1>6, <1>8, <2>1, WalkAssumption
  <2> QED BY <2>4, <2>5, <2>6, <2>7 DEF PastEnd, TooNew
<1> QED BY <1>1, <1>9, <1>a, <1>b DEF es
-----------------------------------------------------------------------------
(* Walk *)

WalkRecords ==
  [config : Configs, at : {"read", "waiting", "returned"}, start : Int,
   es : Seq(Entries), receivedEmpty : BOOLEAN, count : 0 .. maxCount,
   window : 0 .. Windows]

Histories ==
  [ordered : BOOLEAN, late : SUBSET Int, waiting : 0 .. MaxLatency,
   errors : 0 .. MaxErrors]

Batches == Seq(Seq(Entries) \ {<<>>})

WalkTyped ==
  /\ StorageInv
  /\ now \in 0 .. MaxNow
  /\ walk \in WalkRecords
  /\ \E c \in Walks : walk.config.limit = c.limit /\ walk.config.backoff = c.backoff
  /\ visited \in Batches
  /\ history \in Histories

\* The bounds of a walk, and what it reads with.
LEMMA WalkParts ==
  ASSUME WalkTyped
  PROVE  /\ now \in Int /\ walk.es \in Seq(Entries) /\ walk.start \in Int
         /\ walk.config \in Configs
         /\ HasEnd => walk.config.end \in Int
         /\ walk.config.start \in Int /\ walk.config.limit \in Nat \ {0}
         /\ IsQuery(Query)
<1>1. now \in Int
  BY WalkAssumption DEF WalkTyped
<1>2. walk.es \in Seq(Entries) /\ walk.start \in Int /\ walk.config \in Configs
  BY DEF WalkTyped, WalkRecords
<1>3. /\ HasEnd => walk.config.end \in Int
      /\ walk.config.start \in Int /\ walk.config.limit \in Nat \ {0}
  BY <1>2 DEF Configs, HasEnd
<1>4. IsQuery(Query)
  BY <1>1, <1>2, <1>3 DEF IsQuery, Query
<1> QED BY <1>1, <1>2, <1>3, <1>4

\* WalkTypeOK follows.
LEMMA WalkTypedIs == WalkTyped => WalkTypeOK
<1> SUFFICES ASSUME WalkTyped PROVE WalkTypeOK
  OBVIOUS
<1>1. /\ TypeOK /\ now \in 0 .. MaxNow
      /\ walk.at \in {"read", "waiting", "returned"}
      /\ walk.start \in Int /\ walk.es \in Seq(Entries)
      /\ walk.receivedEmpty \in BOOLEAN
      /\ walk.count \in 0 .. maxCount
      /\ walk.window \in 0 .. Windows
      /\ walk.config \in Configs
  BY DEF WalkTyped, StorageInv, WalkRecords
<1>2. \A i \in DOMAIN visited : visited[i] \in Seq(Entries) \ {<<>>}
  BY DEF WalkTyped, Batches
<1>3. \E c \in Walks : [walk.config EXCEPT !.start = c.start, !.end = c.end] = c
  <2>1. PICK c \in Walks : walk.config.limit = c.limit /\ walk.config.backoff = c.backoff
    BY DEF WalkTyped
  <2>2. c \in Configs
    BY WalkAssumption
  <2>3. [walk.config EXCEPT !.start = c.start, !.end = c.end] = c
    BY <1>1, <2>1, <2>2 DEF Configs
  <2> QED BY <2>3
<1> QED BY <1>1, <1>2, <1>3 DEF WalkTypeOK

\* A walk that sets out.
LEMMA WalkingTyped ==
  ASSUME NEW c \in Configs, NEW w \in 0 .. Windows
  PROVE  Walking(c, w) \in WalkRecords
<1>1. c.start \in Int
  BY DEF Configs
<1>2. <<>> \in Seq(Entries) /\ 0 \in 0 .. maxCount
  BY WalkAssumption
<1> QED BY <1>1, <1>2 DEF Walking, WalkRecords

\* Init.
LEMMA WalkTypedInit == WalkInit => WalkTyped
<1> SUFFICES ASSUME WalkInit PROVE WalkTyped
  OBVIOUS
<1>1. StorageInv
  BY StorageInit DEF WalkInit
<1>2. PICK c \in Walks : walk = Walking(c, 0)
  BY DEF WalkInit
<1>3. c \in Configs /\ 0 \in 0 .. Windows
  BY WalkAssumption
<1>4. walk \in WalkRecords
  BY <1>2, <1>3, WalkingTyped
<1>5. walk.config = c
  BY <1>2 DEF Walking
<1>6. now \in 0 .. MaxNow /\ history \in Histories
  BY WalkAssumption DEF WalkInit, NoHistory, Histories
<1>7. visited \in Batches
  BY DEF WalkInit, Batches
<1> QED BY <1>1, <1>2, <1>4, <1>5, <1>6, <1>7 DEF WalkTyped

\* OnErr and OnEmpty.
LEMMA BackOffTyped ==
  ASSUME WalkTyped, NEW counting
  PROVE  /\ BackOff(counting) \in WalkRecords
         /\ BackOff(counting).config = walk.config /\ BackOff(counting).es = <<>>
         /\ BackOff(counting).start = walk.start
         /\ BackOff(counting).at = IF GoesOn(counting) THEN "read" ELSE "returned"
         /\ BackOff(counting).receivedEmpty = walk.receivedEmpty
<1>1. walk \in WalkRecords
  BY DEF WalkTyped
<1> DEFINE at == IF GoesOn(counting) THEN "read" ELSE "returned"
           count == IF walk.count < maxCount /\ walk.config.backoff \in counting
                    THEN Counted(walk.count) ELSE walk.count
<1>2. count \in 0 .. maxCount
  <2>1. walk.count \in 0 .. maxCount
    BY <1>1 DEF WalkRecords
  <2> QED BY <2>1, WalkAssumption DEF Counted
<1>3. at \in {"read", "returned"}
  OBVIOUS
<1>4. BackOff(counting) = [walk EXCEPT !.es = <<>>, !.at = at, !.count = count]
  BY <1>1 DEF BackOff, WalkRecords
<1> HIDE DEF at, count
<1>5. <<>> \in Seq(Entries)
  OBVIOUS
<1> QED BY <1>1, <1>2, <1>3, <1>4, <1>5 DEF WalkRecords, at

\* What stays of a walk when its storage does.
LEMMA SameStorage ==
  ASSUME WalkTyped, UNCHANGED <<root, puts>>, now' \in 0 .. MaxNow,
         walk' \in WalkRecords,
         walk'.config.limit = walk.config.limit,
         walk'.config.backoff = walk.config.backoff,
         visited' \in Batches, history' \in Histories
  PROVE  WalkTyped'
<1>1. StorageInv'
  BY StorageUnchanged DEF WalkTyped, vars
<1> QED BY <1>1 DEF WalkTyped

\* Read, the LocalStoreReader's or the client's.
LEMMA ReadIs ==
  ASSUME WalkTyped, Read
  PROVE  /\ WalkTyped' /\ UNCHANGED <<root, puts, now, visited>>
         /\ walk.at = "read" /\ walk'.at = "waiting"
         /\ walk'.es = Get(Query, FALSE)
         /\ walk'.config = walk.config /\ walk'.start = walk.start
         /\ walk'.receivedEmpty = walk.receivedEmpty
         /\ history'.ordered <=> history.ordered /\ Monotone
         /\ history'.late = history.late /\ history'.waiting = history.waiting
<1>1. /\ walk \in WalkRecords /\ history \in Histories /\ now \in 0 .. MaxNow
      /\ visited \in Batches
  BY DEF WalkTyped
<1>2. Get(Query, FALSE) \in Seq(Entries)
  <2>1. IsQuery(Query)
    BY WalkParts
  <2> QED BY <2>1, GetIs DEF WalkTyped
<1>3. /\ walk' = [walk EXCEPT !.at = "waiting", !.es = Get(Query, FALSE)]
      /\ history' = [history EXCEPT !.ordered = @ /\ Monotone]
      /\ UNCHANGED <<root, puts, now, visited>> /\ walk.at = "read"
  BY DEF Read
<1>4. walk' \in WalkRecords
  BY <1>1, <1>2, <1>3 DEF WalkRecords
<1>5. Monotone \in BOOLEAN
  BY DEF Monotone
<1>6. /\ history' \in Histories
      /\ history'.ordered <=> history.ordered /\ Monotone
      /\ history'.late = history.late /\ history'.waiting = history.waiting
  BY <1>1, <1>3, <1>5 DEF Histories
<1>7. /\ walk'.at = "waiting" /\ walk'.es = Get(Query, FALSE)
      /\ walk'.config = walk.config /\ walk'.start = walk.start
      /\ walk'.receivedEmpty = walk.receivedEmpty
  BY <1>1, <1>3 DEF WalkRecords
<1>8. WalkTyped'
  BY <1>1, <1>3, <1>4, <1>6, <1>7, SameStorage
<1> QED BY <1>3, <1>6, <1>7, <1>8

\* A read that fails or finds nothing that can be shown.
LEMMA RetryIs ==
  ASSUME WalkTyped, ReadRejected \/ ReadFails \/ ReceivesNothing \/ Cancelled
  PROVE  /\ WalkTyped' /\ UNCHANGED <<root, puts, now, visited>>
         /\ walk.at # "returned" /\ walk'.at \in {"read", "returned"}
         /\ walk'.es = <<>>
         /\ walk'.config = walk.config /\ walk'.start = walk.start
         /\ walk'.receivedEmpty /\ walk'.at = "read" =>
              walk.receivedEmpty \/ GoesOn({"count"})
         /\ history'.ordered = history.ordered /\ history'.late = history.late
         /\ \/ history'.waiting = 0
            \/ walk.at = "read" /\ history'.waiting = history.waiting
<1>1. /\ walk \in WalkRecords /\ history \in Histories /\ now \in 0 .. MaxNow
      /\ visited \in Batches
  BY DEF WalkTyped
<1>0. 0 \in 0 .. MaxLatency
  BY WalkAssumption
<1>2. /\ BackOff({"count", "countErr"}) \in WalkRecords
      /\ BackOff({"count", "countErr"}).config = walk.config
      /\ BackOff({"count", "countErr"}).es = <<>>
      /\ BackOff({"count", "countErr"}).start = walk.start
      /\ BackOff({"count", "countErr"}).at \in {"read", "returned"}
      /\ BackOff({"count", "countErr"}).receivedEmpty = walk.receivedEmpty
  BY BackOffTyped
<1>3. CASE ReadRejected \/ ReadFails
  <2>1. /\ walk' = BackOff({"count", "countErr"})
        /\ UNCHANGED <<root, puts, now, visited>> /\ walk.at # "returned"
    BY <1>3 DEF ReadRejected, ReadFails, Fails
  <2>2. /\ history' \in Histories
        /\ history'.ordered = history.ordered /\ history'.late = history.late
        /\ \/ history'.waiting = 0
           \/ walk.at = "read" /\ history'.waiting = history.waiting
    <3>1. CASE ReadRejected
      BY <1>1, <3>1 DEF ReadRejected
    <3>2. CASE ReadFails
      <4>1. history' = [history EXCEPT !.errors = @ + 1, !.waiting = 0]
        BY <3>2 DEF ReadFails
      <4>2. history.errors + 1 \in 0 .. MaxErrors
        BY <1>1, <3>2, WalkAssumption DEF ReadFails, Histories
      <4> QED BY <1>0, <1>1, <4>1, <4>2 DEF Histories
    <3> QED BY <1>3, <3>1, <3>2
  <2>3. WalkTyped'
    BY <1>1, <1>2, <2>1, <2>2, SameStorage
  <2> QED BY <1>2, <2>1, <2>2, <2>3
<1>4. CASE ReceivesNothing
  <2> DEFINE b == BackOff({"count"})
  <2>1. /\ b \in WalkRecords /\ b.config = walk.config /\ b.es = <<>> /\ b.start = walk.start
        /\ b.at = IF GoesOn({"count"}) THEN "read" ELSE "returned"
    BY BackOffTyped
  <2>2. /\ walk' = [b EXCEPT !.receivedEmpty = TRUE]
        /\ history' = [history EXCEPT !.waiting = 0]
        /\ UNCHANGED <<root, puts, now, visited>> /\ walk.at = "waiting"
    BY <1>4 DEF ReceivesNothing
  <2> HIDE DEF b
  <2>3. /\ walk' \in WalkRecords /\ walk'.config = walk.config /\ walk'.es = <<>>
        /\ walk'.start = walk.start /\ walk'.at \in {"read", "returned"}
        /\ walk'.at = "read" => GoesOn({"count"})
    <3>1. /\ walk' \in WalkRecords /\ walk'.config = b.config /\ walk'.es = b.es
          /\ walk'.start = b.start /\ walk'.at = b.at
      BY <2>1, <2>2 DEF WalkRecords
    <3> QED BY <2>1, <3>1
  <2>4. /\ history' \in Histories /\ history'.waiting = 0
        /\ history'.ordered = history.ordered /\ history'.late = history.late
    BY <1>0, <1>1, <2>2 DEF Histories
  <2>5. WalkTyped'
    BY <1>1, <2>2, <2>3, <2>4, SameStorage
  <2> QED BY <2>2, <2>3, <2>4, <2>5
<1>5. CASE Cancelled
  <2>1. /\ walk' = [walk EXCEPT !.at = "returned", !.es = <<>>]
        /\ history' = [history EXCEPT !.errors = @ + 1, !.waiting = 0]
        /\ UNCHANGED <<root, puts, now, visited>> /\ walk.at = "waiting"
    BY <1>5 DEF Cancelled
  <2>2. history.errors + 1 \in 0 .. MaxErrors
    BY <1>1, <1>5, WalkAssumption DEF Cancelled, Histories
  <2>3. /\ history' \in Histories /\ history'.waiting = 0
        /\ history'.ordered = history.ordered /\ history'.late = history.late
    BY <1>0, <1>1, <2>1, <2>2 DEF Histories
  <2>4. <<>> \in Seq(Entries)
    OBVIOUS
  <2>5. /\ walk' \in WalkRecords /\ walk'.config = walk.config /\ walk'.es = <<>>
        /\ walk'.start = walk.start /\ walk'.at = "returned"
    BY <1>1, <2>1, <2>4 DEF WalkRecords
  <2>6. WalkTyped'
    BY <1>1, <2>1, <2>3, <2>5, SameStorage
  <2> QED BY <2>1, <2>3, <2>5, <2>6
<1> QED BY <1>3, <1>4, <1>5

\* The Visitor gets a batch.
LEMMA VisitIs ==
  ASSUME WalkTyped, NEW more \in BOOLEAN, Visit(more)
  PROVE  /\ WalkTyped' /\ UNCHANGED <<root, puts, now>>
         /\ walk.at = "waiting" /\ walk'.at \in {"read", "returned"}
         /\ PrunedEs \in Seq(Entries) /\ PrunedEs # <<>>
         /\ Len(PrunedEs) \in Nat \ {0}
         /\ visited' = Append(visited, PrunedEs)
         /\ walk'.es = <<>> /\ ~ walk'.receivedEmpty /\ walk'.config = walk.config
         /\ walk'.at = "read" => walk'.start = Last(PrunedEs).timestamp + 1
         /\ history'.ordered = history.ordered /\ history'.late = history.late
         /\ history'.waiting = 0
<1>1. /\ walk \in WalkRecords /\ history \in Histories /\ now \in 0 .. MaxNow
      /\ visited \in Batches
  BY DEF WalkTyped
<1>2. PrunedEs \in Seq(Entries)
  BY WalkParts, PrunedEsIs DEF PartOf
<1>3. PrunedEs # <<>>
  BY DEF Visit
<1>4. Len(PrunedEs) \in Nat \ {0}
  BY <1>2, <1>3, EmptySeq
<1> DEFINE at == IF more /\ ~ (HasEnd /\ Last(PrunedEs).timestamp + 1 >= walk.config.end)
                 THEN "read" ELSE "returned"
           start == IF more /\ ~ (HasEnd /\ Last(PrunedEs).timestamp + 1 >= walk.config.end)
                    THEN NextStart(PrunedEs) ELSE walk.start
<1>5. /\ walk' = [walk EXCEPT !.es = <<>>, !.receivedEmpty = FALSE, !.count = 0,
                              !.at = at, !.start = start]
      /\ history' = [history EXCEPT !.waiting = 0]
      /\ visited' = Append(visited, PrunedEs)
      /\ UNCHANGED <<root, puts, now>> /\ walk.at = "waiting"
  <2>1. walk' = [walk EXCEPT !.es = <<>>, !.receivedEmpty = FALSE, !.count = 0,
                              !.at = at, !.start = start]
    BY <1>1 DEF Visit, WalkRecords
  <2> QED BY <2>1 DEF Visit
<1>6. Last(PrunedEs).timestamp + 1 \in Int
  <2>1. Last(PrunedEs) \in Entries
    <3> DEFINE p == PrunedEs
    <3> HIDE DEF p
    <3>1. p \in Seq(Entries) /\ Len(p) \in Nat \ {0}
      BY <1>2, <1>4 DEF p
    <3>2. p[Len(p)] \in Entries
      BY <3>1
    <3> QED BY <3>2 DEF Last, p
  <2>2. \A ts \in Timestamps : ts + 1 \in Int
    BY StorageTreeAssumption
  <2>3. \A e \in Entries : e.timestamp \in Timestamps
    BY DEF Entries
  <2> QED BY <2>1, <2>2, <2>3
<1>7. /\ at \in {"read", "returned"} /\ start \in Int
      /\ at = "read" => start = Last(PrunedEs).timestamp + 1
  BY <1>1, <1>6 DEF NextStart, WalkRecords
<1> HIDE DEF at, start
<1>8. <<>> \in Seq(Entries) /\ 0 \in 0 .. maxCount /\ 0 \in 0 .. MaxLatency
  BY WalkAssumption
<1>9. /\ walk' \in WalkRecords /\ walk'.config = walk.config /\ walk'.es = <<>>
      /\ ~ walk'.receivedEmpty /\ walk'.at = at /\ walk'.start = start
  BY <1>1, <1>5, <1>7, <1>8 DEF WalkRecords
<1>a. visited' \in Batches
  BY <1>1, <1>2, <1>3, <1>5 DEF Batches
<1>b. /\ history' \in Histories /\ history'.waiting = 0
      /\ history'.ordered = history.ordered /\ history'.late = history.late
  BY <1>1, <1>5, <1>8 DEF Histories
<1>c. WalkTyped'
  BY <1>1, <1>5, <1>9, <1>a, <1>b, SameStorage
<1> QED BY <1>2, <1>3, <1>4, <1>5, <1>7, <1>9, <1>b, <1>c

\* Window goes on to its next interval.
LEMMA NextWindowIs ==
  ASSUME WalkTyped, NextWindow
  PROVE  /\ WalkTyped' /\ UNCHANGED <<root, puts, now, history>>
         /\ walk.at = "returned" /\ walk'.at = "read"
         /\ visited' = <<>> /\ walk'.es = <<>> /\ ~ walk'.receivedEmpty
         /\ walk'.start = walk'.config.start
<1>1. /\ walk \in WalkRecords /\ history \in Histories /\ now \in 0 .. MaxNow
  BY DEF WalkTyped
<1> DEFINE c == [walk.config EXCEPT !.start = @ + interval, !.end = @ + interval]
<1>2. /\ walk' = Walking(c, walk.window + 1) /\ visited' = <<>>
      /\ UNCHANGED <<root, puts, now, history>> /\ walk.at = "returned"
  BY DEF NextWindow
<1>3. walk.config \in Configs /\ walk.config.end \in Int /\ walk.config.start \in Int
  BY WalkParts DEF NextWindow
<1>4. /\ c \in Configs /\ c.limit = walk.config.limit /\ c.backoff = walk.config.backoff
  <2> DEFINE start == walk.config.start + interval
             end == walk.config.end + interval
  <2>1. start \in Int /\ end \in Int
    BY <1>3, WalkAssumption
  <2>2. c = [walk.config EXCEPT !.start = start, !.end = end]
    BY <1>3 DEF Configs
  <2> HIDE DEF c, start, end
  <2> QED BY <1>3, <2>1, <2>2 DEF Configs
<1> HIDE DEF c
<1>5. walk.window + 1 \in 0 .. Windows
  BY <1>1, WalkAssumption DEF NextWindow, WalkRecords
<1>6. walk' \in WalkRecords
  BY <1>2, <1>4, <1>5, WalkingTyped
<1>7. /\ walk'.at = "read" /\ walk'.es = <<>> /\ ~ walk'.receivedEmpty
      /\ walk'.config = c /\ walk'.start = walk'.config.start
  BY <1>2 DEF Walking
<1>8. visited' \in Batches
  BY <1>2 DEF Batches
<1>9. WalkTyped'
  BY <1>1, <1>2, <1>4, <1>6, <1>7, <1>8, SameStorage
<1> QED BY <1>2, <1>7, <1>9

\* An envelope arrives.
LEMMA ArriveIs ==
  ASSUME WalkTyped, Arrive
  PROVE  /\ WalkTyped' /\ UNCHANGED <<now, walk, visited>>
         /\ history'.ordered = history.ordered /\ history'.waiting = history.waiting
         /\ \A x \in EntriesOf(root') :
              \/ x \in EntriesOf(root) /\ (x.key \in history.late => x.key \in history'.late)
              \/ x.key \in history'.late
              \/ x.timestamp + delay > now + MaxLatency
<1>1. PICK ts \in Timestamps, kind \in Kinds :
        /\ Insert(ts, kind)
        /\ LET new == EntriesOf(root') \ EntriesOf(root)
               late == IF Late(ts) THEN {e.key : e \in new} ELSE {}
               keys == {e.key : e \in EntriesOf(root')}
           IN history' = [history EXCEPT
                !.late = ((@ \ {e.key : e \in new}) \cup late) \cap keys]
  BY DEF Arrive
<1> DEFINE new == EntriesOf(root') \ EntriesOf(root)
           newKeys == {e.key : e \in new}
           late == IF Late(ts) THEN newKeys ELSE {}
           keys == {e.key : e \in EntriesOf(root')}
           lateNext == ((history.late \ newKeys) \cup late) \cap keys
<1>2. UNCHANGED <<now, walk, visited>>
  BY DEF Arrive
<1>3. StorageInv /\ history \in Histories
  BY DEF WalkTyped
<1>4. StorageInv'
  BY <1>1, <1>3, InsertKeeps
<1>5. /\ EntriesOf(root') \subseteq Entries
      /\ \A x, y \in EntriesOf(root') : x.key = y.key => x = y
  BY <1>4, KeysAreUnique DEF StorageInv, TypeOK
<1>6. \A x \in Entries : x.key \in Int
  BY DEF Entries
<1>7. \A x \in new : x.timestamp = ts
  <2>1. PICK kept \in Trees, key \in ts .. (ts + maxTimestampFudge), e \in Entries :
          /\ e = [key |-> key, timestamp |-> ts, kind |-> kind]
          /\ EntriesOf(kept) \subseteq EntriesOf(root)
          /\ EntriesOf(root') = {x \in EntriesOf(kept) : x.key # key} \cup {e}
    BY <1>1, <1>3, InsertIs
  <2>2. e.timestamp = ts
    BY <2>1
  <2> QED BY <2>1, <2>2
<1>8. history' = [history EXCEPT !.late = lateNext]
  BY <1>1, <1>3 DEF Histories
<1>9. lateNext \subseteq Int
  BY <1>5, <1>6
<1> HIDE DEF lateNext
<1>a. /\ history' \in Histories /\ history'.late = lateNext
      /\ history'.ordered = history.ordered /\ history'.waiting = history.waiting
  BY <1>3, <1>8, <1>9 DEF Histories
<1>b. WalkTyped'
  BY <1>2, <1>4, <1>a DEF WalkTyped
<1>c. ASSUME NEW x \in EntriesOf(root')
      PROVE  \/ x \in EntriesOf(root) /\ (x.key \in history.late => x.key \in history'.late)
             \/ x.key \in history'.late
             \/ x.timestamp + delay > now + MaxLatency
  <2>1. CASE x \in EntriesOf(root)
    <3>1. x.key \notin newKeys
      <4> SUFFICES ASSUME NEW y \in new, y.key = x.key PROVE FALSE
        OBVIOUS
      <4>1. y = x
        BY <1>5
      <4> QED BY <2>1, <4>1
    <3> QED BY <1>a, <2>1, <3>1 DEF lateNext
  <2>2. CASE x \notin EntriesOf(root)
    <3>1. x \in new /\ x.key \in newKeys /\ x.timestamp = ts
      BY <1>7, <2>2
    <3>2. CASE Late(ts)
      BY <1>a, <3>1, <3>2 DEF lateNext
    <3>3. CASE ~ Late(ts)
      <4>1. now \in Int /\ ts \in Int /\ delay \in Int /\ MaxLatency \in Int
        BY WalkParts, WalkAssumption, StorageTreeAssumption
      <4>2. x.timestamp + delay > now + MaxLatency
        BY <3>1, <3>3, <4>1 DEF Late
      <4> QED BY <4>2
    <3> QED BY <3>2, <3>3
  <2> QED BY <2>1, <2>2
<1> QED BY <1>2, <1>a, <1>b, <1>c

\* The oldest one goes.
LEMMA ExpireIs ==
  ASSUME WalkTyped, Expire
  PROVE  /\ WalkTyped' /\ UNCHANGED <<now, walk, visited>>
         /\ history'.ordered = history.ordered /\ history'.waiting = history.waiting
         /\ \A x \in EntriesOf(root') :
              x \in EntriesOf(root) /\ (x.key \in history.late => x.key \in history'.late)
<1>1. /\ RemoveOldest /\ UNCHANGED <<now, walk, visited>>
      /\ history' = [history EXCEPT !.late = @ \cap {e.key : e \in EntriesOf(root')}]
  BY DEF Expire
<1>2. StorageInv /\ history \in Histories
  BY DEF WalkTyped
<1>3. StorageInv' /\ EntriesOf(root') \subseteq EntriesOf(root)
  BY <1>1, <1>2, RemoveKeeps
<1>4. /\ history' \in Histories
      /\ history'.late = history.late \cap {e.key : e \in EntriesOf(root')}
      /\ history'.ordered = history.ordered /\ history'.waiting = history.waiting
  BY <1>1, <1>2 DEF Histories
<1>5. WalkTyped'
  BY <1>1, <1>3, <1>4 DEF WalkTyped
<1> QED BY <1>1, <1>3, <1>4, <1>5

\* Time passes.
LEMMA TickIs ==
  ASSUME WalkTyped, Tick
  PROVE  /\ WalkTyped' /\ UNCHANGED <<root, puts, walk, visited>>
         /\ now' = now + 1
         /\ history'.ordered = history.ordered /\ history'.late = history.late
         /\ history'.waiting = IF walk.at = "waiting" THEN history.waiting + 1 ELSE 0
<1> DEFINE waiting == IF walk.at = "waiting" THEN history.waiting + 1 ELSE 0
<1>1. /\ UNCHANGED <<root, puts, walk, visited>> /\ now' = now + 1
      /\ history' = [history EXCEPT !.waiting = waiting]
      /\ now < MaxNow /\ walk.at = "waiting" => history.waiting < MaxLatency
  BY DEF Tick
<1>2. /\ walk \in WalkRecords /\ history \in Histories /\ now \in 0 .. MaxNow
      /\ visited \in Batches
  BY DEF WalkTyped
<1>3. waiting \in 0 .. MaxLatency
  <2>1. history.waiting \in 0 .. MaxLatency
    BY <1>2 DEF Histories
  <2> QED BY <1>1, <2>1, WalkAssumption DEF Tick
<1> HIDE DEF waiting
<1>4. /\ history' \in Histories /\ history'.waiting = waiting
      /\ history'.ordered = history.ordered /\ history'.late = history.late
  BY <1>1, <1>2, <1>3 DEF Histories
<1>5. now' \in 0 .. MaxNow
  BY <1>1, <1>2, WalkAssumption DEF Tick
<1>6. WalkTyped'
  BY <1>1, <1>2, <1>4, <1>5, SameStorage
<1> QED BY <1>1, <1>4, <1>6 DEF waiting

\* Every step keeps the types.
LEMMA WalkTypedNext == WalkTyped /\ [WalkNext]_walkVars => WalkTyped'
<1> SUFFICES ASSUME WalkTyped, [WalkNext]_walkVars PROVE WalkTyped'
  OBVIOUS
<1>1. CASE Read
  BY <1>1, ReadIs
<1>2. CASE ReadRejected \/ ReadFails \/ ReceivesNothing \/ Cancelled
  BY <1>2, RetryIs
<1>3. ASSUME NEW more \in BOOLEAN, Visit(more) PROVE WalkTyped'
  BY <1>3, VisitIs
<1>4. CASE NextWindow
  BY <1>4, NextWindowIs
<1>5. CASE Arrive
  BY <1>5, ArriveIs
<1>6. CASE Expire
  BY <1>6, ExpireIs
<1>7. CASE Tick
  BY <1>7, TickIs
<1>8. CASE UNCHANGED walkVars
  <2>1. StorageInv'
    BY <1>8, StorageUnchanged DEF WalkTyped, walkVars, vars
  <2> QED BY <1>8, <2>1 DEF WalkTyped, walkVars
<1> QED BY <1>1, <1>2, <1>3, <1>4, <1>5, <1>6, <1>7, <1>8 DEF WalkNext, WalkStep

\* Whatever arrives and expires while client.Walk reads, its state and what the
\* Visitor gets keep their types: a batch is never empty, and a RetryBackoff
\* counts no further than maxCount.
THEOREM WalkTypeCorrect == WalkSpec => []WalkTypeOK
BY WalkTypedInit, WalkTypedNext, WalkTypedIs, PTL DEF WalkSpec

-----------------------------------------------------------------------------
(* Each envelope once *)

\* What was visited, one batch later.
LEMMA VisitedGrows ==
  ASSUME visited \in Batches, NEW p \in Seq(Entries), visited' = Append(visited, p)
  PROVE  /\ Visited' = Visited \cup Range(p)
         /\ Last(visited') = p
         /\ \A i \in DOMAIN visited : i \in DOMAIN visited' /\ visited'[i] = visited[i]
         /\ \E i \in DOMAIN visited' : visited'[i] = p
<1>1. visited \in Seq(Seq(Entries)) /\ Len(visited) \in Nat /\ DOMAIN visited = 1 .. Len(visited)
  BY DEF Batches
<1>2. /\ DOMAIN visited' = 1 .. Len(visited) + 1 /\ Len(visited') = Len(visited) + 1
      /\ \A i \in 1 .. Len(visited) : visited'[i] = visited[i]
      /\ visited'[Len(visited) + 1] = p
  BY <1>1
<1>3. \A i \in 1 .. Len(visited) + 1 : i \in 1 .. Len(visited) \/ i = Len(visited) + 1
  BY <1>1
<1>4. 1 .. Len(visited) \subseteq 1 .. Len(visited) + 1 /\ Len(visited) + 1 \in 1 .. Len(visited) + 1
  BY <1>1
<1>5. Visited' = Visited \cup Range(p)
  <2>1. ASSUME NEW v \in Visited' PROVE v \in Visited \cup Range(p)
    <3>1. PICK i \in 1 .. Len(visited) + 1 : v \in Range(visited'[i])
      BY <1>2 DEF Visited
    <3> QED BY <1>1, <1>2, <1>3, <3>1 DEF Visited
  <2>2. ASSUME NEW v \in Visited PROVE v \in Visited'
    <3>1. PICK i \in 1 .. Len(visited) : v \in Range(visited[i])
      BY <1>1 DEF Visited
    <3>2. i \in DOMAIN visited' /\ visited'[i] = visited[i]
      BY <1>2, <1>4
    <3> QED BY <3>1, <3>2 DEF Visited
  <2>3. ASSUME NEW v \in Range(p) PROVE v \in Visited'
    BY <1>2, <1>4, <2>3 DEF Visited
  <2> QED BY <2>1, <2>2, <2>3
<1> QED BY <1>1, <1>2, <1>4, <1>5 DEF Last

\* What was visited has been in the storage.
LEMMA VisitedEntries ==
  ASSUME visited \in Batches
  PROVE  \A v \in Visited : v \in Entries /\ v.timestamp \in Int
<1>1. ASSUME NEW i \in DOMAIN visited, NEW v \in Range(visited[i]) PROVE v \in Entries
  <2>1. visited[i] \in Seq(Entries)
    BY DEF Batches
  <2> QED BY <2>1 DEF Range
<1>2. \A v \in Visited : v \in Entries
  BY <1>1 DEF Visited
<1> QED BY <1>2, StorageTreeAssumption DEF Entries

\* Between two reads, there is no batch.
NoBatch == walk.at # "waiting" => walk.es = <<>> /\ history.waiting = 0

\* What was read is no earlier than asked for, and its keys are at its
\* timestamps or behind them.
BatchFromStart ==
  \A i \in 1 .. Len(walk.es) : /\ walk.start <= walk.es[i].timestamp
                               /\ walk.es[i].timestamp <= walk.es[i].key
                               /\ walk.es[i].key \in Int

\* A walk reads on right behind what was visited.
Onward ==
  history.ordered =>
    /\ SortedByTime(walk.es)
    /\ walk.at # "returned" =>
         /\ \A v \in Visited : v.timestamp < walk.start
         /\ \/ walk.start = walk.config.start
            \/ \E v \in Visited : walk.start = v.timestamp + 1

OrderInv == WalkTyped /\ NoBatch /\ BatchFromStart /\ Onward

\* An empty batch.
LEMMA EmptyBatch ==
  ASSUME walk.es = <<>>
  PROVE  BatchFromStart /\ SortedByTime(walk.es)
BY DEF BatchFromStart, SortedByTime

\* Nothing is read yet.
LEMMA OrderInit == WalkInit => OrderInv
<1> SUFFICES ASSUME WalkInit PROVE OrderInv
  OBVIOUS
<1>1. PICK c \in Walks : walk = Walking(c, 0)
  BY DEF WalkInit
<1>2. walk.es = <<>> /\ walk.at = "read" /\ walk.start = walk.config.start
  BY <1>1 DEF Walking
<1>3. visited = <<>> /\ history.waiting = 0
  BY DEF WalkInit, NoHistory
<1>4. Visited = {}
  BY <1>3 DEF Visited
<1> QED BY <1>2, <1>3, <1>4, EmptyBatch, WalkTypedInit DEF OrderInv, NoBatch, Onward

\* A read returns a batch in order.
LEMMA ReadKeepsOrder ==
  ASSUME OrderInv, Read
  PROVE  OrderInv'
<1>1. /\ WalkTyped' /\ UNCHANGED <<root, puts, now, visited>>
      /\ walk.at = "read" /\ walk'.at = "waiting"
      /\ walk'.es = Get(Query, FALSE)
      /\ walk'.config = walk.config /\ walk'.start = walk.start
      /\ history'.ordered <=> history.ordered /\ Monotone
  BY ReadIs DEF OrderInv
<1> DEFINE es == Get(Query, FALSE)
<1>2. /\ es \in Seq(Entries)
      /\ \A i \in 1 .. Len(es) : es[i] \in Wanted(Query)
      /\ \A i, j \in 1 .. Len(es) : i < j => Before(es[i], es[j], FALSE)
  BY GetIs, WalkParts DEF OrderInv, WalkTyped
<1> HIDE DEF es
<1>3. \A x \in Wanted(Query) : /\ x \in EntriesOf(root) /\ walk.start <= x.timestamp
                               /\ x.key \in Int /\ x.timestamp <= x.key
  BY StoredEntries DEF Wanted, Query, OrderInv, WalkTyped
<1>4. BatchFromStart'
  BY <1>1, <1>2, <1>3 DEF BatchFromStart, es
<1>5. Monotone => SortedByTime(es)
  BY <1>2, <1>3 DEF Monotone, SortedByTime, Before
<1>6. Visited' = Visited
  BY <1>1 DEF Visited
<1>7. Onward'
  BY <1>1, <1>5, <1>6 DEF Onward, SortedByTime, OrderInv, es
<1> QED BY <1>1, <1>4, <1>7 DEF OrderInv, NoBatch

\* What the Visitor gets is no earlier than what was asked for, and the last of
\* it is the latest.
LEMMA BatchIs ==
  ASSUME OrderInv, PrunedEs # <<>>
  PROVE  /\ Last(PrunedEs) \in Range(PrunedEs)
         /\ \A f \in Range(PrunedEs) :
              f \in Entries /\ f.timestamp \in Int /\ walk.start <= f.timestamp
         /\ history.ordered =>
              \A f \in Range(PrunedEs) : f.timestamp <= Last(PrunedEs).timestamp
<1> DEFINE p == PrunedEs
           es == walk.es
<1>1. PartOf(p, es) /\ es \in Seq(Entries)
  BY WalkParts, PrunedEsIs DEF OrderInv
<1>2. \A i \in 1 .. Len(es) : walk.start <= es[i].timestamp
  BY DEF OrderInv, BatchFromStart
<1>3. history.ordered => SortedByTime(es)
  BY DEF OrderInv, Onward
<1>4. p # <<>>
  OBVIOUS
<1> HIDE DEF p, es
<1>5. /\ p \in Seq(Entries) /\ Len(p) \in Nat \ {0} /\ Len(p) <= Len(es)
      /\ Len(es) \in Nat /\ DOMAIN es = 1 .. Len(es) /\ DOMAIN p = 1 .. Len(p)
      /\ \A i \in 1 .. Len(p) : p[i] = es[i]
  BY <1>1, <1>4, EmptySeq DEF PartOf
<1>6. /\ Len(p) \in DOMAIN p
      /\ \A i \in 1 .. Len(p) : i \in 1 .. Len(es) /\ (i < Len(p) \/ i = Len(p))
  <2> DEFINE m == Len(p)
             n == Len(es)
  <2>1. m \in Nat \ {0} /\ n \in Nat /\ m <= n /\ DOMAIN p = 1 .. m
    BY <1>5
  <2> HIDE DEF m, n
  <2>2. m \in 1 .. m /\ \A i \in 1 .. m : i \in 1 .. n /\ (i < m \/ i = m)
    BY <2>1
  <2> QED BY <2>1, <2>2 DEF m, n
<1>7. Last(p) = p[Len(p)] /\ Last(p) \in Range(p)
  BY <1>6 DEF Last, Range
<1>8. \A i \in 1 .. Len(p) : p[i] \in Entries /\ p[i].timestamp \in Int
  <2>1. \A i \in 1 .. Len(p) : p[i] \in Entries
    BY <1>5
  <2>2. \A e \in Entries : e.timestamp \in Int
    BY StorageTreeAssumption DEF Entries
  <2> QED BY <2>1, <2>2
<1>9. ASSUME NEW f \in Range(p)
      PROVE  /\ f \in Entries /\ f.timestamp \in Int /\ walk.start <= f.timestamp
             /\ history.ordered => f.timestamp <= Last(p).timestamp
  <2>1. PICK i \in 1 .. Len(p) : f = p[i]
    BY <1>5 DEF Range
  <2>2. f \in Entries /\ f.timestamp \in Int /\ walk.start <= f.timestamp
    BY <1>2, <1>5, <1>6, <1>8, <2>1
  <2>3. ASSUME history.ordered PROVE f.timestamp <= Last(p).timestamp
    <3>1. CASE i = Len(p)
      BY <1>7, <2>1, <2>2, <3>1
    <3>2. CASE i < Len(p)
      <4>1. es[i].timestamp <= es[Len(p)].timestamp
        BY <1>3, <1>5, <1>6, <2>3, <3>2 DEF SortedByTime
      <4>2. Len(p) \in 1 .. Len(p)
        BY <1>5
      <4> QED BY <1>5, <1>7, <2>1, <4>1, <4>2
    <3> QED BY <1>6, <3>1, <3>2
  <2> QED BY <2>2, <2>3
<1> QED BY <1>7, <1>9 DEF p

\* The walk goes on behind the batch that the Visitor got.
LEMMA VisitKeepsOrder ==
  ASSUME OrderInv, NEW more \in BOOLEAN, Visit(more)
  PROVE  OrderInv'
<1>1. /\ WalkTyped' /\ walk.at = "waiting" /\ walk'.at \in {"read", "returned"}
      /\ PrunedEs \in Seq(Entries) /\ PrunedEs # <<>>
      /\ visited' = Append(visited, PrunedEs)
      /\ walk'.es = <<>> /\ walk'.config = walk.config
      /\ walk'.at = "read" => walk'.start = Last(PrunedEs).timestamp + 1
      /\ history'.ordered = history.ordered /\ history'.waiting = 0
  BY VisitIs DEF OrderInv
<1>2. Visited' = Visited \cup Range(PrunedEs) /\ visited \in Batches
  BY <1>1, VisitedGrows DEF OrderInv, WalkTyped
<1>3. BatchFromStart' /\ SortedByTime(walk.es)'
  BY <1>1 DEF BatchFromStart, SortedByTime
<1>4. NoBatch'
  BY <1>1 DEF NoBatch
<1>5. ASSUME history.ordered, walk'.at # "returned"
      PROVE  /\ \A v \in Visited' : v.timestamp < walk'.start
             /\ \E v \in Visited' : walk'.start = v.timestamp + 1
  <2> DEFINE l == Last(PrunedEs)
  <2>1. walk'.start = l.timestamp + 1 /\ l \in Visited' /\ l.timestamp \in Int
    BY <1>1, <1>2, <1>5, BatchIs
  <2>2. \A v \in Visited : v.timestamp < walk.start /\ v.timestamp \in Int
    BY <1>1, <1>2, <1>5, VisitedEntries DEF OrderInv, Onward
  <2>3. \A f \in Range(PrunedEs) : f.timestamp <= l.timestamp /\ f.timestamp \in Int
    BY <1>1, <1>5, BatchIs
  <2>4. walk.start <= l.timestamp /\ walk.start \in Int
    BY <1>1, BatchIs, WalkParts DEF OrderInv
  <2> HIDE DEF l
  <2>5. \A v \in Visited : v.timestamp < l.timestamp + 1
    BY <2>1, <2>2, <2>4
  <2>6. \A f \in Range(PrunedEs) : f.timestamp < l.timestamp + 1
    BY <2>1, <2>3
  <2> QED BY <1>2, <2>1, <2>5, <2>6
<1>6. Onward'
  BY <1>1, <1>3, <1>5 DEF Onward, SortedByTime
<1> QED BY <1>1, <1>3, <1>4, <1>6 DEF OrderInv

\* Every other step leaves the batch alone or drops it, and the walk where it is
\* or back at the start of the next window.
LEMMA OthersKeepOrder ==
  ASSUME OrderInv,
         \/ ReadRejected \/ ReadFails \/ ReceivesNothing \/ Cancelled
         \/ NextWindow \/ Arrive \/ Expire \/ Tick \/ UNCHANGED walkVars
  PROVE  OrderInv'
<1>0. WalkTyped /\ NoBatch /\ BatchFromStart /\ Onward
  BY DEF OrderInv
<1>1. CASE ReadRejected \/ ReadFails \/ ReceivesNothing \/ Cancelled
  <2>1. /\ WalkTyped' /\ UNCHANGED visited
        /\ walk.at # "returned" /\ walk'.at \in {"read", "returned"}
        /\ walk'.es = <<>> /\ walk'.config = walk.config /\ walk'.start = walk.start
        /\ history'.ordered = history.ordered
        /\ \/ history'.waiting = 0
           \/ walk.at = "read" /\ history'.waiting = history.waiting
    BY <1>0, <1>1, RetryIs
  <2>2. BatchFromStart' /\ NoBatch'
    BY <1>0, <2>1 DEF BatchFromStart, NoBatch
  <2>3. Visited' = Visited
    BY <2>1 DEF Visited
  <2>4. Onward'
    BY <1>0, <2>1, <2>3 DEF Onward, SortedByTime
  <2> QED BY <2>1, <2>2, <2>4 DEF OrderInv
<1>2. CASE NextWindow
  <2>1. /\ WalkTyped' /\ UNCHANGED history
        /\ walk.at = "returned" /\ walk'.at = "read"
        /\ visited' = <<>> /\ walk'.es = <<>>
        /\ walk'.start = walk'.config.start
    BY <1>0, <1>2, NextWindowIs
  <2>2. BatchFromStart' /\ NoBatch'
    BY <1>0, <2>1 DEF BatchFromStart, NoBatch
  <2>3. Visited' = {}
    BY <2>1 DEF Visited
  <2>4. Onward'
    BY <2>1, <2>3 DEF Onward, SortedByTime
  <2> QED BY <2>1, <2>2, <2>4 DEF OrderInv
<1>3. CASE Arrive \/ Expire \/ Tick \/ UNCHANGED walkVars
  <2>1. /\ WalkTyped' /\ UNCHANGED <<walk, visited>>
        /\ history'.ordered = history.ordered
        /\ walk.at # "waiting" => history'.waiting = 0
    <3>1. CASE Arrive
      BY <1>0, <3>1, ArriveIs DEF NoBatch
    <3>2. CASE Expire
      BY <1>0, <3>2, ExpireIs DEF NoBatch
    <3>3. CASE Tick
      BY <1>0, <3>3, TickIs DEF NoBatch
    <3>4. CASE UNCHANGED walkVars
      BY <1>0, <3>4, WalkTypedNext DEF NoBatch, walkVars
    <3> QED BY <1>3, <3>1, <3>2, <3>3, <3>4
  <2>2. BatchFromStart' /\ NoBatch'
    BY <1>0, <2>1 DEF BatchFromStart, NoBatch
  <2>3. Visited' = Visited
    BY <2>1 DEF Visited
  <2>4. Onward'
    BY <1>0, <2>1, <2>3 DEF Onward, SortedByTime
  <2> QED BY <2>1, <2>2, <2>4 DEF OrderInv
<1> QED BY <1>1, <1>2, <1>3

\* Every step keeps the order.
LEMMA OrderNext == OrderInv /\ [WalkNext]_walkVars => OrderInv'
BY ReadKeepsOrder, VisitKeepsOrder, OthersKeepOrder DEF WalkNext, WalkStep

\* While envelopes come in order, the Visitor gets none twice and none out of
\* order, whatever arrives and expires between the reads: the next read starts
\* behind the last envelope of a batch, which the pruning leaves in order.
THEOREM EachOnce == WalkSpec => EachVisitedOnce
<1>1. ASSUME OrderInv, WalkNext, visited' # visited, visited' # <<>>, history.ordered,
             NEW e \in Visited, NEW f \in Range(Last(visited'))
      PROVE  e.timestamp < f.timestamp
  <2>0. WalkTyped
    BY <1>1 DEF OrderInv
  <2>1. PICK more \in BOOLEAN : Visit(more)
    <3>1. UNCHANGED visited \/ visited' = <<>> \/ \E more \in BOOLEAN : Visit(more)
      BY <1>1, <2>0, ReadIs, RetryIs, NextWindowIs, ArriveIs, ExpireIs, TickIs
         DEF WalkNext, WalkStep
    <3> QED BY <1>1, <3>1
  <2>2. /\ walk.at = "waiting" /\ PrunedEs \in Seq(Entries) /\ PrunedEs # <<>>
        /\ visited' = Append(visited, PrunedEs) /\ visited \in Batches
    BY <2>0, <2>1, VisitIs DEF WalkTyped
  <2>3. Last(visited') = PrunedEs
    BY <2>2, VisitedGrows
  <2>4. f.timestamp \in Int /\ walk.start <= f.timestamp
    BY <1>1, <2>2, <2>3, BatchIs
  <2>5. e.timestamp \in Int /\ e.timestamp < walk.start
    BY <1>1, <2>2, VisitedEntries DEF OrderInv, Onward
  <2>6. walk.start \in Int
    BY <2>0, WalkParts
  <2> QED BY <2>4, <2>5, <2>6
<1>2. OrderInv /\ [WalkNext]_walkVars =>
        [visited' # visited /\ visited' # <<>> /\ history.ordered =>
           \A e \in Visited, f \in Range(Last(visited')) : e.timestamp < f.timestamp
        ]_walkVars
  BY <1>1
<1> QED BY <1>2, OrderInit, OrderNext, PTL DEF WalkSpec, EachVisitedOnce
-----------------------------------------------------------------------------
(* Nothing passed over *)

\* The walks that NothingPassedOver is about: those that wait no longer once
\* they have seen nothing.
Patient == ~(HasEnd /\ walk.config.backoff \in {"retry", "count"})

\* A walk that reads on has not given up on what is too new.
NotEmptied == Patient /\ HasEnd /\ walk.receivedEmpty => walk.at = "returned"

\* What was visited has stayed for the delay.
Settled ==
  history.ordered /\ Patient => \A v \in Visited : v.timestamp + delay <= now

\* A read has e, or e is behind what it has, or too late or too new for it.
Covered(e) ==
  \/ e.timestamp < walk.start
  \/ e \in Range(walk.es)
  \/ \A x \in Range(walk.es) : x.timestamp < e.timestamp
  \/ walk.es # <<>> /\ Last(walk.es).key = e.timestamp
  \/ e.key \in history.late
  \/ e.timestamp + delay > now - history.waiting + MaxLatency

AllCovered ==
  history.ordered /\ Patient /\ walk.at = "waiting" =>
    \A e \in EntriesOf(root) : Covered(e)

\* What NothingPassedOver says of e.
NotPassed(e) ==
  \/ e.timestamp < walk.config.start
  \/ \A v \in Visited : v.timestamp < e.timestamp
  \/ e \in Visited \/ SplitOff(e) \/ e.key \in history.late

NonePassed ==
  history.ordered /\ Patient => \A e \in EntriesOf(root) : NotPassed(e)

PassInv == OrderInv /\ NotEmptied /\ Settled /\ AllCovered /\ NonePassed

\* No batch yet.
LEMMA PassInit == WalkInit => PassInv
<1> SUFFICES ASSUME WalkInit PROVE PassInv
  OBVIOUS
<1>1. PICK c \in Walks : walk = Walking(c, 0)
  BY DEF WalkInit
<1>2. walk.at = "read" /\ ~ walk.receivedEmpty
  BY <1>1 DEF Walking
<1>3. Visited = {}
  BY DEF WalkInit, Visited
<1> QED BY <1>2, <1>3, OrderInit DEF PassInv, NotEmptied, Settled, AllCovered, NonePassed,
                                     NotPassed

\* What a batch has, said in two ways.
LEMMA GotIsRange ==
  ASSUME NEW res \in Seq(Entries)
  PROVE  Range(res) = Got(res) /\ Len(res) \in Nat
<1>1. Len(res) \in Nat /\ DOMAIN res = 1 .. Len(res)
  OBVIOUS
<1> QED BY <1>1 DEF Got, Range

\* What a read does not return is before what was asked for, behind all that it
\* returns, or of a timestamp whose envelopes the limit has split behind the
\* first.
LEMMA ReadCovers ==
  ASSUME StorageInv, Monotone, IsQuery(Query), NEW es, es = Get(Query, FALSE),
         NEW e \in EntriesOf(root)
  PROVE  \/ e.timestamp < walk.start
         \/ e \in Range(es)
         \/ \A x \in Range(es) : x.timestamp < e.timestamp
         \/ es # <<>> /\ Last(es).key = e.timestamp
<1>1. /\ es \in Seq(Entries)
      /\ \A i \in 1 .. Len(es) : es[i] \in Wanted(Query)
      /\ \A i, j \in 1 .. Len(es) : i < j => Before(es[i], es[j], FALSE)
      /\ \/ Wanted(Query) \subseteq Got(es)
         \/ \E a \in EntriesOf(root) :
              /\ a.key = a.timestamp
              /\ \A g \in Got(es) : ~ Before(a, g, FALSE)
              /\ \A f \in Wanted(Query) \ Got(es) : Before(a, f, FALSE)
  BY GetIs
<1>2. Range(es) = Got(es) /\ Len(es) \in Nat
  BY <1>1, GotIsRange
<1>3. \A x \in Wanted(Query) : x \in EntriesOf(root) /\ x.timestamp < Query.end
  BY DEF Wanted
<1>4. \A x \in Got(es) : x \in EntriesOf(root) /\ x.timestamp < Query.end
  BY <1>1, <1>3 DEF Got
<1>5. e.timestamp \in Int /\ e.key \in Int /\ Query.end \in Int /\ walk.start \in Int
  BY StoredEntries DEF IsQuery, Query
<1>6. CASE e.timestamp >= Query.end
  <2> DEFINE end == Query.end
  <2>1. e.timestamp >= end /\ e.timestamp \in Int /\ end \in Int
    BY <1>5, <1>6
  <2>2. \A x \in Got(es) : x.timestamp < end /\ x.timestamp \in Int
    BY <1>4, StoredEntries
  <2> HIDE DEF end
  <2>3. ASSUME NEW x \in Got(es) PROVE x.timestamp < e.timestamp
    <3> DEFINE ts == x.timestamp
               ets == e.timestamp
    <3>1. ts < end /\ ts \in Int /\ ets >= end /\ ets \in Int /\ end \in Int
      BY <2>1, <2>2
    <3> HIDE DEF ts, ets
    <3>2. ts < ets
      BY <3>1
    <3> QED BY <3>2 DEF ts, ets
  <2> QED BY <1>2, <2>3
<1>7. CASE walk.start <= e.timestamp /\ e.timestamp < Query.end /\ e \notin Got(es)
  <2>1. e \in Wanted(Query)
    BY <1>7 DEF Wanted, Query, Matches
  <2>2. PICK a \in EntriesOf(root) :
          /\ a.key = a.timestamp
          /\ \A g \in Got(es) : ~ (a.key < g.key)
          /\ a.key < e.key
    BY <1>1, <1>7, <2>1 DEF Before
  <2>3. a.timestamp <= e.timestamp
    BY <2>2 DEF Monotone
  <2>4. SUFFICES ASSUME NEW g \in Got(es), ~ (g.timestamp < e.timestamp)
                 PROVE  es # <<>> /\ Last(es).key = e.timestamp
    BY <1>2
  <2>5. g \in EntriesOf(root)
    BY <1>4
  <2>6. /\ g.key \in Int /\ g.timestamp \in Int /\ g.timestamp <= g.key
        /\ a.key \in Int /\ a.timestamp \in Int
    BY <2>5, StoredEntries
  <2>7. ~ (a.key < g.key)
    BY <2>2
  <2>8. g.key = a.key /\ a.key = e.timestamp
    BY <1>5, <2>2, <2>3, <2>4, <2>6, <2>7
  <2>9. PICK i \in 1 .. Len(es) : es[i] = g
    BY DEF Got
  <2>a. Len(es) \in 1 .. Len(es) /\ i \in Int /\ (i < Len(es) \/ i = Len(es)) /\ Len(es) # 0
    <3> DEFINE n == Len(es)
    <3>1. n \in Nat /\ i \in 1 .. n
      BY <1>2
    <3> HIDE DEF n
    <3>2. n \in 1 .. n /\ i \in Int /\ (i < n \/ i = n) /\ n # 0
      BY <3>1
    <3> QED BY <3>2 DEF n
  <2> DEFINE l == es[Len(es)]
  <2>b. l \in Got(es)
    BY <2>a DEF Got
  <2>c. i < Len(es) => g.key < l.key
    BY <1>1, <2>9, <2>a DEF Before
  <2>d. ~ (a.key < l.key)
    BY <2>2, <2>b
  <2>e. i = Len(es)
    BY <2>8, <2>a, <2>c, <2>d
  <2>f. es # <<>>
    BY <2>a
  <2> QED BY <2>8, <2>9, <2>e, <2>f DEF Last
<1>8. \/ e.timestamp < walk.start \/ e.timestamp >= Query.end
      \/ walk.start <= e.timestamp /\ e.timestamp < Query.end
  BY <1>5
<1> QED BY <1>2, <1>6, <1>7, <1>8

\* A read covers every envelope.
LEMMA ReadKeepsPass ==
  ASSUME PassInv, Read
  PROVE  PassInv'
<1>1. /\ WalkTyped' /\ UNCHANGED <<root, puts, now, visited>>
      /\ walk.at = "read" /\ walk'.at = "waiting"
      /\ walk'.es = Get(Query, FALSE)
      /\ walk'.config = walk.config /\ walk'.start = walk.start
      /\ walk'.receivedEmpty = walk.receivedEmpty
      /\ history'.ordered <=> history.ordered /\ Monotone
      /\ history'.late = history.late /\ history'.waiting = history.waiting
  BY ReadIs DEF PassInv, OrderInv
<1>2. Visited' = Visited /\ EntriesOf(root') = EntriesOf(root) /\ (Patient' <=> Patient)
      /\ (HasEnd' <=> HasEnd)
  BY <1>1 DEF Visited, Patient, HasEnd
<1>3. StorageInv /\ IsQuery(Query)
  BY WalkParts DEF PassInv, OrderInv, WalkTyped
<1>4. AllCovered'
  <2> SUFFICES ASSUME history'.ordered, NEW e \in EntriesOf(root) PROVE Covered(e)'
    BY <1>2 DEF AllCovered
  <2> DEFINE es == Get(Query, FALSE)
  <2>1. Monotone
    BY <1>1
  <2>2. \/ e.timestamp < walk.start
        \/ e \in Range(es)
        \/ \A x \in Range(es) : x.timestamp < e.timestamp
        \/ es # <<>> /\ Last(es).key = e.timestamp
    BY <1>3, <2>1, ReadCovers
  <2> HIDE DEF es
  <2>3. walk'.es = es
    BY <1>1 DEF es
  <2> QED BY <1>1, <2>2, <2>3 DEF Covered
<1>5. NotEmptied'
  BY <1>1, <1>2 DEF NotEmptied, PassInv
<1>6. Settled'
  BY <1>1, <1>2 DEF Settled, PassInv
<1>7. \A e : NotPassed(e) => NotPassed(e)'
  BY <1>1, <1>2 DEF NotPassed, SplitOff
<1>8. NonePassed'
  BY <1>1, <1>2, <1>7 DEF NonePassed, PassInv
<1> QED BY <1>4, <1>5, <1>6, <1>8, ReadKeepsOrder DEF PassInv

\* Of a batch, the Visitor gets all but what is too new or beyond the end.
LEMMA ShownIs ==
  ASSUME PassInv, walk.at = "waiting", history.ordered, Patient
  PROVE  /\ \A f \in Range(PrunedEs) :
              /\ ~ TooNew(f) /\ ~ PastEnd(f)
              /\ f \in Range(walk.es) /\ f.timestamp \in Int
         /\ \A x \in Range(walk.es) :
              x \in Range(PrunedEs) \/ TooNew(x) \/ PastEnd(x)
         /\ walk.es # <<>> =>
              /\ Last(walk.es) \in Range(walk.es)
              /\ \/ PrunedEs # <<>> /\ Last(PrunedEs) = Last(walk.es)
                 \/ TooNew(Last(walk.es)) \/ PastEnd(Last(walk.es))
<1> DEFINE p == PrunedEs
           es == walk.es
<1>1. /\ es \in Seq(Entries) /\ PartOf(p, es)
      /\ \A i \in 1 .. Len(p) : ~ PastEnd(es[i]) /\ ~ TooNew(es[i])
      /\ \A i \in Len(p) + 1 .. Len(es) : TooNew(es[i]) \/ PastEnd(es[i])
  <2>1. SortedByTime(walk.es)
    BY DEF PassInv, OrderInv, Onward
  <2>2. ~ (HasEnd /\ walk.receivedEmpty)
    BY DEF PassInv, NotEmptied
  <2>3. walk.es \in Seq(Entries) /\ now \in Int /\ (HasEnd => walk.config.end \in Int)
    BY WalkParts DEF PassInv, OrderInv
  <2> QED BY <2>1, <2>2, <2>3, PrunedEsIs
<1> HIDE DEF p, es
<1>2. p \in Seq(Entries)
  BY <1>1 DEF PartOf
<1> DEFINE m == Len(p)
           n == Len(es)
<1>3. /\ m \in Nat /\ n \in Nat /\ m <= n
      /\ DOMAIN p = 1 .. m /\ DOMAIN es = 1 .. n
      /\ \A i \in 1 .. m : p[i] = es[i] /\ p[i] \in Entries
  BY <1>1, <1>2 DEF PartOf
<1>4. /\ es # <<>> => n # 0
      /\ m # 0 => p # <<>>
  BY <1>1, <1>2, EmptySeq
<1>5. Last(es) = es[n] /\ Last(p) = p[m]
  BY DEF Last
<1>6. /\ \A i \in 1 .. m : ~ PastEnd(es[i]) /\ ~ TooNew(es[i])
      /\ \A i \in m + 1 .. n : TooNew(es[i]) \/ PastEnd(es[i])
  BY <1>1
<1> HIDE DEF m, n
<1>7. /\ 1 .. m \subseteq 1 .. n
      /\ \A i \in 1 .. n : i \in 1 .. m \/ i \in m + 1 .. n
      /\ n # 0 => n \in 1 .. n /\ (n = m \/ n \in m + 1 .. n)
      /\ n # 0 /\ n = m => m # 0 /\ m \in 1 .. m
  BY <1>3
<1>8. \A x \in Entries : x.timestamp \in Int
  BY StorageTreeAssumption DEF Entries
<1>9. ASSUME NEW f \in Range(p)
      PROVE  ~ TooNew(f) /\ ~ PastEnd(f) /\ f \in Range(es) /\ f.timestamp \in Int
  <2>1. PICK i \in 1 .. m : f = p[i]
    BY <1>3 DEF Range
  <2>2. f = es[i] /\ f \in Entries /\ i \in DOMAIN es
    BY <1>3, <1>7, <2>1
  <2> QED BY <1>6, <1>8, <2>2 DEF Range
<1>a. ASSUME NEW x \in Range(es) PROVE x \in Range(p) \/ TooNew(x) \/ PastEnd(x)
  <2>1. PICK i \in 1 .. n : x = es[i]
    BY <1>3 DEF Range
  <2>2. CASE i \in 1 .. m
    BY <1>3, <2>1, <2>2 DEF Range
  <2>3. CASE i \in m + 1 .. n
    BY <1>6, <2>1, <2>3
  <2> QED BY <1>7, <2>2, <2>3
<1>b. ASSUME es # <<>>
      PROVE  /\ Last(es) \in Range(es)
             /\ \/ p # <<>> /\ Last(p) = Last(es)
                \/ TooNew(Last(es)) \/ PastEnd(Last(es))
  <2>1. n # 0 /\ n \in 1 .. n
    BY <1>4, <1>7, <1>b
  <2>2. Last(es) \in Range(es)
    BY <1>3, <1>5, <2>1 DEF Range
  <2>3. CASE n = m
    <3>1. p # <<>> /\ m \in 1 .. m
      BY <1>4, <1>7, <2>1, <2>3
    <3>2. p[m] = es[m]
      BY <1>3, <3>1
    <3> QED BY <1>5, <2>2, <2>3, <3>1, <3>2
  <2>4. CASE n \in m + 1 .. n
    BY <1>5, <1>6, <2>2, <2>4
  <2> QED BY <1>7, <2>1, <2>3, <2>4
<1> QED BY <1>9, <1>a, <1>b DEF p, es

\* The batch that the Visitor gets passes over no envelope.
LEMMA VisitPassesNone ==
  ASSUME PassInv, NEW more \in BOOLEAN, Visit(more), history.ordered, Patient,
         NEW e \in EntriesOf(root), NotPassed(e)
  PROVE  NotPassed(e)'
<1> DEFINE p == PrunedEs
<1>1. /\ WalkTyped /\ StorageInv /\ NoBatch /\ BatchFromStart /\ Onward
  BY DEF PassInv, OrderInv, WalkTyped
<1>2. /\ walk.at = "waiting" /\ p \in Seq(Entries) /\ p # <<>>
      /\ visited' = Append(visited, p) /\ visited \in Batches
      /\ walk'.config = walk.config /\ history'.late = history.late
  BY <1>1, VisitIs DEF WalkTyped
<1>3. /\ Visited' = Visited \cup Range(p)
      /\ \A i \in DOMAIN visited : i \in DOMAIN visited' /\ visited'[i] = visited[i]
      /\ \E i \in DOMAIN visited' : visited'[i] = p
  BY <1>2, VisitedGrows
<1> HIDE DEF p
<1>4. e.timestamp \in Int /\ e.key \in Int /\ e.timestamp <= e.key
  BY <1>1, StoredEntries
<1>5. CASE e.timestamp < walk.config.start \/ e \in Visited \/ e.key \in history.late
  BY <1>2, <1>3, <1>5 DEF NotPassed
<1>6. CASE SplitOff(e)
  BY <1>3, <1>6 DEF NotPassed, SplitOff
<1>7. CASE ~ (e.timestamp < walk.config.start) /\ \A v \in Visited : v.timestamp < e.timestamp
  <2>1. SUFFICES \/ \A f \in Range(p) : f.timestamp < e.timestamp
                 \/ e \in Range(p) \/ Last(p).key = e.timestamp \/ e.key \in history.late
    <3>1. CASE \A f \in Range(p) : f.timestamp < e.timestamp
      <4>1. \A v \in Visited' : v.timestamp < e.timestamp
        BY <1>3, <1>7, <3>1
      <4> QED BY <4>1 DEF NotPassed
    <3>2. CASE e \in Range(p) \/ e.key \in history.late
      BY <1>2, <1>3, <3>2 DEF NotPassed
    <3>3. CASE Last(p).key = e.timestamp
      BY <1>3, <3>3 DEF NotPassed, SplitOff
    <3> QED BY <2>1, <3>1, <3>2, <3>3
  <2>2. /\ \A f \in Range(p) : /\ ~ TooNew(f) /\ ~ PastEnd(f)
                               /\ f \in Range(walk.es) /\ f.timestamp \in Int
        /\ \A x \in Range(walk.es) : x \in Range(p) \/ TooNew(x) \/ PastEnd(x)
        /\ walk.es # <<>> => /\ Last(walk.es) \in Range(walk.es)
                             /\ \/ Last(p) = Last(walk.es)
                                \/ TooNew(Last(walk.es)) \/ PastEnd(Last(walk.es))
    BY <1>2, ShownIs DEF p
  <2>3. /\ now \in Int /\ delay \in Int /\ MaxLatency \in Int
        /\ (HasEnd => walk.config.end \in Int)
        /\ walk.start \in Int /\ walk.config.start \in Int
        /\ history.waiting \in Int /\ history.waiting <= MaxLatency
    <3>1. history.waiting \in 0 .. MaxLatency
      BY <1>1 DEF WalkTyped, Histories
    <3> QED BY <1>1, <3>1, WalkParts, WalkAssumption
  <2>4. ASSUME TooNew(e) \/ PastEnd(e), NEW f \in Range(p)
        PROVE  f.timestamp < e.timestamp
    <3>1. ~ TooNew(f) /\ ~ PastEnd(f) /\ f.timestamp \in Int
      BY <2>2
    <3>2. CASE TooNew(e)
      BY <1>4, <2>3, <3>1, <3>2 DEF TooNew
    <3>3. CASE PastEnd(e)
      BY <1>4, <2>3, <3>1, <3>3 DEF PastEnd
    <3> QED BY <2>4, <3>2, <3>3
  <2>5. Covered(e)
    BY <1>2 DEF PassInv, AllCovered
  <2>6. CASE e.timestamp < walk.start
    <3>1. \/ walk.start = walk.config.start
          \/ \E v \in Visited : walk.start = v.timestamp + 1
      BY <1>1, <1>2 DEF Onward
    <3>2. ASSUME NEW v \in Visited, walk.start = v.timestamp + 1 PROVE FALSE
      <4>1. v.timestamp \in Int /\ v.timestamp < e.timestamp
        BY <1>2, <1>7, VisitedEntries
      <4> QED BY <1>4, <2>3, <2>6, <3>2, <4>1
    <3> QED BY <1>7, <2>6, <3>1, <3>2
  <2>7. CASE e \in Range(walk.es)
    BY <2>2, <2>4, <2>7
  <2>8. CASE \A x \in Range(walk.es) : x.timestamp < e.timestamp
    BY <2>2, <2>8
  <2>9. CASE walk.es # <<>> /\ Last(walk.es).key = e.timestamp
    <3> DEFINE l == Last(walk.es)
    <3>1. l \in Range(walk.es) /\ (Last(p) = l \/ TooNew(l) \/ PastEnd(l))
      BY <2>2, <2>9
    <3>2. l.timestamp \in Int /\ l.timestamp <= e.timestamp
      <4>1. PICK i \in DOMAIN walk.es : walk.es[i] = l
        BY <3>1 DEF Range
      <4>2. walk.es \in Seq(Entries)
        BY <1>1, WalkParts
      <4>3. i \in 1 .. Len(walk.es) /\ walk.es[i] \in Entries
        BY <4>1, <4>2
      <4>4. l.timestamp <= l.key /\ l.key \in Int
        BY <1>1, <4>1, <4>3 DEF BatchFromStart
      <4>5. l.timestamp \in Int
        BY <4>1, <4>3, StorageTreeAssumption DEF Entries
      <4> QED BY <2>9, <4>4, <4>5
    <3> HIDE DEF l
    <3>3. TooNew(l) => TooNew(e)
      BY <1>4, <2>3, <3>2 DEF TooNew
    <3>4. PastEnd(l) => PastEnd(e)
      BY <1>4, <2>3, <3>2 DEF PastEnd
    <3>5. l.key = e.timestamp
      BY <2>9 DEF l
    <3> QED BY <2>4, <3>1, <3>3, <3>4, <3>5
  <2>a. CASE e.key \in history.late
    BY <2>a
  <2>b. CASE e.timestamp + delay > now - history.waiting + MaxLatency
    <3>1. TooNew(e)
      BY <1>4, <2>3, <2>b DEF TooNew
    <3> QED BY <2>4, <3>1
  <2> QED BY <2>5, <2>6, <2>7, <2>8, <2>9, <2>a, <2>b DEF Covered
<1> QED BY <1>5, <1>6, <1>7 DEF NotPassed

\* The Visitor gets a batch.
LEMMA VisitKeepsPass ==
  ASSUME PassInv, NEW more \in BOOLEAN, Visit(more)
  PROVE  PassInv'
<1>0. OrderInv /\ WalkTyped /\ WalkTyped'
  BY VisitIs DEF PassInv, OrderInv
<1>1. /\ UNCHANGED <<root, puts, now>>
      /\ walk.at = "waiting" /\ walk'.at \in {"read", "returned"}
      /\ PrunedEs \in Seq(Entries) /\ PrunedEs # <<>>
      /\ visited' = Append(visited, PrunedEs) /\ visited \in Batches
      /\ ~ walk'.receivedEmpty /\ walk'.config = walk.config
      /\ history'.ordered = history.ordered
  BY <1>0, VisitIs DEF WalkTyped
<1>2. /\ Visited' = Visited \cup Range(PrunedEs) /\ EntriesOf(root') = EntriesOf(root)
      /\ (Patient' <=> Patient)
  BY <1>1, VisitedGrows DEF Patient, HasEnd
<1>3. NotEmptied' /\ AllCovered'
  BY <1>1 DEF NotEmptied, AllCovered
<1>4. Settled'
  <2> SUFFICES ASSUME history.ordered, Patient, NEW v \in Visited'
               PROVE  v.timestamp + delay <= now
    BY <1>1, <1>2 DEF Settled
  <2>1. CASE v \in Visited
    BY <2>1 DEF PassInv, Settled
  <2>2. CASE v \in Range(PrunedEs)
    <3>1. ~ TooNew(v) /\ v.timestamp \in Int
      BY <1>1, <2>2, ShownIs
    <3>2. now \in Int /\ delay \in Int
      BY <1>0, WalkParts, WalkAssumption
    <3> QED BY <3>1, <3>2 DEF TooNew
  <2> QED BY <1>2, <2>1, <2>2
<1>5. NonePassed'
  <2> SUFFICES ASSUME history.ordered, Patient, NEW e \in EntriesOf(root)
               PROVE  NotPassed(e)'
    BY <1>1, <1>2 DEF NonePassed
  <2>1. NotPassed(e)
    BY DEF PassInv, NonePassed
  <2> QED BY <2>1, VisitPassesNone
<1> QED BY <1>0, <1>3, <1>4, <1>5, VisitKeepsOrder DEF PassInv

\* A read that has nothing to show leaves what was visited as it is.
LEMMA RetryKeepsPass ==
  ASSUME PassInv, ReadRejected \/ ReadFails \/ ReceivesNothing \/ Cancelled
  PROVE  PassInv'
<1>0. OrderInv /\ WalkTyped
  BY DEF PassInv, OrderInv
<1>1. /\ UNCHANGED <<root, puts, now, visited>>
      /\ walk.at # "returned" /\ walk'.at \in {"read", "returned"}
      /\ walk'.config = walk.config
      /\ walk'.receivedEmpty /\ walk'.at = "read" =>
           walk.receivedEmpty \/ GoesOn({"count"})
      /\ history'.ordered = history.ordered /\ history'.late = history.late
  BY <1>0, RetryIs
<1>2. /\ Visited' = Visited /\ EntriesOf(root') = EntriesOf(root)
      /\ (Patient' <=> Patient) /\ (HasEnd' <=> HasEnd)
  BY <1>1 DEF Visited, Patient, HasEnd
<1>3. NotEmptied'
  <2>1. Patient /\ HasEnd => ~ GoesOn({"count"})
    BY DEF Patient, GoesOn
  <2> QED BY <1>1, <1>2, <2>1 DEF NotEmptied, PassInv
<1>4. AllCovered' /\ Settled'
  BY <1>1, <1>2 DEF AllCovered, Settled, PassInv
<1>5. \A e : NotPassed(e) => NotPassed(e)'
  BY <1>1, <1>2 DEF NotPassed, SplitOff
<1>6. NonePassed'
  BY <1>1, <1>2, <1>5 DEF NonePassed, PassInv
<1> QED BY <1>0, <1>1, <1>3, <1>4, <1>6, OthersKeepOrder DEF PassInv

\* Window's next interval starts anew.
LEMMA WindowKeepsPass ==
  ASSUME PassInv, NextWindow
  PROVE  PassInv'
<1>0. OrderInv /\ WalkTyped
  BY DEF PassInv, OrderInv
<1>1. /\ walk'.at = "read" /\ visited' = <<>> /\ ~ walk'.receivedEmpty
  BY <1>0, NextWindowIs
<1>2. Visited' = {}
  BY <1>1 DEF Visited
<1>3. NotEmptied' /\ AllCovered' /\ Settled' /\ NonePassed'
  BY <1>1, <1>2 DEF NotEmptied, AllCovered, Settled, NonePassed, NotPassed
<1> QED BY <1>0, <1>3, OthersKeepOrder DEF PassInv

\* An envelope that arrives is behind all that was visited, or too late.
LEMMA StorageKeepsPass ==
  ASSUME PassInv, Arrive \/ Expire
  PROVE  PassInv'
<1>0. OrderInv /\ WalkTyped
  BY DEF PassInv, OrderInv
<1>1. /\ UNCHANGED <<now, walk, visited>>
      /\ WalkTyped'
      /\ history'.ordered = history.ordered /\ history'.waiting = history.waiting
      /\ \A x \in EntriesOf(root') :
           \/ x \in EntriesOf(root) /\ (x.key \in history.late => x.key \in history'.late)
           \/ x.key \in history'.late
           \/ x.timestamp + delay > now + MaxLatency
  BY <1>0, ArriveIs, ExpireIs
<1>2. Visited' = Visited /\ (Patient' <=> Patient) /\ (HasEnd' <=> HasEnd)
  BY <1>1 DEF Visited, Patient, HasEnd
<1>3. NotEmptied' /\ Settled'
  BY <1>1, <1>2 DEF NotEmptied, Settled, PassInv
<1>4. /\ now \in Int /\ delay \in Int /\ MaxLatency \in Int /\ MaxLatency >= 0
      /\ history.waiting \in Int /\ history.waiting >= 0
  <2>1. history.waiting \in 0 .. MaxLatency
    BY <1>0 DEF WalkTyped, Histories
  <2> QED BY <1>0, <2>1, WalkParts, WalkAssumption
<1>5. \A x \in EntriesOf(root') : x.timestamp \in Int
  <2>1. EntriesOf(root') \subseteq Entries
    BY <1>1, KeysAreUnique DEF WalkTyped, StorageInv, TypeOK
  <2> QED BY <2>1, StorageTreeAssumption DEF Entries
<1>6. AllCovered'
  <2> SUFFICES ASSUME history.ordered, Patient, walk.at = "waiting",
                      NEW x \in EntriesOf(root')
               PROVE  Covered(x)'
    BY <1>1, <1>2 DEF AllCovered
  <2>1. CASE x \in EntriesOf(root) /\ (x.key \in history.late => x.key \in history'.late)
    <3>1. Covered(x)
      BY <2>1 DEF PassInv, AllCovered
    <3> QED BY <1>1, <2>1, <3>1 DEF Covered
  <2>2. CASE x.key \in history'.late
    BY <2>2 DEF Covered
  <2>3. CASE x.timestamp + delay > now + MaxLatency
    <3>1. x.timestamp + delay > now - history.waiting + MaxLatency
      BY <1>4, <1>5, <2>3
    <3> QED BY <1>1, <3>1 DEF Covered
  <2> QED BY <1>1, <2>1, <2>2, <2>3
<1>7. NonePassed'
  <2> SUFFICES ASSUME history.ordered, Patient, NEW x \in EntriesOf(root')
               PROVE  NotPassed(x)'
    BY <1>1, <1>2 DEF NonePassed
  <2>1. CASE x \in EntriesOf(root) /\ (x.key \in history.late => x.key \in history'.late)
    <3>1. NotPassed(x)
      BY <2>1 DEF PassInv, NonePassed
    <3> QED BY <1>1, <1>2, <2>1, <3>1 DEF NotPassed, SplitOff
  <2>2. CASE x.key \in history'.late
    BY <2>2 DEF NotPassed
  <2>3. CASE x.timestamp + delay > now + MaxLatency
    <3>1. ASSUME NEW v \in Visited PROVE v.timestamp < x.timestamp
      <4>1. v.timestamp + delay <= now
        BY DEF PassInv, Settled
      <4>2. v.timestamp \in Int
        BY <1>0, VisitedEntries DEF WalkTyped
      <4> QED BY <1>4, <1>5, <2>3, <4>1, <4>2
    <3> QED BY <1>2, <3>1 DEF NotPassed
  <2> QED BY <1>1, <2>1, <2>2, <2>3
<1> QED BY <1>0, <1>3, <1>6, <1>7, OthersKeepOrder DEF PassInv

\* Time passes while a read takes place, or nothing happens.
LEMMA TimeKeepsPass ==
  ASSUME PassInv, Tick \/ UNCHANGED walkVars
  PROVE  PassInv'
<1>0. OrderInv /\ WalkTyped
  BY DEF PassInv, OrderInv
<1>1. /\ UNCHANGED <<root, puts, walk, visited>>
      /\ history'.ordered = history.ordered /\ history'.late = history.late
      /\ now \in Int /\ now' \in Int /\ now <= now'
      /\ walk.at = "waiting" => now' - history'.waiting = now - history.waiting
  <2>1. now \in Int /\ history.waiting \in Int
    <3>1. history.waiting \in 0 .. MaxLatency
      BY <1>0 DEF WalkTyped, Histories
    <3> QED BY <1>0, <3>1, WalkParts, WalkAssumption
  <2>2. CASE Tick
    BY <1>0, <2>1, <2>2, TickIs
  <2>3. CASE UNCHANGED walkVars
    BY <2>1, <2>3 DEF walkVars
  <2> QED BY <2>2, <2>3
<1>2. /\ Visited' = Visited /\ EntriesOf(root') = EntriesOf(root)
      /\ (Patient' <=> Patient) /\ (HasEnd' <=> HasEnd)
  BY <1>1 DEF Visited, Patient, HasEnd
<1>3. NotEmptied'
  BY <1>1, <1>2 DEF NotEmptied, PassInv
<1>4. Settled'
  <2> SUFFICES ASSUME history.ordered, Patient, NEW v \in Visited
               PROVE  v.timestamp + delay <= now'
    BY <1>1, <1>2 DEF Settled
  <2>1. v.timestamp + delay <= now
    BY DEF PassInv, Settled
  <2>2. v.timestamp \in Int /\ delay \in Int
    BY <1>0, VisitedEntries, WalkAssumption DEF WalkTyped
  <2> QED BY <1>1, <2>1, <2>2
<1>5. walk.at = "waiting" => \A e : Covered(e) => Covered(e)'
  BY <1>1 DEF Covered
<1>6. AllCovered'
  BY <1>1, <1>2, <1>5 DEF AllCovered, PassInv
<1>7. \A e : NotPassed(e) => NotPassed(e)'
  BY <1>1, <1>2 DEF NotPassed, SplitOff
<1>8. NonePassed'
  BY <1>1, <1>2, <1>7 DEF NonePassed, PassInv
<1> QED BY <1>0, <1>3, <1>4, <1>6, <1>8, OthersKeepOrder DEF PassInv

\* Walk passes over no envelope that comes in time, however long its reads take,
\* whatever the limit cuts off and whatever arrives and expires in between: at
\* every moment of a read, each envelope is in it, before or behind it.
THEOREM NonePassedOver == WalkSpec => []NothingPassedOver
<1>1. PassInv /\ [WalkNext]_walkVars => PassInv'
  BY ReadKeepsPass, VisitKeepsPass, RetryKeepsPass, WindowKeepsPass, StorageKeepsPass,
     TimeKeepsPass DEF WalkNext, WalkStep
<1>2. PassInv => NothingPassedOver
  BY DEF PassInv, NonePassed, NotPassed, Patient, NothingPassedOver
<1> QED BY <1>1, <1>2, PassInit, PTL DEF WalkSpec
=============================================================================
