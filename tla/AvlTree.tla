------------------------------ MODULE AvlTree ------------------------------
(***************************************************************************)
(* The AVL tree a storage embeds (github.com/emirpasic/gods, not part of   *)
(* this repository), as far as the store uses it: Put, Get, Left, Remove   *)
(* of the left-most key, Size, and the nodes themselves, which Get walks.  *)
(* A tree is the set of its nodes, each with its height.  As it is a       *)
(* search tree, that says where each of them is: the highest is on top,    *)
(* and those with smaller keys are to its left.                            *)
(***************************************************************************)
EXTENDS Integers, FiniteSets

CONSTANT Entries  \* what a node holds: records with a key, an integer

Nodes == [entry : Entries, height : Nat \ {0}]

Trees == {t \in SUBSET Nodes : IsFiniteSet(t)}

Empty == {}

IsEmpty(t) == t = Empty

Top(t) == CHOOSE n \in t : \A m \in t : m.height <= n.height

\* The children of the top node: Children[0] and Children[1].
Left(t) == LET top == Top(t).entry IN {n \in t : n.entry.key < top.key}

Right(t) == LET top == Top(t).entry IN {n \in t : n.entry.key > top.key}

Height(t) == IF IsEmpty(t) THEN 0 ELSE Top(t).height

Node(l, e, r) ==
  l \cup r \cup
  {[entry |-> e,
    height |-> 1 + (LET h == Height(l) g == Height(r) IN IF h > g THEN h ELSE g)]}

\* A node whose subtrees differ in height by at most two, rotated into shape.
Balanced(l, e, r) ==
  CASE Height(l) > Height(r) + 1 /\ Height(Left(l)) >= Height(Right(l)) ->
         Node(Left(l), Top(l).entry, Node(Right(l), e, r))
    [] Height(l) > Height(r) + 1 /\ Height(Left(l)) < Height(Right(l)) ->
         Node(Node(Left(l), Top(l).entry, Left(Right(l))), Top(Right(l)).entry,
              Node(Right(Right(l)), e, r))
    [] Height(r) > Height(l) + 1 /\ Height(Right(r)) >= Height(Left(r)) ->
         Node(Node(l, e, Left(r)), Top(r).entry, Right(r))
    [] Height(r) > Height(l) + 1 /\ Height(Right(r)) < Height(Left(r)) ->
         Node(Node(l, e, Left(Left(r))), Top(Left(r)).entry,
              Node(Right(Left(r)), Top(r).entry, Right(r)))
    [] OTHER -> Node(l, e, r)

Put(t, e) ==
  LET put[n \in Trees] ==
        IF IsEmpty(n) THEN Node(Empty, e, Empty)
        ELSE IF e.key < Top(n).entry.key
             THEN Balanced(put[Left(n)], Top(n).entry, Right(n))
        ELSE IF e.key > Top(n).entry.key
             THEN Balanced(Left(n), Top(n).entry, put[Right(n)])
        ELSE Node(Left(n), e, Right(n))
  IN put[t]

RemoveLeft(t) ==
  LET remove[n \in Trees] ==
        IF IsEmpty(Left(n)) THEN Right(n)
        ELSE Balanced(remove[Left(n)], Top(n).entry, Right(n))
  IN remove[t]

EntriesOf(t) == {n.entry : n \in t}

HasKey(t, k) == \E e \in EntriesOf(t) : e.key = k

Size(t) == Cardinality(t)

\* The shape of a tree: nodes as high as what is below them, and as flat as an
\* AVL tree is.
WellFormed(t) ==
  LET formed[n \in Trees] ==
        IsEmpty(n) \/
          /\ n = Node(Left(n), Top(n).entry, Right(n))
          /\ Height(Left(n)) - Height(Right(n)) \in -1 .. 1
          /\ formed[Left(n)] /\ formed[Right(n)]
  IN formed[t]
=============================================================================
