-------------------------------- MODULE Btree --------------------------------
(***************************************************************************)
(* The threaded red-black tree of libhurd-btree (btree.h, btree.c), which  *)
(* the kernel and the memory manager use for reservations, free space,     *)
(* maps and storage.  A node is its own key.  The functions change nodes   *)
(* through pointers; here they map a tree to a tree.                       *)
(*                                                                         *)
(* A tree has a root and, for every node, a parent, a colour and two       *)
(* links, left and right.  A link is a child (perhaps NULL) or a thread,   *)
(* which points to the node that precedes (left) or follows (right) in the *)
(* order of keys.  The trees of the code are symmetric but for the         *)
(* threads: a node without right child always has a right thread, while a  *)
(* left thread may be missing.  ref is the set of nodes in the tree.       *)
(***************************************************************************)
EXTENDS LibState

CONSTANTS
    Nodes,      \* natural numbers: the nodes and their keys
    Nil         \* NULL

BtreeKind == "btree"

NoLink == [thread |-> FALSE, to |-> Nil]
ToChild(n) == [thread |-> FALSE, to |-> n]
ToThread(n) == [thread |-> TRUE, to |-> n]
Detached == [parent |-> Nil, red |-> FALSE, left |-> NoLink, right |-> NoLink]

\* BTREE_(tree_init).
BtreeInit ==
    /\ lib = [kind |-> BtreeKind, root |-> Nil, node |-> [n \in Nodes |-> Detached]]
    /\ ref = {}

Opposite(side) == IF side = "left" THEN "right" ELSE "left"
Child(T, n, side) ==
    IF T.node[n][side].thread THEN Nil ELSE T.node[n][side].to
Parent(T, n) == T.node[n].parent
IsRed(T, n) == n # Nil /\ T.node[n].red
SideOf(T, n) == IF Child(T, Parent(T, n), "left") = n THEN "left" ELSE "right"

SetField(T, n, f, v) == [T EXCEPT !.node[n][f] = v]
SetRed(T, n, v) == IF n = Nil THEN T ELSE SetField(T, n, "red", v)
SetParent(T, n, p) == IF n = Nil THEN T ELSE SetField(T, n, "parent", p)

\* Makes n the child of p on this side, or the root.
Attach(T, p, side, n) ==
    LET U == IF p = Nil THEN [T EXCEPT !.root = n] ELSE SetField(T, p, side, ToChild(n))
    IN  SetParent(U, n, p)

-----------------------------------------------------------------------------
RECURSIVE Outermost(_, _, _)
\* The last node on the path that follows the links of one side.
Outermost(T, n, side) ==
    IF Child(T, n, side) = Nil THEN n ELSE Outermost(T, Child(T, n, side), side)

RECURSIVE Climb(_, _, _)
\* The parent of the first ancestor (or n itself) that is not on this side of
\* its parent.
Climb(T, n, side) ==
    IF Parent(T, n) # Nil /\ Child(T, Parent(T, n), side) = n
    THEN Climb(T, Parent(T, n), side)
    ELSE Parent(T, n)

\* BTREE_(next_hard) for "right" and BTREE_(prev_hard) for "left".
Neighbour(T, n, side) ==
    IF T.node[n][side].thread THEN T.node[n][side].to
    ELSE IF Child(T, n, side) # Nil THEN Outermost(T, Child(T, n, side), Opposite(side))
    ELSE Climb(T, n, side)

\* BTREE_(next): a node without right child has a right thread.
Following(T, n) == Neighbour(T, n, "right")

\* BTREE_(first).
FirstNode(T) == IF T.root = Nil THEN Nil ELSE Outermost(T, T.root, "left")

\* Mutant: the right thread of the node that moved down is not repaired.
Rethread_Not(T, n) == T

\* A node that has lost its right child gets a right thread.
Rethread(T, n) ==
    IF Child(T, n, "right") = Nil
    THEN LET U == IF T.node[n].right.thread THEN T ELSE SetField(T, n, "right", NoLink)
         IN  SetField(U, n, "right", ToThread(Neighbour(U, n, "right")))
    ELSE T

\* The rotation that moves p down to the given side, its child of the other
\* side taking its place.  The double rotations of the code are two of these.
Rotate(T, p, side) ==
    LET other == Opposite(side)
        q == Child(T, p, other)
        up == Parent(T, p)
        pside == IF up = Nil THEN "left" ELSE SideOf(T, p)
        T1 == Attach(T, p, other, Child(T, q, side))
        T2 == Attach(T1, q, side, p)
        T3 == Attach(T2, up, pside, q)
    IN  Rethread(T3, p)

-----------------------------------------------------------------------------
\* BTREE_(maybe_split2_internal): two red edges in a row above n are removed
\* by a rotation.
FixRedEdges(T, n) ==
    LET p == Parent(T, n)
        g == Parent(T, p)
        side == SideOf(T, p)
        inner == SideOf(T, n) # side
        T1 == IF inner THEN SetRed(SetRed(SetRed(T, p, TRUE), g, TRUE), n, FALSE)
                       ELSE SetRed(SetRed(T, p, FALSE), g, TRUE)
        T2 == IF inner THEN Rotate(T1, p, side) ELSE T1
    IN  Rotate(T2, g, Opposite(side))

\* BTREE_(maybe_split_internal) and BTREE_(maybe_split2_internal).
MaybeSplit(T, n, force) ==
    LET l == Child(T, n, "left")
        r == Child(T, n, "right")
        T1 == SetRed(SetRed(SetRed(T, n, TRUE), l, FALSE), r, FALSE)
        T2 == IF IsRed(T1, Parent(T1, n)) THEN FixRedEdges(T1, n) ELSE T1
    IN  IF force \/ (IsRed(T, l) /\ IsRed(T, r)) THEN SetRed(T2, T2.root, FALSE) ELSE T

RECURSIVE Descend(_, _, _, _)
\* BTREE_(find_internal) below n: the tree, which the search splits on its way
\* down, with the node found (or Nil) and where it would be linked.
Descend(T, n, key, at) ==
    IF n = Nil \/ n = key
    THEN [tree |-> T, found |-> n, at |-> at]
    ELSE LET side == IF key < n THEN "left" ELSE "right"
             U == MaybeSplit(T, n, FALSE)
             seen == IF key < n THEN [succ |-> n] ELSE [pred |-> n]
         IN  Descend(U, Child(U, n, side), key, seen @@ [parent |-> n, side |-> side] @@ at)

FindInternal(T, key) ==
    Descend(T, T.root, key, [parent |-> Nil, side |-> "left", pred |-> Nil, succ |-> Nil])

\* BTREE_(insert).
Insert(T, n) ==
    LET f == FindInternal(T, n)
        leaf == [f.tree EXCEPT !.node[n] = [parent |-> Nil, red |-> TRUE,
                                            left |-> ToThread(f.at.pred),
                                            right |-> ToThread(f.at.succ)]]
        U == Attach(leaf, f.at.parent, f.at.side, n)
    IN  IF f.found # Nil THEN f.tree
        ELSE IF f.at.parent = Nil THEN SetRed(U, n, FALSE)
        ELSE MaybeSplit(U, n, TRUE)

-----------------------------------------------------------------------------
RECURSIVE Rebalance(_, _, _)
\* The loop of BTREE_(detach): the subtree child of p has one black edge less
\* than its brother q.
Rebalance(T, p, child) ==
    IF p = Nil \/ IsRed(T, child) THEN SetRed(T, child, FALSE)
    ELSE
    LET side == IF child = Child(T, p, "left") THEN "left" ELSE "right"
        other == Opposite(side)
        q0 == Child(T, p, other)
        T1 == IF IsRed(T, q0) THEN Rotate(SetRed(SetRed(T, q0, FALSE), p, TRUE), p, side) ELSE T
        q == Child(T1, p, other)
        near == Child(T1, q, side)
        far == Child(T1, q, other)
        pred == T1.node[p].red
    IN  IF ~IsRed(T1, near) /\ ~IsRed(T1, far)
        THEN Rebalance(SetRed(T1, q, TRUE), Parent(T1, p), p)
        ELSE IF ~IsRed(T1, far)
        THEN LET T2 == SetRed(SetRed(T1, near, pred), p, FALSE)
             IN  Rotate(Rotate(T2, q, other), p, side)
        ELSE LET T2 == SetRed(SetRed(SetRed(T1, q, pred), p, FALSE), far, FALSE)
             IN  Rotate(T2, p, side)

\* The threads that point to n are redirected to its neighbours.
SkipThreads(T, pred, succ) ==
    LET T1 == IF pred # Nil /\ T.node[pred].right.thread
              THEN SetField(T, pred, "right", ToThread(succ)) ELSE T
    IN  IF succ # Nil /\ T1.node[succ].left.thread
        THEN SetField(T1, succ, "left", ToThread(pred)) ELSE T1

\* The node u, which has at most one child, is unchained: its child takes its
\* place.
Unchain(T, u, child) ==
    LET p == Parent(T, u)
        side == SideOf(T, u)
    IN  IF p = Nil THEN [T EXCEPT !.root = child]
        ELSE IF side = "left" \/ child # Nil THEN SetField(T, p, side, ToChild(child))
        ELSE SetField(T, p, side, ToThread(Neighbour(T, u, "right")))

\* The unchained successor u takes the place, the children and the colour of n.
TakePlace(T, n, u, at, side) ==
    LET T1 == Attach(T, u, "left", Child(T, n, "left"))
        T2 == IF Child(T1, n, "right") # Nil
              THEN Attach(T1, u, "right", Child(T1, n, "right")) ELSE T1
        T3 == Attach(T2, at, side, u)
    IN  SetRed(T3, u, T.node[n].red)

\* BTREE_(detach), and BTREE_(prev), which it calls and which sets the left
\* thread of a node that has none.
Detach(T0, n) ==
    LET pred == Neighbour(T0, n, "left")
        T == IF Child(T0, n, "left") = Nil
             THEN SetField(T0, n, "left", ToThread(pred)) ELSE T0
        at == Parent(T, n)
        side == IF at = Nil THEN "left" ELSE SideOf(T, n)
        inner == Child(T, n, "left") # Nil /\ Child(T, n, "right") # Nil
        succ == Following(T, n)
        u == IF inner THEN succ ELSE n
        child == IF Child(T, u, "left") # Nil THEN Child(T, u, "left") ELSE Child(T, u, "right")
        p == IF Parent(T, u) = n THEN u ELSE Parent(T, u)
        T1 == SkipThreads(T, pred, succ)
        T2 == SetParent(Unchain(T1, u, child), child, p)
        T3 == IF inner THEN TakePlace(T2, n, u, at, side) ELSE T2
        T4 == IF T.node[u].red THEN T3 ELSE Rebalance(T3, p, child)
    IN  [T4 EXCEPT !.node[n] = Detached]

\* BTREE_(prev) by a user of the tree.
Prev(T, n) ==
    IF Child(T, n, "left") = Nil
    THEN SetField(T, n, "left", ToThread(Neighbour(T, n, "left"))) ELSE T

-----------------------------------------------------------------------------
BtreeNext ==
    /\ lib.kind = BtreeKind
    /\ \E n \in Nodes :
          \/ n \notin ref /\ Becomes(Insert(lib, n), ref \cup {n})
          \/ n \in ref /\ Becomes(Detach(lib, n), ref \ {n})
          \/ Becomes(FindInternal(lib, n).tree, ref)
          \/ n \in ref /\ Becomes(Prev(lib, n), ref)

-----------------------------------------------------------------------------
RECURSIVE BlackDepths(_, _)
\* The numbers of black nodes on the paths from n down.
BlackDepths(T, n) ==
    IF n = Nil THEN {0}
    ELSE {d + (IF T.node[n].red THEN 0 ELSE 1) :
             d \in BlackDepths(T, Child(T, n, "left")) \cup BlackDepths(T, Child(T, n, "right"))}

RECURSIVE InOrder(_, _)
InOrder(T, n) ==
    IF n = Nil THEN <<>>
    ELSE InOrder(T, Child(T, n, "left")) \o <<n>> \o InOrder(T, Child(T, n, "right"))

\* What BTREE_(check_tree_internal) asserts: black depths are equal, no two
\* red nodes in a row, parent pointers are right, threads lead to the
\* neighbours, a node without right child has a right thread.
CheckTree(T) ==
    /\ Cardinality(BlackDepths(T, T.root)) = 1
    /\ ~IsRed(T, T.root)
    /\ T.root # Nil => Parent(T, T.root) = Nil
    /\ \A n \in ref :
          /\ \A side \in {"left", "right"} :
                LET c == Child(T, n, side) IN
                /\ c # Nil => Parent(T, c) = n /\ ~(IsRed(T, c) /\ IsRed(T, n))
                /\ T.node[n][side].thread =>
                      LET U == SetField(T, n, side, NoLink)
                      IN  T.node[n][side].to = Neighbour(U, n, side)
          /\ Child(T, n, "right") = Nil => T.node[n].right.thread

\* The nodes in the tree are those inserted and not detached, in the order of
\* their keys; a search finds exactly them, and first and next visit them all.
HoldsNodes(T) ==
    /\ InOrder(T, T.root) = SetToSortSeq(ref, <)
    /\ \A n \in Nodes : FindInternal(T, n).found = IF n \in ref THEN n ELSE Nil
    /\ ref # {} => \A i \in 1..(Cardinality(ref) - 1) :
                      LET s == SetToSortSeq(ref, <) IN Following(T, s[i]) = s[i + 1]

\* Whatever was inserted, detached and looked for, and in whatever order, the
\* tree passes the library's own check and holds the nodes it should: the
\* threads that searches and traversals write into null pointers survive the
\* rotations, splits and detachments around them.
TreeAgrees == lib.kind = BtreeKind => CheckTree(lib) /\ HoldsNodes(lib)
=============================================================================
