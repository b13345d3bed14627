------------------------------ MODULE MerkleTree ------------------------------
(***************************************************************************)
(* The Merkle tree that a dealer builds over the chunks of a sharing       *)
(* (class TreeT of merklecpp.h).  Leaves are inserted lazily: they wait in *)
(* a vector until the root, a path or the size is asked for; inserting     *)
(* them leaves hashes dirty and part of the tree on a stack.  Leaves can   *)
(* be flushed from the front, which conflates full subtrees into single    *)
(* nodes, and retracted from the end, which collapses nodes onto their     *)
(* left child; a tree can be copied, written and read back, whole or as a  *)
(* segment.                                                                *)
(*                                                                         *)
(* The heap is explicit: node maps the addresses in use to their nodes,    *)
(* because what can go wrong here are pointers to nodes that were moved or *)
(* deleted.  An operation is an operator from a tree to a tree, named like *)
(* its method.                                                             *)
(***************************************************************************)
EXTENDS SequencesExt, Integers, FiniteSets

CONSTANTS
  Counts,       \* bound: how many leaves may have been inserted in one behaviour
  MaxAsked      \* bound: with more leaves, a tree is only built further and copied

ASSUME CountsAssumption   == IsFiniteSet(Counts) /\ Counts \subseteq Nat /\ Counts # {}
ASSUME MaxAskedAssumption == MaxAsked \in Nat

VARIABLES
  tree,       \* the members of the tree, and the heap it lives in
  inserted,   \* number of leaves ever inserted: makes each leaf's hash its own
  log,        \* history: the leaves that are conceptually in the tree
  kept,       \* history: what the tree answers when asked for its leaves
  rootHash    \* and for its root

vars == <<tree, inserted, log, kept, rootHash>>

-----------------------------------------------------------------------------
\* Nodes.
null == 0

NodeHash == INSTANCE MerkleLog
  WITH Leaves <- {}, first <- 0
H(l, r) == NodeHash!H(l, r)

Leaf(h) == [hash |-> h, left |-> null, right |-> null,
            size |-> 1, height |-> 1, dirty |-> FALSE]

update_sizes(node, n) ==
  LET l == node[n].left
      r == node[n].right
  IN  IF l # null /\ r # null
        THEN [node EXCEPT ![n].size = node[l].size + node[r].size + 1,
                          ![n].height = 1 + (IF node[l].height > node[r].height
                                               THEN node[l].height
                                               ELSE node[r].height)]
        ELSE [node EXCEPT ![n].size = 1, ![n].height = 1]

\* Where the next node goes: the lowest address that is free.
Fresh(node) ==
  CHOOSE a \in 1 .. Cardinality(DOMAIN node) + 1 :
    a \notin DOMAIN node /\ 1 .. a - 1 \subseteq DOMAIN node

\* The heap with a node over l and r at Fresh(node).
make(node, l, r) ==
  LET n == Fresh(node)
  IN  update_sizes((n :> [Leaf(NodeHash!ZeroHash) EXCEPT !.left = l, !.right = r,
                                                         !.dirty = TRUE]) @@ node, n)

is_full(nd) == nd.size = 2 ^ nd.height - 1

RECURSIVE Under(_, _)
Under(node, n) ==
  IF n = null THEN {}
  ELSE {n} \cup Under(node, node[n].left) \cup Under(node, node[n].right)

\* Mutant: only the nodes themselves are.
DeletedAlone(node, ns) == Restrict(node, DOMAIN node \ ns)

\* The heap after the subtrees under these nodes are deleted.
Deleted(node, ns) ==
  Restrict(node, DOMAIN node \ UNION {Under(node, n) : n \in ns})

-----------------------------------------------------------------------------
\* Indexes and leaves.
num_leaves(t) == t.num_flushed + Len(t.leaf_nodes) + Len(t.uninserted_leaf_nodes)
min_index(t)  == t.num_flushed
max_index(t)  == IF num_leaves(t) = 0 THEN 0 ELSE num_leaves(t) - 1
Indexes(t)    == IF num_leaves(t) = 0 THEN {} ELSE min_index(t) .. max_index(t)

leaf_node(t, i) ==
  LET p == i - t.num_flushed
  IN  IF p >= Len(t.leaf_nodes)
        THEN t.uninserted_leaf_nodes[p - Len(t.leaf_nodes) + 1]
        ELSE t.leaf_nodes[p + 1]

leaf(t, i) == t.node[leaf_node(t, i)].hash

insert(t, h) ==
  [t EXCEPT !.node = (Fresh(@) :> Leaf(h)) @@ @,
            !.uninserted_leaf_nodes = Append(@, Fresh(t.node))]

-----------------------------------------------------------------------------
\* Inserting the waiting leaves.

Push(t, n, left) == [t EXCEPT !.insertion_stack = Append(@, [n |-> n, left |-> left])]

\* From n down to the full subtree that the new leaf is joined with.
RECURSIVE continue_insertion_stack(_, _, _)
continue_insertion_stack(t, n, new_leaf) ==
  IF is_full(t.node[n])
    THEN Push([t EXCEPT !.node = make(@, n, new_leaf)], Fresh(t.node), FALSE)
    ELSE LET left == ~ is_full(t.node[t.node[n].left])
         IN  continue_insertion_stack(
               Push([t EXCEPT !.node[n].dirty = TRUE], n, left),
               IF left THEN t.node[n].left ELSE t.node[n].right,
               new_leaf)

\* Hang result under the node on top of the stack, and so on up; when not
\* complete, only until a subtree is not full.
RECURSIVE Unwind(_, _, _)

Unwind(t, result, complete) ==
  IF t.insertion_stack = <<>> THEN [t EXCEPT !.root = result]
  ELSE LET top  == Last(t.insertion_stack)
           hung == [t.node EXCEPT ![top.n].left  = IF top.left THEN result ELSE @,
                                  ![top.n].right = IF top.left THEN @ ELSE result,
                                  ![top.n].dirty = TRUE]
           u    == [t EXCEPT !.insertion_stack = Front(@),
                             !.node = update_sizes(hung, top.n)]
       IN  IF ~ complete /\ ~ is_full(u.node[top.n])
             THEN [u EXCEPT !.root = top.n]
             ELSE Unwind(u, top.n, complete)

process_insertion_stack(t, complete) ==
  LET n == Last(t.insertion_stack).n
  IN  Unwind([t EXCEPT !.insertion_stack = Front(@),
                       !.node = update_sizes(@, n)], n, complete)

Place(t, n) ==
  IF t.insertion_stack = <<>> /\ t.root = null
    THEN [t EXCEPT !.root = n]
    ELSE process_insertion_stack(continue_insertion_stack(t, t.root, n), FALSE)

insert_leaf(t, n) == Place([t EXCEPT !.leaf_nodes = Append(@, n)], n)

Complete(t) ==
  IF t.insertion_stack # <<>> THEN process_insertion_stack(t, TRUE) ELSE t

Placed(t) ==
  [FoldLeft(insert_leaf, t, t.uninserted_leaf_nodes) EXCEPT !.uninserted_leaf_nodes = <<>>]

insert_leaves(t, complete) == IF complete THEN Complete(Placed(t)) ELSE Placed(t)

-----------------------------------------------------------------------------
\* Hashing.
RECURSIVE hash(_, _)

hash(node, n) ==
  LET l == node[n].left
      r == node[n].right
  IN  IF l # null /\ node[l].dirty THEN hash(hash(node, l), n)
      ELSE IF r # null /\ node[r].dirty THEN hash(hash(node, r), n)
      ELSE [node EXCEPT ![n].hash = H(node[l].hash, node[r].hash),
                        ![n].dirty = FALSE]

\* An empty tree has no root: the code throws, having changed nothing.
Hashed(t) ==
  IF t.root # null /\ t.node[t.root].dirty
    THEN [t EXCEPT !.node = hash(@, t.root)]
    ELSE t

compute_root(t) == Hashed(insert_leaves(t, TRUE))

RootHash(t) == IF t.root = null THEN NodeHash!ZeroHash ELSE t.node[t.root].hash
root(t)     == RootHash(compute_root(t))

\* size() inserts the waiting leaves without completing the insertion.
SizeTree(t) == insert_leaves(t, FALSE)

-----------------------------------------------------------------------------
\* Walking from the root to a leaf.

\* At height h the leaf lies to the right when bit h - 2 of its index is set.
go_right(index, h) == (index \div 2 ^ (h - 2)) % 2 = 1

\* The turns from n on.  A node lower than the current height is passed
\* without a turn.
RECURSIVE Turns(_, _, _, _)
Turns(node, n, index, h) ==
  IF h <= 1 THEN <<>>
  ELSE IF node[n].height # h THEN Turns(node, n, index, h - 1)
  ELSE LET right == go_right(index, h)
           next  == IF right THEN node[n].right ELSE node[n].left
       IN  <<[at |-> n, right |-> right, to |-> next,
              other |-> IF right THEN node[n].left ELSE node[n].right]>>
           \o Turns(node, next, index, h - 1)

\* walk_to computes the root first; t is a tree after that.
walk_to(t, index) == Turns(t.node, t.root, index, t.node[t.root].height)

WalkEnd(t, index) ==
  LET w == walk_to(t, index) IN IF w = <<>> THEN t.root ELSE Last(w).to

-----------------------------------------------------------------------------
\* Paths and past roots.
\* Mutant: the direction of the walk is taken for that of the sibling.
ElementTurned(t, turn) == [hash |-> t.node[turn.other].hash, left |-> ~ turn.right]

Element(t, turn) == [hash |-> t.node[turn.other].hash, left |-> turn.right]

Upward(t, turns) ==
  [k \in 1 .. Len(turns) |-> Element(t, turns[Len(turns) + 1 - k])]

PathIn(t, index) ==
  [leaf |-> leaf(t, index), leaf_index |-> index, max_index |-> max_index(t),
   elements |-> Upward(t, walk_to(t, index))]

path(t, index) == PathIn(compute_root(t), index)

\* Mutant: what lies to the right, which came later, is joined too.
JoinBoth(h, e) == IF e.left THEN H(e.hash, h) ELSE H(h, e.hash)

JoinLeft(h, e) == IF e.left THEN H(e.hash, h) ELSE h

PastRoot(p)         == FoldLeft(JoinLeft, p.leaf, p.elements)
past_root(t, index) == PastRoot(path(t, index))

\* The walks to index and to as_of part at a fork, if at all; above it the path
\* has only what joins from the left, and at it the hash of what lies to the right
\* up to as_of.
Right(turn)  == turn.right
Fork(wi, wa) ==
  Min({k \in DOMAIN wi \cap DOMAIN wa : wi[k].right # wa[k].right} \cup {Len(wi) + 1})

AsOfHash(t, fork_to_as_of, end) ==
  FoldLeft(JoinLeft, t.node[end].hash, Upward(t, SelectSeq(fork_to_as_of, Right)))

PastElements(t, wi, wa, f, end) ==
  Upward(t, SubSeq(wi, f + 1, Len(wi)))
  \o (IF f > Len(wi) THEN <<>>
      ELSE <<[hash |-> AsOfHash(t, SubSeq(wa, f + 1, Len(wa)), end), left |-> FALSE]>>)
  \o Upward(t, SelectSeq(SubSeq(wi, 1, f - 1), Right))

PastPath(t, index, as_of, wi, wa) ==
  [leaf |-> leaf(t, index), leaf_index |-> index, max_index |-> as_of,
   elements |-> PastElements(t, wi, wa, Fork(wi, wa), WalkEnd(t, as_of))]

past_path(t, index, as_of) ==
  LET In(u) == PastPath(u, index, as_of, walk_to(u, index), walk_to(u, as_of))
  IN  In(compute_root(t))

-----------------------------------------------------------------------------
\* Flushing and retracting.

\* A left child that the walk turns away from loses its subtrees.
Conflate(node, turn) ==
  IF ~ turn.right THEN node
  ELSE LET l == turn.other
           u == IF node[l].dirty THEN hash(node, l) ELSE node
       IN  [Deleted(u, {u[l].left, u[l].right})
              EXCEPT ![l].left = null, ![l].right = null]

Flushed(t, index) ==
  [t EXCEPT !.node = FoldLeft(Conflate, @, walk_to(t, index)),
            !.leaf_nodes = SubSeq(@, index - t.num_flushed + 1, Len(@)),
            !.num_flushed = index]

flush_to(t, index) ==
  IF index <= min_index(t) THEN t ELSE Flushed(compute_root(t), index)

\* The right child is deleted and the left one moved into its parent.
Eliminate(node, n) ==
  LET l == node[node[n].left]
      u == Deleted(node, {node[n].right})
  IN  Restrict([u EXCEPT ![n] = [l EXCEPT !.dirty = @ \/ l.left # null]],
               DOMAIN u \ {node[n].left})

\* The walk to index with that done at every turn to the left; the heap, and the
\* node where the walk ends.  Sizes are brought up to date on the way back.
RECURSIVE Prune(_, _, _, _)

\* Mutant: the nodes on the way are not marked for hashing.
PruneClean(node, n, index, h) ==
  IF h <= 1 THEN [node |-> node, at |-> n]
  ELSE LET below ==
             IF node[n].height # h
               THEN Prune(node, n, index, h - 1)
             ELSE IF go_right(index, h)
               THEN Prune(node, node[n].right, index, h - 1)
             ELSE Prune(Eliminate(node, n), n, index, h)
       IN  [below EXCEPT !.node = update_sizes(@, n)]

Prune(node, n, index, h) ==
  IF h <= 1 THEN [node |-> node, at |-> n]
  ELSE LET below ==
             IF node[n].height # h
               THEN Prune(node, n, index, h - 1)
             ELSE IF go_right(index, h)
               THEN Prune([node EXCEPT ![n].dirty = TRUE], node[n].right, index, h - 1)
             ELSE Prune(Eliminate(node, n), n, index, h)
       IN  [below EXCEPT !.node = update_sizes(@, n)]

\* Only the first of the waiting leaves stay.
DropWaiting(t, over) ==
  LET un == t.uninserted_leaf_nodes
  IN  [t EXCEPT !.uninserted_leaf_nodes = SubSeq(un, 1, over),
                !.node = Deleted(@, {un[k] : k \in over + 1 .. Len(un)})]

\* The retained leaves up to the p-th (from 0), which is now where the walk ended.
CutTo(t, p, cut) ==
  [t EXCEPT !.node = cut.node,
            !.leaf_nodes = SubSeq([@ EXCEPT ![p + 1] = cut.at], 1, p + 1)]

Retracted(t, index) ==
  CutTo(t, index - t.num_flushed, Prune(t.node, t.root, index, t.node[t.root].height))

retract_to(t, index) ==
  LET p == index - t.num_flushed
  IN  IF max_index(t) < index THEN t
      ELSE IF p >= Len(t.leaf_nodes) THEN DropWaiting(t, p - Len(t.leaf_nodes) + 1)
      ELSE Retracted(compute_root(t), index)

-----------------------------------------------------------------------------
\* Copying.  Nodes are made in the order of a walk that visits parents first.
\* The leaves found on the way are the retained ones, but for as many as to_skip.
RECURSIVE copy_node(_, _, _)
copy_node(from, n, acc) ==
  IF n = null THEN [acc EXCEPT !.at = null]
  ELSE LET a == Fresh(acc.node)
           l == copy_node(from, from[n].left, [acc EXCEPT !.node = (a :> from[n]) @@ @])
           r == copy_node(from, from[n].right, l)
           isLeaf == from[n].size = 1 /\ l.at = null /\ r.at = null
       IN  [r EXCEPT !.at = a,
                     !.node = [@ EXCEPT ![a].left = l.at, ![a].right = r.at],
                     !.leaf_nodes = IF isLeaf /\ r.to_skip = 0 THEN Append(@, a) ELSE @,
                     !.to_skip = IF isLeaf /\ @ > 0 THEN @ - 1 ELSE @]

EmptyHeap == <<>>
EmptyTree == [node |-> EmptyHeap, root |-> null, leaf_nodes |-> <<>>,
              uninserted_leaf_nodes |-> <<>>, num_flushed |-> 0, insertion_stack |-> <<>>]

\* A new tree that is assigned t.  What is on t's insertion stack is not copied.
Copied(t) ==
  LET c == copy_node(t.node, t.root, [node |-> EmptyHeap, at |-> null, leaf_nodes |-> <<>>,
                                      to_skip |-> t.num_flushed % 2])
      u == [EmptyTree EXCEPT !.node = c.node, !.root = c.at,
                             !.leaf_nodes = c.leaf_nodes, !.num_flushed = t.num_flushed]
      Add(v, n) == insert(v, t.node[n].hash)
  IN  FoldLeft(Add, u, t.uninserted_leaf_nodes)

-----------------------------------------------------------------------------
\* Writing and reading.  A stream is a number of leaves, a number of flushed
\* leaves, and hashes.

\* Mutant: the extra hashes from the root down.
ExtrasDownward(t, index) ==
  LET turns == SelectSeq(walk_to(t, index), Right)
  IN  [k \in 1 .. Len(turns) |-> t.node[turns[k].other].hash]

Extras(t, index) ==
  LET es == Upward(t, SelectSeq(walk_to(t, index), Right))
  IN  [k \in 1 .. Len(es) |-> es[k].hash]

\* The leaves from .. to, and the left edge of the tree at the first of them.
Segment(t, from, to) ==
  <<to - from + 1, from>>
  \o [k \in 1 .. to - from + 1 |-> leaf(t, from + k - 1)]
  \o Extras(t, from)

serialise(t, from, to) == Segment(compute_root(t), from, to)

\* A whole tree, which may be empty.
serialise_all(t) ==
  IF num_leaves(t) = 0 THEN <<0, t.num_flushed>>
  ELSE serialise(t, min_index(t), max_index(t))

\* The levels from the leaves up.  A level whose position is odd is completed on
\* its left by the next of the extra hashes.
RECURSIVE Rebuild(_, _, _, _, _)
Rebuild(node, level, it, level_no, extras) ==
  IF it = 0 /\ Len(level) <= 1 THEN [node |-> node, level |-> level]
  ELSE LET a     == Fresh(node)
           extra == [Leaf(extras[1]) EXCEPT !.height = level_no + 1,
                                            !.size = 2 ^ (level_no + 1) - 1]
           odd   == it % 2 = 1
           nodes == IF odd THEN (a :> extra) @@ node ELSE node
           row   == IF odd THEN <<a>> \o level ELSE level
           Pair(acc, i) ==
             IF 2 * i > Len(row)
               THEN [acc EXCEPT !.level = Append(@, Last(row))]
               ELSE [node  |-> make(acc.node, row[2 * i - 1], row[2 * i]),
                     level |-> Append(acc.level, Fresh(acc.node))]
           up    == FoldLeft(Pair, [node |-> nodes, level |-> <<>>],
                             [i \in 1 .. (Len(row) + 1) \div 2 |-> i])
       IN  Rebuild(up.node, up.level, it \div 2, level_no + 1,
                   IF odd THEN Tail(extras) ELSE extras)

deserialise(bytes) ==
  LET n     == bytes[1]
      built == Rebuild([k \in 1 .. n |-> Leaf(bytes[2 + k])], [k \in 1 .. n |-> k],
                       bytes[2], 0, SubSeq(bytes, 3 + n, Len(bytes)))
  IN  [EmptyTree EXCEPT !.node = built.node, !.num_flushed = bytes[2],
                        !.leaf_nodes = [k \in 1 .. n |-> k],
                        !.root = IF built.level = <<>> THEN null ELSE built.level[1]]

-----------------------------------------------------------------------------
Kept(t) == [k \in 1 .. num_leaves(t) - min_index(t) |-> leaf(t, min_index(t) + k - 1)]

Init ==
  /\ inserted = 0
  /\ log = <<>>
  /\ tree = EmptyTree
  /\ kept = <<>>
  /\ rootHash = root(tree)

\* The tree becomes t, which conceptually holds l.
Becomes(t, l) ==
  /\ tree' = t
  /\ log' = l
  /\ kept' = Kept(t)
  /\ rootHash' = root(t)

\* One leaf, or the first ones of a new tree, which are given in a vector.
Insert ==
  \E n \in Counts :
    LET new == [k \in 1 .. n - inserted |-> <<inserted + k>>]
    IN  /\ n > inserted
        /\ inserted = 0 \/ n = inserted + 1
        /\ inserted' = n
        /\ Becomes(FoldLeft(insert, tree, new), log \o new)

Root == Becomes(compute_root(tree), log) /\ UNCHANGED inserted
Size == Becomes(SizeTree(tree), log) /\ UNCHANGED inserted

Flush ==
  \E i \in Indexes(tree) : Becomes(flush_to(tree, i), log) /\ UNCHANGED inserted

Retract ==
  \E i \in Indexes(tree) :
    Becomes(retract_to(tree, i), SubSeq(log, 1, i + 1)) /\ UNCHANGED inserted

\* Mutant: with NDEBUG, nothing is asserted.
CopyUnasserted == Becomes(Copied(tree), log) /\ UNCHANGED inserted

\* The assignment asserts that the copy has the same indexes, also as built: no
\* CMakeLists.txt names a build type, and NDEBUG is not defined.  Of a tree that
\* size() left with an insertion stack it may fail, which ends the process.
Copy ==
  /\ max_index(Copied(tree)) = max_index(tree)
  /\ Becomes(Copied(tree), log)
  /\ UNCHANGED inserted

Reload ==
  Becomes(deserialise(serialise_all(tree)), log) /\ UNCHANGED inserted

ReloadSegment ==
  \E from, to \in Indexes(tree) :
    /\ from <= to
    /\ Becomes(deserialise(serialise(tree, from, to)), SubSeq(log, 1, to + 1))
    /\ UNCHANGED inserted

Next ==
  \/ Insert \/ Size \/ Copy
  \/ /\ inserted <= MaxAsked
     /\ Root \/ Flush \/ Retract \/ Reload \/ ReloadSegment

Spec == Init /\ [][Next]_vars

-----------------------------------------------------------------------------
\* Every pointer to a leaf leads to the node that the walk to that leaf ends at;
\* no node is reached twice, none that was deleted is reached, none is lost, and
\* sizes, by which full subtrees are told, are those of the subtrees
\* (merklecpp.h:876 "The leaf is now elsewhere, save the pointer").  The tree is
\* asked after the insertion is completed, which the heap survives.
LeafPointersLive ==
  \A t \in {compute_root(tree)} :
      num_leaves(t) > 0 =>
        /\ Under(t.node, t.root) = DOMAIN t.node
        /\ \A n \in DOMAIN t.node :
             LET nd == t.node[n]
             IN  nd.left # null => nd.size = t.node[nd.left].size + t.node[nd.right].size + 1
        /\ \A n \in DOMAIN t.node :
             Cardinality({p \in DOMAIN t.node : n \in {t.node[p].left, t.node[p].right}})
               = (IF n = t.root THEN 0 ELSE 1)
        /\ \A i \in Indexes(t) : WalkEnd(t, i) = leaf_node(t, i)

\* At any moment, also between insertion and hashing: a node that is not dirty
\* has the hash of its children, which are not dirty either.
CleanHashesHold ==
  \A n \in DOMAIN tree.node :
    LET nd == tree.node[n]
    IN  ~ nd.dirty /\ nd.left # null =>
          /\ ~ tree.node[nd.left].dirty /\ ~ tree.node[nd.right].dirty
          /\ nd.hash = H(tree.node[nd.left].hash, tree.node[nd.right].hash)

\* Whenever the path of a leaf is asked for, it is that of the log, forgotten
\* leaves included: it verifies against the root and no other leaf has it.
PathsAreOfTheLog ==
  \A i \in Indexes(tree) :
    path(tree, i) = [leaf |-> log[i + 1], leaf_index |-> i, max_index |-> Len(log) - 1,
                     elements |-> NodeHash!PathOf(log, i)]

\* Past roots and paths are those of the tree when as_of was its last leaf
\* (merklecpp.h:933 and 1037, "equivalent to retracting the tree").
PastIsThePrefix ==
  \A a \in Indexes(tree) :
    LET prefix == SubSeq(log, 1, a + 1)
    IN  /\ past_root(tree, a) = NodeHash!RootOf(prefix)
        /\ \A i \in min_index(tree) .. a :
             past_path(tree, i, a) =
               [leaf |-> log[i + 1], leaf_index |-> i, max_index |-> a,
                elements |-> NodeHash!PathOf(prefix, i)]

\* The tree, asked for its root and its leaves after any operation, is the log.
Abstract == INSTANCE MerkleLog
  WITH Leaves <- {<<k>> : k \in 1 .. Max(Counts)}, first <- tree.num_flushed
TreeIsALog == Abstract!Spec
=============================================================================
